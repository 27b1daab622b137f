------------------------- MODULE OptimisticMutation -------------------------
(***************************************************************************)
(* BaseMutation.performMutation on top of the debouncing middleware.  A    *)
(* mutation shows at once, by its optimistic response; the one that was    *)
(* made before with the same key is disposed of, which takes its response  *)
(* back and ignores its answer if it is already under way.  The server     *)
(* takes requests in the order in which they happen to arrive, and may     *)
(* refuse one.  The value that a mutation saves is its number.             *)
(*                                                                         *)
(* No component of the application passes a debounceKey today: this is the *)
(* layer they would do it with.                                            *)
(***************************************************************************)
EXTENDS DebounceMutation, FiniteSets

VARIABLES
  debouncedMutationMap,  \* per key, the mutation that can be disposed of
  confirmed,  \* per key, the value the store has from answers (0 at first)
  value,      \* per key, the value in the database
  inFlight,   \* the mutations on their way to the server
  answers,    \* the answers on their way back
  muddled     \* history: keys whose requests arrived in another order than
              \* they were sent in, or of which one was refused

others == <<debouncedMutationMap, confirmed, value, inFlight, answers, muddled>>
vars == <<debounce, others>>

NoMutation == 0
Answer == [to : Mutation, ok : BOOLEAN]

TypeOK ==
  /\ DebounceTypeOK
  /\ debouncedMutationMap \in [Key -> 0 .. MaxRequests]
  /\ confirmed \in [Key -> 0 .. MaxRequests]
  /\ value \in [Key -> 0 .. MaxRequests]
  /\ inFlight \subseteq Mutation
  /\ answers \subseteq Answer
  /\ muddled \subseteq Key

Init ==
  /\ DebounceInit
  /\ debouncedMutationMap = [k \in Key |-> NoMutation]
  /\ confirmed = [k \in Key |-> 0]
  /\ value = [k \in Key |-> 0]
  /\ inFlight = {} /\ answers = {}
  /\ muddled = {}

(* What the middleware sends in a step is on its way.                      *)
Depart(ms) == inFlight' = inFlight \cup ms

(* The mutation of the map is disposed of, and the new one takes its place.*)
performMutation(k) ==
  /\ Debounce(k)
  /\ debouncedMutationMap' = [debouncedMutationMap EXCEPT ![k] = count + 1]
  /\ Depart({m \in debouncedMutation : m.key # k})
  /\ UNCHANGED <<confirmed, value, answers, muddled>>

(* Any other request of the client.                                        *)
Other ==
  /\ PassThrough
  /\ Depart(debouncedMutation)
  /\ UNCHANGED <<debouncedMutationMap, confirmed, value, answers, muddled>>

RunOut(m) ==
  /\ debouncedFn(m)
  /\ Depart({m})
  /\ UNCHANGED <<debouncedMutationMap, confirmed, value, answers, muddled>>

Serve(m, ok) ==
  LET disorder == \E n \in inFlight : n.key = m.key /\ n.no < m.no IN
  /\ m \in inFlight
  /\ inFlight' = inFlight \ {m}
  /\ answers' = answers \cup {[to |-> m, ok |-> ok]}
  /\ value' = IF ok THEN [value EXCEPT ![m.key] = m.no] ELSE value
  /\ muddled' = IF disorder \/ ~ ok THEN muddled \cup {m.key} ELSE muddled
  /\ UNCHANGED <<debounce, debouncedMutationMap, confirmed>>

\* Mutant of isLive: the answer of one that was disposed of counts too.
Counts(m) == TRUE

(* Nothing has disposed of the mutation.                                   *)
isLive(m) == debouncedMutationMap[m.key] = m.no

(* onCompleted and onError: only of a mutation that was not disposed of.   *)
(* An answer without error is written to the store.                        *)
Settle(a) ==
  LET k == a.to.key
      live == isLive(a.to)
  IN
  /\ a \in answers
  /\ answers' = answers \ {a}
  /\ debouncedMutationMap' = IF live THEN [debouncedMutationMap EXCEPT ![k] = NoMutation]
                             ELSE debouncedMutationMap
  /\ confirmed' = IF live /\ a.ok THEN [confirmed EXCEPT ![k] = a.to.no]
                  ELSE confirmed
  /\ UNCHANGED <<debounce, value, inFlight, muddled>>

Next ==
  \/ \E k \in Key : performMutation(k)
  \/ Other
  \/ \E m \in timers : RunOut(m)
  \/ \E m \in inFlight, ok \in BOOLEAN : Serve(m, ok)
  \/ \E a \in answers : Settle(a)

Spec == Init /\ [][Next]_vars

(* What the user sees: the optimistic response of the mutation that was    *)
(* not disposed of, or what the answers wrote.                             *)
Shown(k) ==
  IF debouncedMutationMap[k] # NoMutation THEN debouncedMutationMap[k] ELSE confirmed[k]

(* When the client waits for nothing, what it shows is in the database,    *)
(* although only some of the mutations were sent, and only some of the     *)
(* answers were read: the last mutation of a key is never the one dropped. *)
(* (A refusal takes back the optimistic response to a value that may be    *)
(* older than that of a mutation whose answer was ignored, and requests of *)
(* one key that overtake each other on the way leave the earlier value.)   *)
SettledShowsTheDatabase ==
  debouncedMutation = {} /\ inFlight = {} /\ answers = {} =>
    \A k \in Key \ muddled : Shown(k) = value[k]
=============================================================================
