-------------------------- MODULE DebounceMutation --------------------------
(***************************************************************************)
(* The middleware of the client's network layer that holds back a mutation *)
(* with a debounceKey for a while, to send only the last one of a series   *)
(* (debounceMutationMiddleware).  One variable of the module holds the     *)
(* mutation that waits, with the function that sends it and the id of its  *)
(* timer; the function looks at that variable when it runs, not at the     *)
(* mutation it was made for.                                               *)
(***************************************************************************)
EXTENDS Naturals, Sequences

CONSTANTS
  Key,         \* the values of debounceKey
  MaxRequests  \* bound: requests of the client

ASSUME RequestsAssumption == MaxRequests \in Nat

VARIABLES
  debouncedMutation,  \* the mutation that waits, in a set; {} is null
  timers,             \* the mutations whose timers are set
  sent,               \* history: the requests handed to the next middleware
  count               \* history: requests made so far; they are numbered

debounce == <<debouncedMutation, timers, sent, count>>

Number == 1 .. MaxRequests
Mutation == [key : Key, no : Number]

DebounceTypeOK ==
  /\ debouncedMutation \subseteq Mutation
  /\ timers \subseteq Mutation
  /\ sent \in Seq(Number)
  /\ count \in 0 .. MaxRequests

DebounceInit ==
  /\ debouncedMutation = {}
  /\ timers = {}
  /\ sent = <<>>
  /\ count = 0

Request == count < MaxRequests /\ count' = count + 1

\* Mutant of ClearTimeout: the timer of the mutation that waits goes on.
LeavesTimer(ts) == ts

(* Each of debouncedFn's effects, when it runs for m: the timer of the     *)
(* mutation that waits is cleared, nothing waits any more, and m is sent.  *)
ClearTimeout(ts) == ts \ debouncedMutation

(* A query, or a mutation without a key: what waits goes first.            *)
PassThrough ==
  /\ Request
  /\ debouncedMutation' = {}
  /\ timers' = ClearTimeout(timers)
  /\ \/ debouncedMutation = {} /\ sent' = Append(sent, count + 1)
     \/ \E m \in debouncedMutation : sent' = sent \o <<m.no, count + 1>>

\* Mutant of Debounce: it replaces the one that waits, whatever its key.
ReplacesAny(k) ==
  LET new == [key |-> k, no |-> count + 1] IN
  /\ Request
  /\ timers' = ClearTimeout(timers) \cup {new}
  /\ debouncedMutation' = {new}
  /\ sent' = sent

(* A mutation with a key: one that waits with another key is sent, one     *)
(* with this key is replaced, and its request is never made.               *)
Debounce(k) ==
  LET new == [key |-> k, no |-> count + 1] IN
  /\ Request
  /\ timers' = ClearTimeout(timers) \cup {new}
  /\ debouncedMutation' = {new}
  /\ \/ (\A m \in debouncedMutation : m.key = k) /\ sent' = sent
     \/ \E m \in debouncedMutation : m.key # k /\ sent' = Append(sent, m.no)

(* The timer of m runs out.  Were nothing waiting, this would throw.       *)
debouncedFn(m) ==
  /\ m \in timers
  /\ debouncedMutation # {}
  /\ timers' = ClearTimeout(timers) \ {m}
  /\ debouncedMutation' = {}
  /\ sent' = Append(sent, m.no)
  /\ UNCHANGED count

DebounceNext ==
  \/ PassThrough
  \/ \E k \in Key : Debounce(k)
  \/ \E m \in timers : debouncedFn(m)

DebounceSpec == DebounceInit /\ [][DebounceNext]_debounce

(* The timers that are set are those of the mutation that waits: no timer  *)
(* runs out after another request has sent its mutation, when it would     *)
(* read a property of null, or drop the mutation of somebody else          *)
(* (debounceMutationMiddleware 51-56).                                     *)
TimersAreOwn == timers = debouncedMutation

(* A mutation waits until a request that comes later, or its timer, sends  *)
(* it, and only one with its key replaces it.                              *)
Abstract == INSTANCE LatestWins
              WITH Number <- Number, waiting <- debouncedMutation, sent <- sent
ImplementsLatestWins == Abstract!Spec
=============================================================================
