----------------------------- MODULE LatestWins -----------------------------
(***************************************************************************)
(* What the client's network layer promises for mutations with a key: one  *)
(* of them at most is held back, it is sent before anything that comes     *)
(* later, and it is dropped only for a later one with the same key.  There *)
(* are no timers and no callbacks here.                                    *)
(***************************************************************************)
EXTENDS Sequences

CONSTANTS
  Key,    \* the keys of the mutations
  Number  \* the numbers of the requests

VARIABLES
  waiting,  \* the mutation that is held back, in a set
  sent      \* history: the requests that were sent, by their number

Init == waiting = {} /\ sent = <<>>

Send == \E w \in waiting : waiting' = {} /\ sent' = Append(sent, w.no)

Hold(k, n) ==
  /\ waiting' = {[key |-> k, no |-> n]}
  /\ \/ \A w \in waiting : w.key = k
        /\ sent' = sent
     \/ \E w \in waiting : w.key # k /\ sent' = Append(sent, w.no)

Pass(n) ==
  /\ waiting' = {}
  /\ \/ waiting = {} /\ sent' = Append(sent, n)
     \/ \E w \in waiting : sent' = sent \o <<w.no, n>>

Next ==
  \/ Send
  \/ \E n \in Number : Pass(n) \/ \E k \in Key : Hold(k, n)

Spec == Init /\ [][Next]_<<waiting, sent>>
=============================================================================
