---------------------------- MODULE WebSessionMC ----------------------------
EXTENDS WebSession

(* Two accounts of one person with one email, of which one had a row       *)
(* before; one that may not use the application yet, and one that is not   *)
(* an employee.                                                            *)
MCAccount ==
  {[sub |-> "s1", email |-> "ann", idir |-> TRUE,
    groups |-> <<"offline", "Realm_Administrator", "GGIRCS_User">>],
   [sub |-> "s2", email |-> "ann", idir |-> TRUE, groups |-> <<"GGIRCS_User">>],
   [sub |-> "s3", email |-> "bob", idir |-> TRUE, groups |-> <<>>],
   [sub |-> "s4", email |-> "eve", idir |-> FALSE, groups |-> <<>>]}
MCLegacy == {[sub |-> "old", email |-> "ann", allow |-> TRUE]}

ASSUME AccountsHaveOwnSubs == SubsAreOwn
=============================================================================
