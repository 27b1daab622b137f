---------------------------- MODULE EcccUploadMC ----------------------------
(***************************************************************************)
(* The instance of EcccUpload for TLC: each URL has a name of its own.     *)
(***************************************************************************)
EXTENDS EcccUpload

MCPosition == [u \in Url |-> CASE u = "a" -> 1 [] u = "b" -> 2 [] u = "c" -> 3]

MCOwnName == [u \in Url |-> u]
=============================================================================
