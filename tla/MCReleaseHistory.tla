-------------------------- MODULE MCReleaseHistory --------------------------
(* Instances of ReleaseHistory for TLC. *)
EXTENDS ReleaseHistory
=============================================================================
