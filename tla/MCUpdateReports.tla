-------------------------- MODULE MCUpdateReports --------------------------
(* Instances of UpdateReports for TLC. *)
EXTENDS UpdateReports, TLC

\* Servers and digests are interchangeable; only safety runs use the symmetry.
Symmetry == Permutations(Servers) \cup Permutations(Digests)
=============================================================================
