----------------------------- MODULE MCSessions -----------------------------
(* Instances of Sessions for TLC: two tabs at once, and names, tabs and ids   *)
(* that are interchangeable.                                                  *)
EXTENDS Sessions, TLC

CONSTANTS r1, r2, s1, s2, n1, n2

Symmetry == Permutations(Requests) \cup Permutations(Sids) \cup Permutations(Names)
=============================================================================
