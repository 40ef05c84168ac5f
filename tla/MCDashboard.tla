---------------------------- MODULE MCDashboard ----------------------------
(* Instances of Dashboard for TLC: a host with the containers and one without*)
(* any, and the versions of their image in several spellings.                *)
EXTENDS Dashboard, TLC

CONSTANTS s1, s2, k1, k2

Version(p, b) == [prefix |-> p, base |-> b]
OneVersion == {Version("", 1)}
SomeVersions == {Version("", 1), Version("v", 1), Version("V", 1), Version("", 2)}
AllOnOne == [c \in Containers |-> s1]
AllTheSame == [c \in Containers |-> Version("", 1)]

Symmetry == Permutations(Slots)
=============================================================================
