--------------------------- MODULE MCProxyFacet ---------------------------
(* Instances of ProxyFacet for TLC. *)
EXTENDS ProxyFacet, TLC

CallerSymmetry == Permutations(Callers)

VersionSymmetry == Permutations(Versions)

Symmetry == CallerSymmetry \cup VersionSymmetry
=============================================================================
