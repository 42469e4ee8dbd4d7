--------------------------- MODULE MCStorageRows ----------------------------
(* Bounded instances of StorageRows for TLC.                                *)
EXTENDS StorageRows, TLC

Symmetry == Permutations(Replicas) \cup Permutations(Digests)

=============================================================================
