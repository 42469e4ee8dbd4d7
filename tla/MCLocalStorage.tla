--------------------------- MODULE MCLocalStorage ---------------------------
(* Bounded instances of LocalStorage for TLC.  The slots of all replicas    *)
(* together are interchangeable.                                            *)
EXTENDS LocalStorage, TLC

SlotSymmetry == Permutations(Slots)

\* Initial states of the isolation run: rows without a digest are old ones,
\* of the default org or from before tenancy.
OldRowsInit ==
    /\ Init
    /\ row[Legacy] \in {Absent, Unhashed}
    /\ \A o \in Orgs \ {DefaultOrg} : row[o] # Unhashed

OldRowsSpec == OldRowsInit /\ [][Next]_vars

=============================================================================
