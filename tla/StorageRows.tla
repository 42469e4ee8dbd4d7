---------------------------- MODULE StorageRows -----------------------------
(* LocalStorage with a history variable, for what rows say of their bytes   *)
(* when requests come one at a time.  torn holds the keys whose row was     *)
(* last left by a request that did not finish its work on it: a Put whose   *)
(* row was not written, a Remove whose row was not deleted, or a refresh    *)
(* that wrote back a row it had not read from the metadata store.           *)
EXTENDS LocalStorage

VARIABLE torn

\* A Put stores bytes and fails to write their row.
PutCut(w) == op[w] = "put" /\ pc[w] = "rowPut" /\ StepFails(w)

\* A Remove deletes bytes and fails to delete their row.
RemoveCut(w) == pc[w] = "rmRow" /\ StepFails(w)

\* UpdateMetadata writes the row its replica had cached, not the stored one.
StaleUpdate(w) == op[w] = "update" /\ RowPut(w) /\ meta[w] # row[key[w]]

\* A Put writes the row of the bytes it stored.
Rewritten(w) == op[w] = "put" /\ RowPut(w)

TornNext ==
    /\ Next
    /\ torn' = (torn \cup {key[w] : w \in {v \in Workers :
                                       PutCut(v) \/ RemoveCut(v) \/ StaleUpdate(v)}})
               \ {key[w] : w \in {v \in Workers : Rewritten(v)}}

TornSpec == Init /\ torn = {} /\ [][TornNext]_<<vars, torn>>

\* The row of k speaks of the blob stored under k.
Named(k) ==
    /\ row[k] = Unhashed => blob[k] # Absent
    /\ row[k] \in Digests => blob[k] = row[k]

\* LocalStorage.Get: the row decides that a path exists, and the digest in
\* it names the tier's copy.  Requests one at a time: a row means its bytes
\* are stored, and a digest in it is theirs, unless the last request on the
\* key was cut short; the next Put that completes repairs it.
RowNamesBlob == Settled => \A k \in Keys \ torn : Named(k)

(* The inductive strengthening of RowNamesBlob. *)

\* A request that has changed the bytes of its key and not yet the row.
Owing(w) ==
    \/ op[w] = "put" /\ pc[w] = "rowPut"
    \/ pc[w] = "rmRow"
    \/ pc[w] = "rmCache" /\ key[w] = Legacy

NamedOrOwed ==
    \A k \in Keys \ torn : Named(k) \/ \E w \in Workers : key[w] = k /\ Owing(w)

\* A request's bytes, and the digest a Put is about to record, are the blob's.
InHand(w) ==
    /\ pc[w] = "blobWrite" => op[w] = "put"
    /\ pc[w] \in {"cacheGet", "rowGet", "cacheFill"} => op[w] \in {"get", "refresh", "update"}
    /\ pc[w] = "rowPut" => op[w] \in {"put", "update"}
    /\ pc[w] = "rowPut" /\ op[w] = "put" => meta[w] \in Digests /\ meta[w] = blob[key[w]]
    /\ pc[w] \in {"stream", "learnGet", "learnPut"} => data[w] = blob[key[w]]

TornInv == OneAtATime /\ NamedOrOwed /\ \A w \in Workers : InHand(w)

=============================================================================
