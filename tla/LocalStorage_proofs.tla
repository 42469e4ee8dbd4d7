------------------------ MODULE LocalStorage_proofs ------------------------
(***************************************************************************)
(* Tenant isolation of LocalStorage, for any number of replicas, slots,    *)
(* tenants and contents, with or without a tier, under every fault; and,   *)
(* for requests that come one at a time, that caches agree with rows and   *)
(* rows with bytes.                                                        *)
(***************************************************************************)
EXTENDS StorageRows, FiniteSetTheorems, TLAPS

\* A worker belongs to a replica.
LEMMA HomeOfWorker == ASSUME NEW w \in Workers PROVE Home(w) \in Replicas
BY DEF Workers, Home

\* A tenant's keys are blob keys of the path.
LEMMA KeysOfOrg == ASSUME NEW o \in Orgs PROVE KeysOf(o) \subseteq Keys /\ o \in KeysOf(o)
BY DEF KeysOf, Keys

\* A replica set that has just started holds nothing of anybody's.
LEMMA IsolationInit == Init => IsolationInv
<1> SUFFICES ASSUME Init PROVE IsolationInv
    OBVIOUS
<1>1. TypeOK
  BY StorageAssumption DEF Init, TypeOK, Calls, Ops, Keys, Rows
<1>2. KeyOfOrg
  BY StorageAssumption, KeysOfOrg DEF Init, KeyOfOrg
<1>3. BytesWereWritten
  BY StorageAssumption DEF Init, BytesWereWritten, EmptyHanded
<1> QED BY <1>1, <1>2, <1>3 DEF IsolationInv

\* The request a worker holds, and the part of the invariant that is about it.
Held(w) ==
    /\ key[w] \in KeysOf(org[w])
    /\ pc[w] \in EmptyHanded => data[w] = Absent
    /\ pc[w] # "blobWrite" /\ data[w] # Absent => data[w] \in wrote[key[w]]
    /\ pc[w] \in {"stream", "blobWrite", "tierCommit", "learnGet", "learnPut",
                  "learnCache"} => data[w] # Absent
    /\ op[w] = "put" => data[w] # Absent

\* The invariant, with its part about requests in one piece.
LEMMA InvIsHeld ==
    IsolationInv <=>
      /\ TypeOK
      /\ \A k \in Keys : blob[k] # Absent => blob[k] \in wrote[k]
      /\ \A r \in Replicas, k \in Keys : tier[r][k] \subseteq wrote[k]
      /\ \A w \in Workers : Held(w)
BY DEF IsolationInv, KeyOfOrg, BytesWereWritten, Held

\* Requests arriving.
LEMMA StartInv ==
    ASSUME IsolationInv, NEW w \in Workers, Begin(w)
    PROVE  IsolationInv'
<1>1. PICK call \in {"cacheGet", "blobWrite", "rmCache"}, kind \in Ops, o \in Orgs,
           d \in Digests \cup {Absent} :
         /\ Start(w, call, kind, o, d)
         /\ (call = "blobWrite" /\ kind = "put" /\ d # Absent)
              \/ (call # "blobWrite" /\ kind # "put" /\ d = Absent)
         /\ writes' \in 0..MaxWrites
  <2>1. CASE \E o \in Orgs : StartGet(w, o)
    BY <2>1 DEF StartGet, Ops, IsolationInv, TypeOK
  <2>2. CASE StartRefresh(w)
    BY <2>2 DEF StartRefresh, Ops, IsolationInv, TypeOK
  <2>3. CASE StartPut(w)
    BY <2>3, StorageAssumption DEF StartPut, Ops, IsolationInv, TypeOK
  <2>4. CASE StartRemove(w)
    BY <2>4, StorageAssumption DEF StartRemove, Ops, IsolationInv, TypeOK
  <2> QED BY <2>1, <2>2, <2>3, <2>4 DEF Begin
<1>2. TypeOK'
  BY <1>1 DEF Start, TypeOK, IsolationInv, Calls, Keys, shared
<1>3. \A v \in Workers : Held(v)'
  <2> SUFFICES ASSUME NEW v \in Workers PROVE Held(v)'
      OBVIOUS
  <2>1. Held(v)
    BY InvIsHeld
  <2>2. CASE v = w
    BY <1>1, <2>2, KeysOfOrg DEF Start, Held, EmptyHanded, IsolationInv, TypeOK, shared, KeysOf
  <2>3. CASE v # w
    BY <1>1, <2>1, <2>3 DEF Start, Held, IsolationInv, TypeOK, shared, KeysOf
  <2> QED BY <2>2, <2>3
<1> QED
  BY <1>1, <1>2, <1>3, InvIsHeld DEF Start, shared, IsolationInv, KeyOfOrg, BytesWereWritten, Held

\* What every step of a request has in common: it moves one worker, and
\* nothing written is forgotten.
Frame(w) ==
    /\ \A v \in Workers \ {w} :
         /\ pc'[v] = pc[v] /\ op'[v] = op[v] /\ org'[v] = org[v]
         /\ key'[v] = key[v] /\ data'[v] = data[v]
    /\ \A k \in Keys : wrote[k] \subseteq wrote'[k]

Stored ==
    /\ \A k \in Keys : blob[k] # Absent => blob[k] \in wrote[k]
    /\ \A r \in Replicas, k \in Keys : tier[r][k] \subseteq wrote[k]

\* A step of one request keeps the invariant if it keeps what is stored and
\* what that request holds.
LEMMA Assemble ==
    ASSUME IsolationInv, NEW w \in Workers, TypeOK', Stored', Frame(w), Held(w)'
    PROVE  IsolationInv'
<1>1. \A v \in Workers : Held(v)'
  <2> SUFFICES ASSUME NEW v \in Workers \ {w} PROVE Held(v)'
      OBVIOUS
  <2>1. Held(v) /\ key[v] \in Keys
    BY InvIsHeld DEF IsolationInv, TypeOK
  <2> QED BY <2>1 DEF Frame, Held, KeysOf
<1> QED BY <1>1 DEF IsolationInv, KeyOfOrg, BytesWereWritten, Held, Stored

\* A request that returns holds nothing.
LEMMA ReturnHeld ==
    ASSUME IsolationInv, NEW w \in Workers, Return(w), wrote' = wrote
    PROVE  /\ Frame(w) /\ Held(w)'
           /\ pc' \in [Workers -> Calls] /\ op' \in [Workers -> Ops]
           /\ org' \in [Workers -> Orgs] /\ key' \in [Workers -> Keys]
           /\ found' \in [Workers -> Rows \cup {Absent}]
           /\ meta' \in [Workers -> Rows \cup {Absent}]
           /\ data' \in [Workers -> Digests \cup {Absent}]
<1> USE StorageAssumption DEF IsolationInv, TypeOK, Return
<1>1. Frame(w)
  BY DEF Frame
<1>2. Held(w)'
  BY KeysOfOrg DEF Held, EmptyHanded, KeysOf
<1> QED BY <1>1, <1>2 DEF Calls, Ops, Keys

\* Goto keeps Held when the next call suits the bytes the request holds.
LEMMA GotoHeld ==
    ASSUME IsolationInv, NEW w \in Workers, NEW call \in Calls, Goto(w, call), wrote' = wrote,
           pc[w] # "blobWrite",
           call \in EmptyHanded => pc[w] \in EmptyHanded,
           call \in {"stream", "blobWrite", "tierCommit", "learnGet", "learnPut", "learnCache"}
             => data[w] # Absent
    PROVE  /\ Frame(w) /\ Held(w)'
           /\ pc' \in [Workers -> Calls]
<1> USE DEF IsolationInv, TypeOK, Goto
<1>1. Frame(w)
  BY DEF Frame
<1>2. Held(w)
  BY InvIsHeld
<1>3. Held(w)'
  BY <1>2 DEF Held, KeysOf
<1> QED BY <1>1, <1>3

\* Found keeps the invariant's part about the request.
LEMMA FoundHeld ==
    ASSUME IsolationInv, NEW w \in Workers, pc[w] \in {"cacheGet", "cacheFill"},
           NEW m \in Rows \cup {Absent}, Found(w, m), wrote' = wrote
    PROVE  /\ Frame(w) /\ Held(w)'
           /\ pc' \in [Workers -> Calls] /\ op' \in [Workers -> Ops]
           /\ org' \in [Workers -> Orgs] /\ key' \in [Workers -> Keys]
           /\ found' \in [Workers -> Rows \cup {Absent}]
           /\ meta' \in [Workers -> Rows \cup {Absent}]
           /\ data' \in [Workers -> Digests \cup {Absent}]
<1> USE DEF IsolationInv, TypeOK, Found
<1>1. Frame(w)
  BY DEF Frame
<1>2. Held(w) /\ data[w] = Absent
  BY InvIsHeld DEF Held, EmptyHanded
<1>3. Held(w)'
  BY <1>2, KeysOfOrg DEF Held, EmptyHanded, KeysOf
<1>4. pc' \in [Workers -> Calls] /\ op' \in [Workers -> Ops]
  BY DEF Calls, Ops
<1>5. key' \in [Workers -> Keys] /\ meta' \in [Workers -> Rows \cup {Absent}]
      /\ found' \in [Workers -> Rows \cup {Absent}]
  BY DEF Keys
<1> QED BY <1>1, <1>3, <1>4, <1>5

\* lookup and readMeta.
LEMMA LookupInv ==
    ASSUME IsolationInv, NEW w \in Workers, CacheGet(w) \/ RowGet(w) \/ CacheFill(w)
    PROVE  IsolationInv'
<1> USE StorageAssumption, HomeOfWorker
<1>1. CASE CacheGet(w)
  <2>1. metaCache[Home(w)][key[w]] \in Rows \cup {Absent}
    BY DEF IsolationInv, TypeOK
  <2>2. CASE Goto(w, "rowGet")
    BY <1>1, <2>2, GotoHeld, Assemble
       DEF CacheGet, shared, Calls, EmptyHanded, IsolationInv, TypeOK, Stored, BytesWereWritten, Goto
  <2>3. CASE Found(w, metaCache[Home(w)][key[w]])
    BY <1>1, <2>1, <2>3, FoundHeld, Assemble
       DEF CacheGet, shared, IsolationInv, TypeOK, Stored, BytesWereWritten
  <2> QED BY <1>1, <2>2, <2>3 DEF CacheGet
<1>2. CASE RowGet(w)
  <2>1. CASE Return(w)
    BY <1>2, <2>1, ReturnHeld, Assemble
       DEF RowGet, shared, IsolationInv, TypeOK, Stored, BytesWereWritten
  <2>2. CASE ~Return(w)
    <3>1. Frame(w)
      BY <1>2, <2>2 DEF RowGet, Frame, IsolationInv, TypeOK
    <3>2. Held(w) /\ data[w] = Absent
      BY <1>2, InvIsHeld DEF RowGet, Held, EmptyHanded
    <3>3. Held(w)'
      BY <1>2, <2>2, <3>2 DEF RowGet, Held, EmptyHanded, KeysOf, LegacyFallback, IsolationInv, TypeOK
    <3>4. TypeOK'
      BY <1>2, <2>2 DEF RowGet, shared, IsolationInv, TypeOK, Calls, Keys, Rows
    <3> QED BY <1>2, <3>1, <3>3, <3>4, Assemble
            DEF RowGet, shared, Stored, IsolationInv, BytesWereWritten
  <2> QED BY <2>1, <2>2
<1>3. CASE CacheFill(w)
  <2>1. found[w] \in Rows \cup {Absent}
    BY DEF IsolationInv, TypeOK
  <2>2. metaCache' \in [Replicas -> [Keys -> Rows \cup {Absent}]] /\ bus' \subseteq Replicas \X Keys
    BY <1>3, <2>1 DEF CacheFill, CachePutAt, Published, IsolationInv, TypeOK
  <2> QED BY <1>3, <2>1, <2>2, FoundHeld, Assemble
          DEF CacheFill, IsolationInv, TypeOK, Stored, BytesWereWritten
<1> QED BY <1>1, <1>2, <1>3

\* MetadataCache.Put and Invalidate keep the cache and the bus well formed.
LEMMA CacheOps ==
    ASSUME IsolationInv, NEW r \in Replicas, NEW k \in Keys, NEW m \in Rows \cup {Absent},
           CachePutAt(r, k, m) \/ InvalidateAt(r, k)
    PROVE  /\ metaCache' \in [Replicas -> [Keys -> Rows \cup {Absent}]]
           /\ bus' \subseteq Replicas \X Keys
<1>1. metaCache' \in [Replicas -> [Keys -> Rows \cup {Absent}]]
  <2>1. CASE CachePutAt(r, k, m)
    BY <2>1 DEF CachePutAt, IsolationInv, TypeOK
  <2>2. CASE InvalidateAt(r, k)
    BY <2>2 DEF InvalidateAt, IsolationInv, TypeOK
  <2> QED BY <2>1, <2>2
<1>2. bus' = Published(r, k)
  BY DEF CachePutAt, InvalidateAt
<1>3. bus' \subseteq Replicas \X Keys
  BY <1>2 DEF Published, IsolationInv, TypeOK
<1> QED BY <1>1, <1>3

\* A tier copy is filed under the key whose bytes it holds.
LEMMA CommitOps ==
    ASSUME IsolationInv, NEW w \in Workers, CommitAt(w), wrote' = wrote, blob' = blob,
           pc[w] \in {"stream", "tierCommit"}
    PROVE  tier' \in [Replicas -> [Keys -> SUBSET Digests]] /\ Stored'
<1> USE HomeOfWorker, StorageAssumption DEF IsolationInv, TypeOK
<1>1. data[w] \in Digests /\ data[w] \in wrote[key[w]]
  BY DEF BytesWereWritten
<1>2. tier' \in [Replicas -> [Keys -> SUBSET Digests]]
  BY <1>1 DEF CommitAt
<1>3. \A r \in Replicas, k \in Keys : tier'[r][k] \subseteq wrote[k]
  BY <1>1 DEF CommitAt, BytesWereWritten
<1> QED BY <1>2, <1>3 DEF Stored, BytesWereWritten

\* CachedContent.Open and the read of what it returned.
LEMMA OpenInv ==
    ASSUME IsolationInv, NEW w \in Workers,
           TierOpen(w) \/ BlobOpen(w) \/ Stream(w) \/ StreamCut(w)
    PROVE  IsolationInv'
<1> USE StorageAssumption, HomeOfWorker
<1>1. CASE TierOpen(w)
  <2>1. CASE Return(w)
    BY <1>1, <2>1, ReturnHeld, Assemble
       DEF TierOpen, shared, IsolationInv, TypeOK, Stored, BytesWereWritten
  <2>2. CASE Goto(w, "blobOpen")
    BY <1>1, <2>2, GotoHeld, Assemble
       DEF TierOpen, shared, Calls, EmptyHanded, IsolationInv, TypeOK, Stored, BytesWereWritten, Goto
  <2> QED BY <1>1, <2>1, <2>2 DEF TierOpen
<1>2. CASE BlobOpen(w)
  <2>1. CASE blob[key[w]] = Absent
    <3>1. Frame(w) /\ Held(w)' /\ pc' \in [Workers -> Calls]
      BY <1>2, <2>1, GotoHeld DEF BlobOpen, shared, Calls, EmptyHanded
    <3>2. TypeOK'
      BY <1>2, <2>1, <3>1 DEF BlobOpen, shared, Goto, IsolationInv, TypeOK
    <3> QED BY <1>2, <3>1, <3>2, Assemble
            DEF BlobOpen, shared, Stored, IsolationInv, BytesWereWritten
  <2>2. CASE blob[key[w]] # Absent
    <3>1. Frame(w)
      BY <1>2, <2>2 DEF BlobOpen, Frame, IsolationInv, TypeOK
    <3>2. Held(w) /\ key[w] \in Keys /\ blob[key[w]] \in wrote[key[w]]
      BY <2>2, InvIsHeld DEF IsolationInv, TypeOK
    <3>3. Held(w)'
      BY <1>2, <2>2, <3>2 DEF BlobOpen, Held, EmptyHanded, KeysOf, IsolationInv, TypeOK
    <3>4. TypeOK'
      BY <1>2, <2>2 DEF BlobOpen, shared, IsolationInv, TypeOK, Calls
    <3> QED BY <1>2, <3>1, <3>3, <3>4, Assemble
            DEF BlobOpen, shared, Stored, IsolationInv, BytesWereWritten
  <2> QED BY <2>1, <2>2
<1>3. CASE Stream(w)
  <2>1. CASE CommitAt(w) /\ Return(w)
    BY <1>3, <2>1, ReturnHeld, CommitOps, Assemble DEF Stream, IsolationInv, TypeOK
  <2>2. CASE CommitAt(w) /\ Goto(w, "learnGet")
    <3>1. data[w] # Absent
      BY <1>3 DEF Stream, IsolationInv, BytesWereWritten
    <3>2. Frame(w) /\ Held(w)' /\ pc' \in [Workers -> Calls]
      BY <1>3, <2>2, <3>1, GotoHeld DEF Stream, Calls, EmptyHanded
    <3>3. tier' \in [Replicas -> [Keys -> SUBSET Digests]] /\ Stored'
      BY <1>3, <2>2, CommitOps DEF Stream
    <3> QED BY <1>3, <2>2, <3>2, <3>3, Assemble DEF Stream, Goto, IsolationInv, TypeOK
  <2>3. CASE UNCHANGED tier /\ Return(w)
    BY <1>3, <2>3, ReturnHeld, Assemble
       DEF Stream, IsolationInv, TypeOK, Stored, BytesWereWritten
  <2> QED BY <1>3, <2>1, <2>2, <2>3 DEF Stream
<1>4. CASE StreamCut(w)
  BY <1>4, ReturnHeld, Assemble
     DEF StreamCut, shared, IsolationInv, TypeOK, Stored, BytesWereWritten
<1> QED BY <1>1, <1>2, <1>3, <1>4

\* recordSHA, called by learn.
LEMMA LearnInv ==
    ASSUME IsolationInv, NEW w \in Workers, LearnGet(w) \/ LearnPut(w) \/ LearnCache(w)
    PROVE  IsolationInv'
<1> USE StorageAssumption, HomeOfWorker
<1>0. pc[w] \in {"learnGet", "learnPut", "learnCache"} /\ data[w] # Absent /\ data[w] \in Digests
  BY DEF LearnGet, LearnPut, LearnCache, IsolationInv, TypeOK, BytesWereWritten
<1>1. CASE LearnGet(w)
  <2>1. CASE Return(w)
    BY <1>1, <2>1, ReturnHeld, Assemble
       DEF LearnGet, shared, IsolationInv, TypeOK, Stored, BytesWereWritten
  <2>2. CASE Goto(w, "learnPut")
    BY <1>0, <1>1, <2>2, GotoHeld, Assemble
       DEF LearnGet, shared, Calls, EmptyHanded, IsolationInv, TypeOK, Stored, BytesWereWritten, Goto
  <2> QED BY <1>1, <2>1, <2>2 DEF LearnGet
<1>2. CASE LearnPut(w)
  <2>1. row' \in [Keys -> Rows \cup {Absent}]
    BY <1>0, <1>2 DEF LearnPut, IsolationInv, TypeOK, Rows
  <2>2. Frame(w) /\ Held(w)' /\ pc' \in [Workers -> Calls]
    BY <1>0, <1>2, GotoHeld DEF LearnPut, Calls, EmptyHanded
  <2> QED BY <1>2, <2>1, <2>2, Assemble
          DEF LearnPut, Goto, IsolationInv, TypeOK, Stored, BytesWereWritten
<1>3. CASE LearnCache(w)
  <2>1. metaCache' \in [Replicas -> [Keys -> Rows \cup {Absent}]] /\ bus' \subseteq Replicas \X Keys
    BY <1>0, <1>3, CacheOps DEF LearnCache, IsolationInv, TypeOK, Rows
  <2> QED BY <1>3, <2>1, ReturnHeld, Assemble
          DEF LearnCache, IsolationInv, TypeOK, Stored, BytesWereWritten
<1> QED BY <1>1, <1>2, <1>3

\* dropMeta.
LEMMA DropInv ==
    ASSUME IsolationInv, NEW w \in Workers, DropCache(w) \/ DropTier(w) \/ DropRow(w)
    PROVE  IsolationInv'
<1> USE StorageAssumption, HomeOfWorker
<1>1. CASE DropCache(w)
  <2>1. metaCache' \in [Replicas -> [Keys -> Rows \cup {Absent}]] /\ bus' \subseteq Replicas \X Keys
    BY <1>1, CacheOps DEF DropCache, IsolationInv, TypeOK
  <2>2. Frame(w) /\ Held(w)' /\ pc' \in [Workers -> Calls]
    BY <1>1, GotoHeld DEF DropCache, Calls, EmptyHanded
  <2> QED BY <1>1, <2>1, <2>2, Assemble
          DEF DropCache, Goto, IsolationInv, TypeOK, Stored, BytesWereWritten
<1>2. CASE DropTier(w)
  <2>1. tier' \in [Replicas -> [Keys -> SUBSET Digests]] /\ Stored'
    BY <1>2 DEF DropTier, DropTierAt, IsolationInv, TypeOK, Stored, BytesWereWritten
  <2>2. Frame(w) /\ Held(w)' /\ pc' \in [Workers -> Calls]
    BY <1>2, GotoHeld DEF DropTier, Calls, EmptyHanded
  <2> QED BY <1>2, <2>1, <2>2, Assemble DEF DropTier, Goto, IsolationInv, TypeOK
<1>3. CASE DropRow(w)
  <2>1. row' \in [Keys -> Rows \cup {Absent}]
    BY <1>3 DEF DropRow, IsolationInv, TypeOK
  <2> QED BY <1>3, <2>1, ReturnHeld, Assemble
          DEF DropRow, IsolationInv, TypeOK, Stored, BytesWereWritten
<1> QED BY <1>1, <1>2, <1>3

\* put and UpdateMetadata.
LEMMA WriteInv ==
    ASSUME IsolationInv, NEW w \in Workers,
           BlobWrite(w) \/ RowPut(w) \/ CachePut(w) \/ TierCommit(w)
    PROVE  IsolationInv'
<1> USE StorageAssumption, HomeOfWorker
<1>1. CASE BlobWrite(w)
  <2>1. data[w] \in Digests /\ Held(w) /\ key[w] \in Keys
    BY <1>1, InvIsHeld DEF BlobWrite, IsolationInv, TypeOK, BytesWereWritten
  <2>2. Frame(w)
    BY <1>1 DEF BlobWrite, Frame, IsolationInv, TypeOK
  <2>3. Held(w)'
    BY <1>1, <2>1 DEF BlobWrite, Held, EmptyHanded, KeysOf, IsolationInv, TypeOK
  <2>4. Stored'
    BY <1>1, <2>1 DEF BlobWrite, Stored, IsolationInv, TypeOK, BytesWereWritten
  <2>5. TypeOK'
    BY <1>1, <2>1 DEF BlobWrite, IsolationInv, TypeOK, Calls, Rows
  <2> QED BY <2>2, <2>3, <2>4, <2>5, Assemble
<1>2. CASE RowPut(w)
  <2>1. row' \in [Keys -> Rows \cup {Absent}]
    BY <1>2 DEF RowPut, IsolationInv, TypeOK
  <2>2. Frame(w) /\ Held(w)' /\ pc' \in [Workers -> Calls]
    BY <1>2, GotoHeld DEF RowPut, Calls, EmptyHanded
  <2> QED BY <1>2, <2>1, <2>2, Assemble
          DEF RowPut, Goto, IsolationInv, TypeOK, Stored, BytesWereWritten
<1>3. CASE CachePut(w)
  <2>1. metaCache' \in [Replicas -> [Keys -> Rows \cup {Absent}]] /\ bus' \subseteq Replicas \X Keys
    BY <1>3, CacheOps DEF CachePut, IsolationInv, TypeOK
  <2>2. CASE op[w] = "put" /\ HasTier
    <3>1. Frame(w) /\ Held(w)' /\ pc' \in [Workers -> Calls]
      BY <1>3, <2>2, GotoHeld DEF CachePut, Calls, EmptyHanded, IsolationInv, BytesWereWritten
    <3>2. TypeOK'
      BY <1>3, <2>1, <2>2, <3>1 DEF CachePut, Goto, IsolationInv, TypeOK
    <3> QED BY <1>3, <3>1, <3>2, Assemble
            DEF CachePut, IsolationInv, Stored, BytesWereWritten
  <2>3. CASE ~(op[w] = "put" /\ HasTier)
    BY <1>3, <2>1, <2>3, ReturnHeld, Assemble
       DEF CachePut, IsolationInv, TypeOK, Stored, BytesWereWritten
  <2> QED BY <2>2, <2>3
<1>4. CASE TierCommit(w)
  BY <1>4, ReturnHeld, CommitOps, Assemble DEF TierCommit, IsolationInv, TypeOK
<1> QED BY <1>1, <1>2, <1>3, <1>4

\* Remove.
LEMMA RemoveInv ==
    ASSUME IsolationInv, NEW w \in Workers,
           RmCache(w) \/ RmTier(w) \/ RmBlob(w) \/ RmRow(w)
    PROVE  IsolationInv'
<1> USE StorageAssumption, HomeOfWorker
<1>1. CASE RmCache(w)
  <2>1. metaCache' \in [Replicas -> [Keys -> Rows \cup {Absent}]] /\ bus' \subseteq Replicas \X Keys
    BY <1>1, CacheOps DEF RmCache, IsolationInv, TypeOK
  <2>2. Frame(w) /\ Held(w)' /\ pc' \in [Workers -> Calls]
    BY <1>1, GotoHeld DEF RmCache, Calls, EmptyHanded
  <2> QED BY <1>1, <2>1, <2>2, Assemble
          DEF RmCache, Goto, IsolationInv, TypeOK, Stored, BytesWereWritten
<1>2. CASE RmTier(w)
  <2>1. tier' \in [Replicas -> [Keys -> SUBSET Digests]] /\ Stored'
    BY <1>2 DEF RmTier, DropTierAt, IsolationInv, TypeOK, Stored, BytesWereWritten
  <2>2. Frame(w) /\ Held(w)' /\ pc' \in [Workers -> Calls]
    BY <1>2, GotoHeld DEF RmTier, Calls, EmptyHanded
  <2> QED BY <1>2, <2>1, <2>2, Assemble DEF RmTier, Goto, IsolationInv, TypeOK
<1>3. CASE RmBlob(w)
  <2>1. blob' \in [Keys -> Digests \cup {Absent}] /\ Stored'
    BY <1>3 DEF RmBlob, IsolationInv, TypeOK, Stored, BytesWereWritten
  <2>2. Frame(w) /\ Held(w)' /\ pc' \in [Workers -> Calls]
    BY <1>3, GotoHeld DEF RmBlob, Calls, EmptyHanded
  <2> QED BY <1>3, <2>1, <2>2, Assemble DEF RmBlob, Goto, IsolationInv, TypeOK
<1>4. CASE RmRow(w)
  <2>1. row' \in [Keys -> Rows \cup {Absent}]
    BY <1>4 DEF RmRow, IsolationInv, TypeOK
  <2>2. CASE LegacyFallback(w)
    <3>1. Held(w) /\ data[w] = Absent
      BY <1>4, InvIsHeld DEF RmRow, Held, EmptyHanded
    <3>2. Frame(w)
      BY <1>4, <2>2 DEF RmRow, Frame, IsolationInv, TypeOK
    <3>3. Held(w)'
      BY <1>4, <2>2, <3>1 DEF RmRow, Held, EmptyHanded, KeysOf, LegacyFallback, IsolationInv, TypeOK
    <3>4. TypeOK'
      <4>1. pc' \in [Workers -> Calls] /\ key' \in [Workers -> Keys]
        BY <1>4, <2>2 DEF RmRow, IsolationInv, TypeOK, Calls, Keys
      <4> QED BY <1>4, <2>1, <2>2, <4>1 DEF RmRow, IsolationInv, TypeOK
    <3> QED BY <1>4, <3>2, <3>3, <3>4, Assemble DEF RmRow, Stored, IsolationInv, BytesWereWritten
  <2>3. CASE ~LegacyFallback(w)
    BY <1>4, <2>1, <2>3, ReturnHeld, Assemble
       DEF RmRow, IsolationInv, TypeOK, Stored, BytesWereWritten
  <2> QED BY <2>2, <2>3
<1> QED BY <1>1, <1>2, <1>3, <1>4

\* A call that fails, a crash, the bus and eviction.
LEMMA FaultInv ==
    ASSUME IsolationInv,
           \/ \E w \in Workers : StepFails(w)
           \/ \E r \in Replicas : Crash(r)
           \/ Deliver \/ Lose \/ Evict
    PROVE  IsolationInv'
<1> USE StorageAssumption, HomeOfWorker
<1>1. ASSUME NEW w \in Workers, StepFails(w) PROVE IsolationInv'
  BY <1>1, ReturnHeld, Assemble
     DEF StepFails, shared, IsolationInv, TypeOK, Stored, BytesWereWritten
<1>2. ASSUME NEW r \in Replicas, Crash(r) PROVE IsolationInv'
  <2>1. TypeOK'
    BY <1>2 DEF Crash, IsolationInv, TypeOK, Calls, Ops, Keys
  <2>2. \A w \in Workers : Held(w)'
    <3> SUFFICES ASSUME NEW w \in Workers PROVE Held(w)'
        OBVIOUS
    <3>1. CASE Home(w) = r
      BY <1>2, <3>1, KeysOfOrg DEF Crash, Held, EmptyHanded, KeysOf
    <3>2. CASE Home(w) # r
      BY <1>2, <3>2, InvIsHeld DEF Crash, Held, KeysOf
    <3> QED BY <3>1, <3>2
  <2> QED BY <1>2, <2>1, <2>2 DEF Crash, IsolationInv, KeyOfOrg, BytesWereWritten, Held
<1>3. CASE Deliver
  <2>1. TypeOK'
    BY <1>3 DEF Deliver, request, IsolationInv, TypeOK
  <2> QED BY <1>3, <2>1 DEF Deliver, request, IsolationInv, KeyOfOrg, BytesWereWritten, KeysOf
<1>4. CASE Lose
  BY <1>4 DEF Lose, request, IsolationInv, TypeOK, KeyOfOrg, BytesWereWritten, KeysOf
<1>5. CASE Evict
  <2>1. PICK r \in Replicas, k \in Keys :
           \/ /\ metaCache' = [metaCache EXCEPT ![r][k] = Absent]
              /\ UNCHANGED tier
           \/ /\ \E d \in tier[r][k] : tier' = [tier EXCEPT ![r][k] = @ \ {d}]
              /\ UNCHANGED metaCache
    BY <1>5 DEF Evict
  <2>2. metaCache' \in [Replicas -> [Keys -> Rows \cup {Absent}]]
    <3>1. CASE metaCache' = [metaCache EXCEPT ![r][k] = Absent]
      BY <3>1 DEF IsolationInv, TypeOK
    <3>2. CASE UNCHANGED metaCache
      BY <3>2 DEF IsolationInv, TypeOK
    <3> QED BY <2>1, <3>1, <3>2
  <2>3. /\ tier' \in [Replicas -> [Keys -> SUBSET Digests]]
        /\ \A p \in Replicas, j \in Keys : tier'[p][j] \subseteq tier[p][j]
    <3>1. CASE UNCHANGED tier
      BY <3>1 DEF IsolationInv, TypeOK
    <3>2. ASSUME NEW d \in tier[r][k], tier' = [tier EXCEPT ![r][k] = @ \ {d}]
          PROVE  /\ tier' \in [Replicas -> [Keys -> SUBSET Digests]]
                 /\ \A p \in Replicas, j \in Keys : tier'[p][j] \subseteq tier[p][j]
      BY <3>2 DEF IsolationInv, TypeOK
    <3> QED BY <2>1, <3>1, <3>2
  <2>4. TypeOK'
    BY <1>5, <2>2, <2>3 DEF Evict, request, IsolationInv, TypeOK
  <2>5. Stored'
    BY <1>5, <2>3 DEF Evict, Stored, IsolationInv, BytesWereWritten
  <2> QED BY <1>5, <2>4, <2>5
          DEF Evict, request, Stored, IsolationInv, KeyOfOrg, BytesWereWritten, KeysOf
<1> QED BY <1>1, <1>2, <1>3, <1>4, <1>5

\* Every step keeps the invariant.
LEMMA IsolationStep == IsolationInv /\ [Next]_vars => IsolationInv'
<1> SUFFICES ASSUME IsolationInv, [Next]_vars PROVE IsolationInv'
    OBVIOUS
<1>1. CASE \E w \in Workers : Begin(w)
  BY <1>1, StartInv
<1>2. ASSUME NEW w \in Workers, Step(w) PROVE IsolationInv'
  BY <1>2, LookupInv, OpenInv, LearnInv, DropInv, WriteInv, RemoveInv DEF Step
<1>3. CASE \E w \in Workers : StreamCut(w)
  BY <1>3, OpenInv
<1>4. CASE UNCHANGED vars
  BY <1>4 DEF vars, IsolationInv, TypeOK, KeyOfOrg, BytesWereWritten, KeysOf
<1> QED BY <1>1, <1>2, <1>3, <1>4, FaultInv DEF Next

\* The bytes LocalStorage keeps for a tenant, in the blob store, on any tier
\* or in the hands of a request, were all stored under a key of that tenant.
THEOREM IsolationInvariant == Spec => []IsolationInv
<1> QED BY IsolationInit, IsolationStep, PTL DEF Spec

\* Get never serves one tenant the bytes of another, whatever the requests of
\* all replicas interleave to, fail at, or lose.
THEOREM TenantsAreIsolated == Spec => []TenantIsolation
<1>1. IsolationInv => TenantIsolation
  <2> SUFFICES ASSUME IsolationInv, NEW w \in Workers, NEW d \in Serving(w)
               PROVE  d \in UNION {wrote[k] : k \in KeysOf(org[w])}
      BY DEF TenantIsolation
  <2>1. Held(w) /\ key[w] \in Keys /\ Home(w) \in Replicas
    BY InvIsHeld, HomeOfWorker DEF IsolationInv, TypeOK
  <2>2. d \in wrote[key[w]]
    BY <2>1 DEF Serving, TierHit, Held, IsolationInv, BytesWereWritten
  <2> QED BY <2>1, <2>2 DEF Held
<1> QED BY <1>1, IsolationInvariant, PTL

-----------------------------------------------------------------------------
(***************************************************************************)
(* Requests one at a time: what the caches say of the rows.                *)
(***************************************************************************)

\* The request of one worker leaves the others alone.
Alone(w) == \A v \in Workers \ {w} : pc'[v] = pc[v]

\* The part of the invariant that is about one request.
Careful(w) ==
    /\ pc[w] = "cacheFill" => found[w] = row[key[w]]
    /\ pc[w] = "cachePut" => meta[w] = row[key[w]]
    /\ pc[w] = "learnCache" => data[w] = row[key[w]]
    /\ \A r \in Replicas :
         Deleting(w) => metaCache[r][key[w]] = Absent \/ <<r, key[w]>> \in bus

\* The invariant, with its part about requests in one piece.
LEMMA CoherenceIsCareful ==
    CoherenceInv <=> OneAtATime /\ StaleIsTold /\ \A w \in Workers : Careful(w)
BY DEF CoherenceInv, CachesStored, DeletedIsTold, Careful

\* With MaxActive at 1 a request starts only when no other is in progress.
LEMMA StartsAlone ==
    ASSUME MaxActive = 1, OneAtATime,
           Cardinality({v \in Workers : pc[v] # "idle"}) < MaxActive
    PROVE  \A v \in Workers : pc[v] = "idle"
<1> SUFFICES ASSUME NEW u \in Workers, pc[u] # "idle" PROVE FALSE
    OBVIOUS
<1>1. {v \in Workers : pc[v] # "idle"} = {u}
  BY DEF OneAtATime
<1>2. Cardinality({u}) = 1
  BY FS_Singleton
<1> QED BY <1>1, <1>2

\* While a request is in progress all the others are idle, and stay so.
LEMMA OthersIdle ==
    ASSUME OneAtATime, NEW w \in Workers, pc[w] # "idle", Alone(w)
    PROVE  OneAtATime' /\ \A v \in Workers \ {w} : pc[v] = "idle" /\ pc'[v] = "idle"
BY DEF OneAtATime, Alone

\* A step of one request keeps the invariant if every replica stays told and
\* that request stays careful.
LEMMA CoherenceAssemble ==
    ASSUME CoherenceInv, NEW w \in Workers, pc[w] # "idle", Alone(w),
           StaleIsTold', Careful(w)'
    PROVE  CoherenceInv'
<1>1. OneAtATime' /\ \A v \in Workers \ {w} : pc'[v] = "idle"
  BY OthersIdle DEF CoherenceInv
<1>2. \A v \in Workers \ {w} : Careful(v)'
  BY <1>1 DEF Careful, Deleting
<1>3. \A v \in Workers : Careful(v)'
  BY <1>2
<1> QED BY <1>1, <1>3 DEF CoherenceInv, CachesStored, DeletedIsTold, Careful

\* A step of a request that is not publishing, and touches neither the rows
\* nor the caches nor the bus, leaves every replica told.
LEMMA StaleKept ==
    ASSUME StaleIsTold, NEW w \in Workers, pc[w] # "idle", OneAtATime, ~Publishing(w),
           UNCHANGED <<row, metaCache, bus>>
    PROVE  StaleIsTold'
<1>1. \A v \in Workers : ~Publishing(v)
  BY DEF OneAtATime, Publishing
<1> QED BY <1>1 DEF StaleIsTold, Told

\* A replica that caches the stored row, or drops its entry, and tells its peers
\* leaves every replica told of that key.
LEMMA StaleTold ==
    ASSUME TypeOK, StaleIsTold, NEW w \in Workers, pc[w] # "idle", OneAtATime, UNCHANGED row,
           NEW m \in {Absent, row[key[w]]},
           metaCache' = [metaCache EXCEPT ![Home(w)][key[w]] = m],
           bus' = Published(Home(w), key[w])
    PROVE  /\ StaleIsTold'
           /\ \A r \in Replicas \ {Home(w)} : <<r, key[w]>> \in bus'
           /\ metaCache'[Home(w)][key[w]] = m
<1> USE HomeOfWorker
<1>0. key[w] \in Keys
  BY DEF TypeOK
<1>1. \A r \in Replicas \ {Home(w)} : <<r, key[w]>> \in bus'
  BY DEF Published
<1>2. metaCache'[Home(w)][key[w]] = m
  BY <1>0 DEF TypeOK
<1>3. ASSUME NEW r \in Replicas, NEW k \in Keys PROVE Told(r, k)'
  <2>1. CASE k = key[w]
    BY <1>1, <1>2, <2>1 DEF Told
  <2>2. CASE k # key[w]
    <3>1. Told(r, k)
      BY <2>2 DEF StaleIsTold, OneAtATime, Publishing
    <3>2. metaCache'[r][k] = metaCache[r][k]
      BY <1>0, <2>2 DEF TypeOK
    <3>3. bus \subseteq bus'
      BY DEF Published
    <3> QED BY <3>1, <3>2, <3>3 DEF Told
  <2> QED BY <2>1, <2>2
<1> QED BY <1>1, <1>2, <1>3 DEF StaleIsTold

\* A row written is published next; a row deleted was invalidated before.
LEMMA StaleWritten ==
    ASSUME TypeOK, CoherenceInv, NEW w \in Workers, pc[w] # "idle", ~Publishing(w),
           NEW m, row' = [row EXCEPT ![key[w]] = m], UNCHANGED <<metaCache, bus>>,
           \/ Publishing(w)' /\ key'[w] = key[w]
           \/ m = Absent /\ Deleting(w)
    PROVE  StaleIsTold'
<1>0. key[w] \in Keys
  BY DEF TypeOK
<1>1. ASSUME NEW r \in Replicas, NEW k \in Keys, k # key[w] PROVE Told(r, k)'
  <2>1. Told(r, k)
    BY <1>1 DEF CoherenceInv, StaleIsTold, OneAtATime, Publishing
  <2>2. row'[k] = row[k]
    BY <1>1 DEF TypeOK
  <2> QED BY <2>1, <2>2 DEF Told
<1>2. CASE Publishing(w)' /\ key'[w] = key[w]
  BY <1>1, <1>2 DEF StaleIsTold
<1>3. CASE m = Absent /\ Deleting(w)
  <2>1. ASSUME NEW r \in Replicas, NEW k \in Keys, k = key[w] PROVE Told(r, k)'
    BY <1>3, <2>1 DEF CoherenceInv, DeletedIsTold, Told
  <2> QED BY <1>1, <2>1 DEF StaleIsTold
<1> QED BY <1>2, <1>3

\* Requests arriving: no other is in progress, and the new one has no row yet.
LEMMA StartCoherent ==
    ASSUME MaxActive = 1, TypeOK, CoherenceInv, NEW w \in Workers, Begin(w)
    PROVE  CoherenceInv'
<1>1. PICK call \in {"cacheGet", "blobWrite", "rmCache"}, kind \in Ops, o \in Orgs,
           d \in Digests \cup {Absent} : Start(w, call, kind, o, d)
  BY DEF Begin, StartGet, StartRefresh, StartPut, StartRemove, Ops
<1>2. \A v \in Workers : pc[v] = "idle"
  BY <1>1, StartsAlone DEF Start, CoherenceInv
<1>3. \A v \in Workers \ {w} : pc'[v] = "idle"
  BY <1>1, <1>2 DEF Start, TypeOK
<1>4. pc'[w] = call
  BY <1>1 DEF Start, TypeOK
<1>5. OneAtATime'
  BY <1>3 DEF OneAtATime
<1>6. StaleIsTold'
  BY <1>1, <1>2 DEF Start, shared, CoherenceInv, StaleIsTold, Told, Publishing
<1>7. ASSUME NEW v \in Workers PROVE Careful(v)'
  <2>1. pc'[v] \in {"idle", "cacheGet", "blobWrite", "rmCache"}
    BY <1>3, <1>4
  <2> QED BY <2>1 DEF Careful, Deleting
<1> QED BY <1>5, <1>6, <1>7 DEF CoherenceInv, CachesStored, DeletedIsTold, Careful

\* A request that returns has nothing more to do.
LEMMA ReturnCareful ==
    ASSUME TypeOK, NEW w \in Workers, Return(w)
    PROVE  Alone(w) /\ Careful(w)'
<1>1. pc'[w] = "idle" /\ Alone(w)
  BY DEF Return, TypeOK, Alone
<1> QED BY <1>1 DEF Careful, Deleting

\* A request that goes on to a call that neither caches nor deletes.
LEMMA GotoCareful ==
    ASSUME TypeOK, NEW w \in Workers, NEW call, Goto(w, call),
           call \notin {"cacheFill", "cachePut", "learnCache", "dropTier", "dropRow", "rmRow",
                        "rmTier", "rmBlob"}
    PROVE  Alone(w) /\ Careful(w)'
<1>1. pc'[w] = call /\ Alone(w)
  BY DEF Goto, TypeOK, Alone
<1> QED BY <1>1 DEF Careful, Deleting

\* A request that has found its row goes on to open the blob, to look again,
\* or to write the row.
LEMMA FoundCareful ==
    ASSUME TypeOK, NEW w \in Workers, NEW m, Found(w, m)
    PROVE  Alone(w) /\ Careful(w)'
<1>1. pc'[w] \in {"tierOpen", "cacheGet", "rowPut"} /\ Alone(w)
  BY DEF Found, TypeOK, Alone
<1> QED BY <1>1 DEF Careful, Deleting

\* lookup and readMeta.
LEMMA LookupCoherent ==
    ASSUME TypeOK, CoherenceInv, NEW w \in Workers, CacheGet(w) \/ RowGet(w) \/ CacheFill(w)
    PROVE  CoherenceInv'
<1>1. CASE CacheGet(w)
  <2>1. pc[w] # "idle" /\ ~Publishing(w) /\ UNCHANGED <<row, metaCache, bus>>
    BY <1>1 DEF CacheGet, Publishing, shared
  <2>2. StaleIsTold'
    BY <2>1, StaleKept DEF CoherenceInv
  <2>3. CASE Goto(w, "rowGet")
    BY <2>1, <2>2, <2>3, GotoCareful, CoherenceAssemble
  <2>4. CASE Found(w, metaCache[Home(w)][key[w]])
    BY <2>1, <2>2, <2>4, FoundCareful, CoherenceAssemble
  <2> QED BY <1>1, <2>3, <2>4 DEF CacheGet
<1>2. CASE RowGet(w)
  <2>1. pc[w] # "idle" /\ ~Publishing(w) /\ UNCHANGED <<row, metaCache, bus>>
    BY <1>2 DEF RowGet, Publishing, shared
  <2>2. StaleIsTold'
    BY <2>1, StaleKept DEF CoherenceInv
  <2>3. CASE Return(w)
    BY <2>1, <2>2, <2>3, ReturnCareful, CoherenceAssemble
  <2>4. CASE ~Return(w)
    <3>1. /\ pc'[w] \in {"cacheFill", "cacheGet"} /\ Alone(w)
          /\ pc'[w] = "cacheFill" => found'[w] = row[key[w]] /\ key' = key
      BY <1>2, <2>4 DEF RowGet, TypeOK, Alone
    <3>2. Careful(w)'
      BY <2>1, <3>1 DEF Careful, Deleting
    <3> QED BY <2>1, <2>2, <3>1, <3>2, CoherenceAssemble
  <2> QED BY <2>3, <2>4
<1>3. CASE CacheFill(w)
  <2>1. pc[w] # "idle" /\ found[w] = row[key[w]] /\ UNCHANGED row
    BY <1>3 DEF CacheFill, CoherenceInv, CachesStored
  <2>2. StaleIsTold'
    BY <1>3, <2>1, StaleTold DEF CacheFill, CachePutAt, CoherenceInv
  <2>3. Alone(w) /\ Careful(w)'
    BY <1>3, FoundCareful DEF CacheFill
  <2> QED BY <2>1, <2>2, <2>3, CoherenceAssemble
<1> QED BY <1>1, <1>2, <1>3

\* CachedContent.Open and the read of what it returned; the calls that fail.
LEMMA OpenCoherent ==
    ASSUME TypeOK, CoherenceInv, NEW w \in Workers,
           TierOpen(w) \/ BlobOpen(w) \/ Stream(w) \/ StreamCut(w) \/ LearnGet(w) \/ StepFails(w)
    PROVE  CoherenceInv'
<1>1. pc[w] # "idle" /\ ~Publishing(w) /\ UNCHANGED <<row, metaCache, bus>>
  BY DEF TierOpen, BlobOpen, Stream, StreamCut, LearnGet, StepFails, Publishing, shared
<1>2. StaleIsTold'
  BY <1>1, StaleKept DEF CoherenceInv
<1>3. CASE Return(w)
  BY <1>1, <1>2, <1>3, ReturnCareful, CoherenceAssemble
<1>4. ASSUME NEW call \in {"blobOpen", "dropCache", "learnGet", "learnPut"}, Goto(w, call)
      PROVE  CoherenceInv'
  BY <1>1, <1>2, <1>4, GotoCareful, CoherenceAssemble
<1>5. CASE pc' = [pc EXCEPT ![w] = "stream"]
  <2>1. pc'[w] = "stream" /\ Alone(w)
    BY <1>5 DEF TypeOK, Alone
  <2>2. Careful(w)'
    BY <2>1 DEF Careful, Deleting
  <2> QED BY <1>1, <1>2, <2>1, <2>2, CoherenceAssemble
<1> QED BY <1>3, <1>4, <1>5 DEF TierOpen, BlobOpen, Stream, StreamCut, LearnGet, StepFails

\* recordSHA's write of the row and of the cache.
LEMMA LearnCoherent ==
    ASSUME TypeOK, CoherenceInv, NEW w \in Workers, LearnPut(w) \/ LearnCache(w)
    PROVE  CoherenceInv'
<1>0. key[w] \in Keys
  BY DEF TypeOK
<1>1. CASE LearnPut(w)
  <2>1. /\ pc[w] # "idle" /\ ~Publishing(w) /\ UNCHANGED <<metaCache, bus>>
        /\ row' = [row EXCEPT ![key[w]] = data[w]]
    BY <1>1 DEF LearnPut, Publishing
  <2>2. pc'[w] = "learnCache" /\ key' = key /\ data' = data /\ Alone(w)
    BY <1>1 DEF LearnPut, Goto, TypeOK, Alone
  <2>3. Publishing(w)'
    BY <2>2 DEF Publishing
  <2>4. StaleIsTold'
    BY <2>1, <2>2, <2>3, StaleWritten
  <2>5. Careful(w)'
    BY <1>0, <2>1, <2>2 DEF Careful, Deleting, TypeOK
  <2> QED BY <2>1, <2>2, <2>4, <2>5, CoherenceAssemble
<1>2. CASE LearnCache(w)
  <2>1. pc[w] # "idle" /\ data[w] = row[key[w]] /\ UNCHANGED row
    BY <1>2 DEF LearnCache, CoherenceInv, CachesStored
  <2>2. StaleIsTold'
    BY <1>2, <2>1, StaleTold DEF LearnCache, CachePutAt, CoherenceInv
  <2>3. Alone(w) /\ Careful(w)'
    BY <1>2, ReturnCareful DEF LearnCache
  <2> QED BY <2>1, <2>2, <2>3, CoherenceAssemble
<1> QED BY <1>1, <1>2

\* A request that goes on to a call from which it may delete the row stays
\* careful if every replica is told already.
LEMMA DeletingCareful ==
    ASSUME TypeOK, NEW w \in Workers, NEW call, Goto(w, call),
           call \notin {"cacheFill", "cachePut", "learnCache"},
           \A r \in Replicas : metaCache'[r][key[w]] = Absent \/ <<r, key[w]>> \in bus'
    PROVE  Alone(w) /\ Careful(w)'
<1>1. pc'[w] = call /\ Alone(w) /\ key' = key
  BY DEF Goto, TypeOK, Alone
<1> QED BY <1>1 DEF Careful

\* dropMeta.
LEMMA DropCoherent ==
    ASSUME TypeOK, CoherenceInv, NEW w \in Workers, DropCache(w) \/ DropTier(w) \/ DropRow(w)
    PROVE  CoherenceInv'
<1>1. CASE DropCache(w)
  <2>1. pc[w] # "idle" /\ UNCHANGED row
    BY <1>1 DEF DropCache
  <2>2. /\ StaleIsTold'
        /\ \A r \in Replicas \ {Home(w)} : <<r, key[w]>> \in bus'
        /\ metaCache'[Home(w)][key[w]] = Absent
    BY <1>1, <2>1, StaleTold DEF DropCache, InvalidateAt, CoherenceInv
  <2>3. Alone(w) /\ Careful(w)'
    BY <1>1, <2>2, DeletingCareful DEF DropCache
  <2> QED BY <2>1, <2>2, <2>3, CoherenceAssemble
<1>2. CASE DropTier(w)
  <2>1. pc[w] # "idle" /\ ~Publishing(w) /\ UNCHANGED <<row, metaCache, bus>> /\ Deleting(w)
    BY <1>2 DEF DropTier, Publishing, Deleting
  <2>2. StaleIsTold'
    BY <2>1, StaleKept DEF CoherenceInv
  <2>3. \A r \in Replicas : metaCache[r][key[w]] = Absent \/ <<r, key[w]>> \in bus
    BY <2>1 DEF CoherenceInv, DeletedIsTold
  <2>4. Alone(w) /\ Careful(w)'
    BY <1>2, <2>1, <2>3, DeletingCareful DEF DropTier
  <2> QED BY <2>1, <2>2, <2>4, CoherenceAssemble
<1>3. CASE DropRow(w)
  <2>1. /\ pc[w] # "idle" /\ ~Publishing(w) /\ UNCHANGED <<metaCache, bus>> /\ Deleting(w)
        /\ row' = [row EXCEPT ![key[w]] = Absent]
    BY <1>3 DEF DropRow, Publishing, Deleting
  <2>2. StaleIsTold'
    BY <2>1, StaleWritten
  <2>3. Alone(w) /\ Careful(w)'
    BY <1>3, ReturnCareful DEF DropRow
  <2> QED BY <2>1, <2>2, <2>3, CoherenceAssemble
<1> QED BY <1>1, <1>2, <1>3

\* put and UpdateMetadata.
LEMMA WriteCoherent ==
    ASSUME TypeOK, CoherenceInv, NEW w \in Workers,
           BlobWrite(w) \/ RowPut(w) \/ CachePut(w) \/ TierCommit(w)
    PROVE  CoherenceInv'
<1>0. key[w] \in Keys
  BY DEF TypeOK
<1>1. CASE BlobWrite(w)
  <2>1. pc[w] # "idle" /\ ~Publishing(w) /\ UNCHANGED <<row, metaCache, bus>>
    BY <1>1 DEF BlobWrite, Publishing
  <2>2. StaleIsTold'
    BY <2>1, StaleKept DEF CoherenceInv
  <2>3. pc'[w] = "rowPut" /\ Alone(w)
    BY <1>1 DEF BlobWrite, TypeOK, Alone
  <2>4. Careful(w)'
    BY <2>3 DEF Careful, Deleting
  <2> QED BY <2>1, <2>2, <2>3, <2>4, CoherenceAssemble
<1>2. CASE RowPut(w)
  <2>1. /\ pc[w] # "idle" /\ ~Publishing(w) /\ UNCHANGED <<metaCache, bus>>
        /\ row' = [row EXCEPT ![key[w]] = meta[w]]
    BY <1>2 DEF RowPut, Publishing
  <2>2. pc'[w] = "cachePut" /\ key' = key /\ meta' = meta /\ Alone(w)
    BY <1>2 DEF RowPut, Goto, TypeOK, Alone
  <2>3. Publishing(w)'
    BY <2>2 DEF Publishing
  <2>4. StaleIsTold'
    BY <2>1, <2>2, <2>3, StaleWritten
  <2>5. Careful(w)'
    BY <1>0, <2>1, <2>2 DEF Careful, Deleting, TypeOK
  <2> QED BY <2>1, <2>2, <2>4, <2>5, CoherenceAssemble
<1>3. CASE CachePut(w)
  <2>1. pc[w] # "idle" /\ meta[w] = row[key[w]] /\ UNCHANGED row
    BY <1>3 DEF CachePut, CoherenceInv, CachesStored
  <2>2. StaleIsTold'
    BY <1>3, <2>1, StaleTold DEF CachePut, CachePutAt, CoherenceInv
  <2>3. Alone(w) /\ Careful(w)'
    BY <1>3, GotoCareful, ReturnCareful DEF CachePut
  <2> QED BY <2>1, <2>2, <2>3, CoherenceAssemble
<1>4. CASE TierCommit(w)
  <2>1. pc[w] # "idle" /\ ~Publishing(w) /\ UNCHANGED <<row, metaCache, bus>>
    BY <1>4 DEF TierCommit, Publishing
  <2>2. StaleIsTold'
    BY <2>1, StaleKept DEF CoherenceInv
  <2>3. Alone(w) /\ Careful(w)'
    BY <1>4, ReturnCareful DEF TierCommit
  <2> QED BY <2>1, <2>2, <2>3, CoherenceAssemble
<1> QED BY <1>1, <1>2, <1>3, <1>4

\* Remove.
LEMMA RemoveCoherent ==
    ASSUME TypeOK, CoherenceInv, NEW w \in Workers,
           RmCache(w) \/ RmTier(w) \/ RmBlob(w) \/ RmRow(w)
    PROVE  CoherenceInv'
<1>1. CASE RmCache(w)
  <2>1. pc[w] # "idle" /\ UNCHANGED row
    BY <1>1 DEF RmCache
  <2>2. /\ StaleIsTold'
        /\ \A r \in Replicas \ {Home(w)} : <<r, key[w]>> \in bus'
        /\ metaCache'[Home(w)][key[w]] = Absent
    BY <1>1, <2>1, StaleTold DEF RmCache, InvalidateAt, CoherenceInv
  <2>3. Alone(w) /\ Careful(w)'
    BY <1>1, <2>2, DeletingCareful DEF RmCache
  <2> QED BY <2>1, <2>2, <2>3, CoherenceAssemble
<1>2. CASE RmTier(w) \/ RmBlob(w)
  <2>1. /\ pc[w] \in {"rmTier", "rmBlob"} /\ ~Publishing(w) /\ UNCHANGED <<row, metaCache, bus>>
        /\ key[w] # Legacy => Deleting(w)
    BY <1>2 DEF RmTier, RmBlob, Publishing, Deleting
  <2>2. StaleIsTold'
    BY <2>1, StaleKept DEF CoherenceInv
  <2>3. PICK call \in {"rmBlob", "rmCache", "rmRow"} :
           Goto(w, call) /\ (key[w] = Legacy => call # "rmRow")
    BY <1>2 DEF RmTier, RmBlob
  <2>4. CASE key[w] # Legacy
    <3>1. \A r \in Replicas : metaCache[r][key[w]] = Absent \/ <<r, key[w]>> \in bus
      BY <2>1, <2>4 DEF CoherenceInv, DeletedIsTold
    <3>2. Alone(w) /\ Careful(w)'
      BY <2>1, <2>3, <3>1, DeletingCareful
    <3> QED BY <2>1, <2>2, <3>2, CoherenceAssemble
  <2>5. CASE key[w] = Legacy
    <3>1. pc'[w] \in {"rmBlob", "rmCache"} /\ key'[w] = Legacy /\ Alone(w)
      BY <2>3, <2>5 DEF Goto, TypeOK, Alone
    <3>2. Careful(w)'
      BY <3>1 DEF Careful, Deleting
    <3> QED BY <2>1, <2>2, <3>1, <3>2, CoherenceAssemble
  <2> QED BY <2>4, <2>5
<1>3. CASE RmRow(w)
  <2>1. /\ pc[w] # "idle" /\ ~Publishing(w) /\ UNCHANGED <<metaCache, bus>> /\ Deleting(w)
        /\ row' = [row EXCEPT ![key[w]] = Absent]
    BY <1>3 DEF RmRow, Publishing, Deleting
  <2>2. StaleIsTold'
    BY <2>1, StaleWritten
  <2>3. CASE LegacyFallback(w)
    <3>1. pc'[w] = "rmTier" /\ key'[w] = Legacy /\ Alone(w)
      BY <1>3, <2>3 DEF RmRow, TypeOK, Alone
    <3>2. Careful(w)'
      BY <3>1 DEF Careful, Deleting
    <3> QED BY <2>1, <2>2, <3>1, <3>2, CoherenceAssemble
  <2>4. CASE ~LegacyFallback(w)
    <3>1. Alone(w) /\ Careful(w)'
      BY <1>3, <2>4, ReturnCareful DEF RmRow
    <3> QED BY <2>1, <2>2, <3>1, CoherenceAssemble
  <2> QED BY <2>3, <2>4
<1> QED BY <1>1, <1>2, <1>3

\* A delivery empties the entry its message is about, an eviction any entry.
LEMMA BusCoherent ==
    ASSUME TypeOK, CoherenceInv, Deliver \/ Evict
    PROVE  CoherenceInv'
<1>1. UNCHANGED <<row, pc, key, found, meta, data>>
  BY DEF Deliver, Evict, request
<1>2. ASSUME NEW r \in Replicas, NEW k \in Keys
      PROVE  \/ metaCache'[r][k] = Absent
             \/ metaCache'[r][k] = metaCache[r][k] /\ (<<r, k>> \in bus => <<r, k>> \in bus')
  <2>1. CASE Deliver
    <3>1. PICK msg \in bus : /\ metaCache' = [metaCache EXCEPT ![msg[1]][msg[2]] = Absent]
                             /\ bus' = bus \ {msg}
      BY <2>1 DEF Deliver
    <3>2. PICK p \in Replicas, j \in Keys : msg = <<p, j>>
      BY <3>1 DEF TypeOK
    <3>3. CASE p = r /\ j = k
      BY <3>1, <3>2, <3>3 DEF TypeOK
    <3>4. CASE ~(p = r /\ j = k)
      BY <3>1, <3>2, <3>4 DEF TypeOK
    <3> QED BY <3>3, <3>4
  <2>2. CASE Evict
    <3>1. bus' = bus
      BY <2>2 DEF Evict
    <3>2. CASE metaCache' = metaCache
      BY <3>1, <3>2
    <3>3. ASSUME NEW p \in Replicas, NEW j \in Keys,
                 metaCache' = [metaCache EXCEPT ![p][j] = Absent]
          PROVE  metaCache'[r][k] \in {Absent, metaCache[r][k]}
      BY <3>3 DEF TypeOK
    <3> QED BY <2>2, <3>1, <3>2, <3>3 DEF Evict
  <2> QED BY <2>1, <2>2
<1>3. StaleIsTold'
  <2> SUFFICES ASSUME NEW r \in Replicas, NEW k \in Keys
               PROVE  Told(r, k)' \/ \E w \in Workers : key'[w] = k /\ Publishing(w)'
      BY DEF StaleIsTold
  <2>1. Told(r, k) \/ \E w \in Workers : key[w] = k /\ Publishing(w)
    BY DEF CoherenceInv, StaleIsTold
  <2>2. Told(r, k) => Told(r, k)'
    BY <1>1, <1>2 DEF Told
  <2>3. \A w \in Workers : Publishing(w)' = Publishing(w) /\ key'[w] = key[w]
    BY <1>1 DEF Publishing
  <2> QED BY <2>1, <2>2, <2>3
<1>4. ASSUME NEW w \in Workers PROVE Careful(w)'
  <2>1. key[w] \in Keys /\ Careful(w)
    BY CoherenceIsCareful DEF TypeOK
  <2> QED BY <1>1, <1>2, <2>1 DEF Careful, Deleting
<1>5. OneAtATime'
  BY <1>1 DEF CoherenceInv, OneAtATime
<1> QED BY <1>3, <1>4, <1>5 DEF CoherenceInv, CachesStored, DeletedIsTold, Careful

\* Every step keeps the invariant, when requests come one at a time and
\* neither a message nor a process is lost.
LEMMA CoherenceStep ==
    ASSUME MaxActive = 1, "loss" \notin Faults, "crash" \notin Faults,
           TypeOK, CoherenceInv, [Next]_vars
    PROVE  CoherenceInv'
<1>1. CASE \E w \in Workers : Begin(w)
  BY <1>1, StartCoherent
<1>2. ASSUME NEW w \in Workers, Step(w) \/ StreamCut(w) \/ StepFails(w) PROVE CoherenceInv'
  BY <1>2, LookupCoherent, OpenCoherent, LearnCoherent, DropCoherent, WriteCoherent,
     RemoveCoherent DEF Step
<1>3. CASE Deliver \/ Evict
  BY <1>3, BusCoherent
<1>4. CASE UNCHANGED vars
  BY <1>4 DEF vars, CoherenceInv, OneAtATime, CachesStored, StaleIsTold, Told, Publishing,
              DeletedIsTold, Deleting
<1> QED BY <1>1, <1>2, <1>3, <1>4 DEF Next, Crash, Lose

\* Requests one at a time, on any number of replicas, failing at any call:
\* once the invalidations that Put, UpdateMetadata, recordSHA, dropMeta and
\* Remove publish are delivered, no replica caches a row other than the
\* stored one.  A process that dies between the row and its publication, or a
\* message that is lost, takes the promise away.
THEOREM CachesAreCoherent ==
    ASSUME MaxActive = 1, "loss" \notin Faults, "crash" \notin Faults
    PROVE  Spec => []CacheCoherent
<1>1. Init => CoherenceInv
  BY DEF Init, CoherenceInv, OneAtATime, CachesStored, StaleIsTold, Told, DeletedIsTold, Deleting
<1>2. IsolationInv /\ CoherenceInv /\ [Next]_vars => CoherenceInv'
  BY CoherenceStep DEF IsolationInv
<1>3. CoherenceInv => CacheCoherent
  BY DEF CoherenceInv, StaleIsTold, Told, Publishing, CacheCoherent, Settled
<1> QED BY <1>1, <1>2, <1>3, IsolationInvariant, PTL DEF Spec

(***************************************************************************)
(* Requests one at a time: what the rows say of the bytes.                 *)
(***************************************************************************)

\* The keys a step of a request may add to torn or take from it.
LEMMA TornByStep ==
    ASSUME TypeOK, OneAtATime, TornNext, NEW w \in Workers, pc[w] # "idle"
    PROVE  /\ torn \ {key[w]} \subseteq torn'
           /\ ~Rewritten(w) => torn \subseteq torn'
           /\ PutCut(w) \/ RemoveCut(w) \/ StaleUpdate(w) => key[w] \in torn'
<1>1. \A v \in Workers : Rewritten(v) => v = w
  BY DEF Rewritten, RowPut, OneAtATime
<1>2. torn' = (torn \cup {key[v] : v \in {u \in Workers :
                                       PutCut(u) \/ RemoveCut(u) \/ StaleUpdate(u)}})
              \ {key[v] : v \in {u \in Workers : Rewritten(u)}}
  BY DEF TornNext
<1>3. PutCut(w) \/ RemoveCut(w) \/ StaleUpdate(w) => ~Rewritten(w)
  <2>1. PutCut(w) \/ RemoveCut(w) => pc'[w] = "idle"
    BY DEF PutCut, RemoveCut, StepFails, Return, TypeOK
  <2>2. Rewritten(w) => pc'[w] = "cachePut" /\ op[w] = "put"
    BY DEF Rewritten, RowPut, Goto, TypeOK
  <2>3. StaleUpdate(w) => op[w] = "update"
    BY DEF StaleUpdate
  <2> QED BY <2>1, <2>2, <2>3
<1>4. torn \ {key[w]} \subseteq torn'
  BY <1>1, <1>2
<1>5. ~Rewritten(w) => {key[v] : v \in {u \in Workers : Rewritten(u)}} = {}
  BY <1>1
<1>6. ~Rewritten(w) => torn \subseteq torn'
  BY <1>2, <1>5
<1>7. PutCut(w) \/ RemoveCut(w) \/ StaleUpdate(w) => key[w] \in torn'
  BY <1>2, <1>3, <1>5
<1> QED BY <1>4, <1>6, <1>7

\* A step of one request keeps the invariant if it touches only its own key
\* and leaves that torn, named or owed.
LEMMA TornAssemble ==
    ASSUME TypeOK, TornInv, TornNext, NEW w \in Workers, pc[w] # "idle", Alone(w), InHand(w)',
           NEW k0 \in Keys, k0 = key[w],
           \A k \in Keys \ {k0} : row'[k] = row[k] /\ blob'[k] = blob[k],
           k0 \in torn' \/ Named(k0)' \/ (Owing(w)' /\ key'[w] = k0)
    PROVE  TornInv'
<1>1. OneAtATime' /\ \A v \in Workers \ {w} : pc[v] = "idle" /\ pc'[v] = "idle"
  BY OthersIdle DEF TornInv
<1>2. \A v \in Workers \ {w} : InHand(v)'
  BY <1>1 DEF InHand
<1>3. ASSUME NEW k \in Keys \ torn', k # k0 PROVE Named(k)'
  <2>1. k \notin torn
    BY <1>3, TornByStep DEF TornInv
  <2>2. \A v \in Workers : key[v] = k => ~Owing(v)
    BY <1>1, <1>3 DEF Owing
  <2>3. Named(k)
    BY <2>1, <2>2 DEF TornInv, NamedOrOwed
  <2> QED BY <1>3, <2>3 DEF Named
<1>4. NamedOrOwed'
  BY <1>3 DEF NamedOrOwed
<1> QED BY <1>1, <1>2, <1>4 DEF TornInv

\* A step of a request that owes nothing and leaves rows and bytes alone.
LEMMA TornQuiet ==
    ASSUME TypeOK, TornInv, TornNext, NEW w \in Workers, pc[w] # "idle", Alone(w), InHand(w)',
           ~Owing(w), ~Rewritten(w), UNCHANGED <<row, blob>>
    PROVE  TornInv'
<1>1. key[w] \in Keys
  BY DEF TypeOK
<1>2. PICK k0 \in Keys : k0 = key[w]
  BY <1>1
<1>3. k0 \in torn' \/ Named(k0)'
  <2> SUFFICES ASSUME k0 \notin torn' PROVE Named(k0)'
      OBVIOUS
  <2>1. k0 \notin torn
    BY TornByStep DEF TornInv
  <2>2. \A v \in Workers : ~Owing(v)
    BY DEF TornInv, OneAtATime, Owing
  <2>3. Named(k0)
    BY <2>1, <2>2 DEF TornInv, NamedOrOwed
  <2> QED BY <2>3 DEF Named
<1> QED BY <1>2, <1>3, TornAssemble

\* A request that returns has nothing in hand.
LEMMA ReturnInHand ==
    ASSUME TypeOK, NEW w \in Workers, Return(w)
    PROVE  Alone(w) /\ InHand(w)' /\ pc'[w] = "idle"
<1>1. pc'[w] = "idle" /\ Alone(w)
  BY DEF Return, TypeOK, Alone
<1> QED BY <1>1 DEF InHand

\* A request that goes on with what it has.
LEMMA GotoInHand ==
    ASSUME TypeOK, NEW w \in Workers, NEW call, Goto(w, call),
           call \notin {"blobWrite", "cacheGet", "rowGet", "cacheFill", "rowPut", "stream",
                        "learnGet", "learnPut"}
    PROVE  Alone(w) /\ InHand(w)' /\ pc'[w] = call /\ key' = key
<1>1. pc'[w] = call /\ Alone(w) /\ key' = key
  BY DEF Goto, TypeOK, Alone
<1> QED BY <1>1 DEF InHand

\* A lookup that found its row goes on as get, refresh or update.
LEMMA FoundInHand ==
    ASSUME TypeOK, NEW w \in Workers, NEW m, Found(w, m), op[w] \in {"get", "refresh", "update"}
    PROVE  Alone(w) /\ InHand(w)'
<1>1. /\ Alone(w)
      /\ \/ pc'[w] = "tierOpen"
         \/ pc'[w] = "cacheGet" /\ op'[w] = "update"
         \/ pc'[w] = "rowPut" /\ op'[w] = "update"
  BY DEF Found, TypeOK, Alone
<1> QED BY <1>1 DEF InHand

\* Requests arriving: nobody owes a row, and nothing is written.
LEMMA StartTorn ==
    ASSUME MaxActive = 1, TypeOK, TornInv, TornNext, NEW w \in Workers, Begin(w)
    PROVE  TornInv'
<1>1. PICK call \in {"cacheGet", "blobWrite", "rmCache"}, kind \in Ops, o \in Orgs,
           d \in Digests \cup {Absent} :
         /\ Start(w, call, kind, o, d)
         /\ call = "blobWrite" => kind = "put"
         /\ call = "cacheGet" => kind \in {"get", "refresh"}
  BY DEF Begin, StartGet, StartRefresh, StartPut, StartRemove, Ops
<1>2. \A v \in Workers : pc[v] = "idle"
  BY <1>1, StartsAlone DEF Start, TornInv
<1>3. \A v \in Workers \ {w} : pc'[v] = "idle"
  BY <1>1, <1>2 DEF Start, TypeOK
<1>4. pc'[w] = call /\ op'[w] = kind
  BY <1>1 DEF Start, TypeOK
<1>5. OneAtATime'
  BY <1>3 DEF OneAtATime
<1>6. \A v \in Workers : InHand(v)'
  BY <1>1, <1>3, <1>4 DEF InHand
<1>7. torn \subseteq torn'
  <2>1. {key[v] : v \in {u \in Workers : Rewritten(u)}} = {}
    BY <1>2 DEF Rewritten, RowPut
  <2> QED BY <2>1 DEF TornNext
<1>8. \A k \in Keys \ torn : Named(k)
  BY <1>2 DEF TornInv, NamedOrOwed, Owing
<1>9. NamedOrOwed'
  BY <1>1, <1>7, <1>8 DEF NamedOrOwed, Named, Start, shared
<1> QED BY <1>5, <1>6, <1>9 DEF TornInv

\* lookup and readMeta.
LEMMA LookupTorn ==
    ASSUME TypeOK, TornInv, TornNext, NEW w \in Workers,
           CacheGet(w) \/ RowGet(w) \/ CacheFill(w)
    PROVE  TornInv'
<1>1. /\ pc[w] \in {"cacheGet", "rowGet", "cacheFill"} /\ UNCHANGED <<row, blob>>
      /\ op[w] \in {"get", "refresh", "update"}
  BY DEF CacheGet, RowGet, CacheFill, shared, TornInv, InHand
<1>2. ~Owing(w) /\ ~Rewritten(w)
  BY <1>1 DEF Owing, Rewritten, RowPut
<1>3. Alone(w) /\ InHand(w)'
  <2>1. ASSUME NEW m, Found(w, m) PROVE Alone(w) /\ InHand(w)'
    BY <1>1, <2>1, FoundInHand
  <2>2. CASE Return(w)
    BY <2>2, ReturnInHand
  <2>3. CASE Goto(w, "rowGet")
    <3>1. pc'[w] = "rowGet" /\ op' = op /\ Alone(w)
      BY <2>3 DEF Goto, TypeOK, Alone
    <3> QED BY <1>1, <3>1 DEF InHand
  <2>4. CASE RowGet(w) /\ ~Return(w)
    <3>1. pc'[w] \in {"cacheFill", "cacheGet"} /\ op' = op /\ Alone(w)
      BY <2>4 DEF RowGet, TypeOK, Alone
    <3> QED BY <1>1, <3>1 DEF InHand
  <2> QED BY <2>1, <2>2, <2>3, <2>4 DEF CacheGet, CacheFill
<1> QED BY <1>1, <1>2, <1>3, TornQuiet

\* CachedContent.Open, the read of what it returned, and recordSHA, which
\* records the digest of the bytes it read.
LEMMA OpenTorn ==
    ASSUME TypeOK, TornInv, TornNext, NEW w \in Workers,
           \/ TierOpen(w) \/ BlobOpen(w) \/ Stream(w) \/ StreamCut(w)
           \/ LearnGet(w) \/ LearnPut(w) \/ LearnCache(w)
    PROVE  TornInv'
<1>1. /\ pc[w] \in {"tierOpen", "blobOpen", "stream", "learnGet", "learnPut", "learnCache"}
      /\ UNCHANGED blob
  BY DEF TierOpen, BlobOpen, Stream, StreamCut, LearnGet, LearnPut, LearnCache, shared
<1>2. ~Owing(w) /\ ~Rewritten(w)
  BY <1>1 DEF Owing, Rewritten, RowPut
<1>3. Alone(w) /\ InHand(w)'
  <2>1. CASE Return(w)
    BY <2>1, ReturnInHand
  <2>2. ASSUME NEW call \in {"blobOpen", "dropCache", "learnCache"}, Goto(w, call)
        PROVE  Alone(w) /\ InHand(w)'
    BY <2>2, GotoInHand
  <2>3. ASSUME NEW call \in {"learnGet", "learnPut"}, Goto(w, call),
               pc[w] \in {"stream", "learnGet"}
        PROVE  Alone(w) /\ InHand(w)'
    <3>1. pc'[w] = call /\ data' = data /\ key' = key /\ Alone(w)
      BY <2>3 DEF Goto, TypeOK, Alone
    <3>2. data[w] = blob[key[w]]
      BY <2>3 DEF TornInv, InHand
    <3> QED BY <1>1, <3>1, <3>2 DEF InHand
  <2>4. CASE /\ data' = [data EXCEPT ![w] = blob[key[w]]]
             /\ pc' = [pc EXCEPT ![w] = "stream"]
             /\ UNCHANGED key
    <3>1. pc'[w] = "stream" /\ data'[w] = blob[key[w]] /\ Alone(w)
      BY <2>4 DEF TypeOK, Alone
    <3> QED BY <1>1, <2>4, <3>1 DEF InHand
  <2> QED BY <2>1, <2>2, <2>3, <2>4
          DEF TierOpen, BlobOpen, Stream, StreamCut, LearnGet, LearnPut, LearnCache
<1>4. CASE UNCHANGED row
  BY <1>1, <1>2, <1>3, <1>4, TornQuiet
<1>5. CASE LearnPut(w)
  <2>1. PICK k0 \in Keys : k0 = key[w]
    BY DEF TypeOK
  <2>2. data[w] = blob[k0] /\ data[w] # Unhashed
    BY <1>5, <2>1, StorageAssumption DEF LearnPut, TornInv, InHand, TypeOK
  <2>3. row' = [row EXCEPT ![k0] = data[w]]
    BY <1>5, <2>1 DEF LearnPut
  <2>4. Named(k0)'
    BY <1>1, <2>2, <2>3 DEF Named, TypeOK
  <2>5. \A k \in Keys \ {k0} : row'[k] = row[k] /\ blob'[k] = blob[k]
    BY <1>1, <2>3 DEF TypeOK
  <2> QED BY <1>1, <1>3, <2>1, <2>4, <2>5, TornAssemble
<1> QED BY <1>4, <1>5 DEF TierOpen, BlobOpen, Stream, StreamCut, LearnGet, LearnCache, shared

\* dropMeta.
LEMMA DropTorn ==
    ASSUME TypeOK, TornInv, TornNext, NEW w \in Workers, DropCache(w) \/ DropTier(w) \/ DropRow(w)
    PROVE  TornInv'
<1>1. pc[w] \in {"dropCache", "dropTier", "dropRow"} /\ UNCHANGED blob
  BY DEF DropCache, DropTier, DropRow
<1>2. ~Owing(w) /\ ~Rewritten(w)
  BY <1>1 DEF Owing, Rewritten, RowPut
<1>3. Alone(w) /\ InHand(w)'
  BY GotoInHand, ReturnInHand DEF DropCache, DropTier, DropRow
<1>4. CASE UNCHANGED row
  BY <1>1, <1>2, <1>3, <1>4, TornQuiet
<1>5. CASE DropRow(w)
  <2>1. PICK k0 \in Keys : k0 = key[w]
    BY DEF TypeOK
  <2>2. row' = [row EXCEPT ![k0] = Absent]
    BY <1>5, <2>1 DEF DropRow
  <2>3. Named(k0)'
    BY <2>2, StorageAssumption DEF Named, TypeOK
  <2>4. \A k \in Keys \ {k0} : row'[k] = row[k] /\ blob'[k] = blob[k]
    BY <1>1, <2>2 DEF TypeOK
  <2> QED BY <1>1, <1>3, <2>1, <2>3, <2>4, TornAssemble
<1> QED BY <1>4, <1>5 DEF DropCache, DropTier

\* put and UpdateMetadata.
LEMMA WriteTorn ==
    ASSUME IsolationInv, TornInv, TornNext, NEW w \in Workers,
           BlobWrite(w) \/ RowPut(w) \/ CachePut(w) \/ TierCommit(w)
    PROVE  TornInv'
<1>0. TypeOK
  BY DEF IsolationInv
<1>1. PICK k0 \in Keys : k0 = key[w]
  BY <1>0 DEF TypeOK
<1>2. CASE BlobWrite(w)
  <2>1. op[w] = "put" /\ data[w] \in Digests /\ row' = row
    BY <1>0, <1>2 DEF BlobWrite, TornInv, InHand, IsolationInv, BytesWereWritten, TypeOK
  <2>2. blob' = [blob EXCEPT ![k0] = data[w]]
    BY <1>1, <1>2 DEF BlobWrite
  <2>3. pc'[w] = "rowPut" /\ op' = op /\ key' = key /\ meta'[w] = data[w] /\ Alone(w)
    BY <1>0, <1>2 DEF BlobWrite, TypeOK, Alone
  <2>4. InHand(w)'
    BY <1>0, <1>1, <2>1, <2>2, <2>3 DEF InHand, TypeOK
  <2>5. Owing(w)' /\ key'[w] = k0
    BY <1>1, <2>1, <2>3 DEF Owing
  <2>6. \A k \in Keys \ {k0} : row'[k] = row[k] /\ blob'[k] = blob[k]
    BY <1>0, <2>1, <2>2 DEF TypeOK
  <2>7. pc[w] # "idle"
    BY <1>2 DEF BlobWrite
  <2> QED BY <1>0, <1>1, <2>3, <2>4, <2>5, <2>6, <2>7, TornAssemble
<1>3. CASE RowPut(w)
  <2>1. pc[w] = "rowPut" /\ op[w] \in {"put", "update"} /\ blob' = blob
    BY <1>3 DEF RowPut, TornInv, InHand
  <2>2. row' = [row EXCEPT ![k0] = meta[w]]
    BY <1>1, <1>3 DEF RowPut
  <2>3. Alone(w) /\ InHand(w)'
    BY <1>0, <1>3, GotoInHand DEF RowPut
  <2>4. \A k \in Keys \ {k0} : row'[k] = row[k] /\ blob'[k] = blob[k]
    BY <1>0, <2>1, <2>2 DEF TypeOK
  <2>5. k0 \in torn' \/ Named(k0)'
    <3>1. CASE op[w] = "put"
      <4>1. meta[w] \in Digests /\ meta[w] = blob[k0]
        BY <1>1, <2>1, <3>1 DEF TornInv, InHand
      <4> QED BY <1>0, <2>1, <2>2, <4>1, StorageAssumption DEF Named, TypeOK
    <3>2. CASE op[w] = "update" /\ meta[w] # row[k0]
      BY <1>0, <1>1, <1>3, <2>1, <3>2, TornByStep DEF StaleUpdate, TornInv
    <3>3. CASE op[w] = "update" /\ meta[w] = row[k0]
      <4>1. row' = row
        BY <1>0, <2>2, <3>3 DEF TypeOK
      <4>2. ~Rewritten(w) /\ ~Owing(w)
        BY <2>1, <3>3 DEF Rewritten, Owing
      <4>3. torn \subseteq torn'
        BY <1>0, <2>1, <4>2, TornByStep DEF TornInv
      <4>4. \A v \in Workers : ~Owing(v)
        BY <2>1, <4>2 DEF TornInv, OneAtATime, Owing
      <4>5. k0 \in torn \/ Named(k0)
        BY <4>4 DEF TornInv, NamedOrOwed
      <4> QED BY <2>1, <4>1, <4>3, <4>5 DEF Named
    <3> QED BY <2>1, <3>1, <3>2, <3>3
  <2> QED BY <1>0, <1>1, <2>1, <2>3, <2>4, <2>5, TornAssemble
<1>4. CASE CachePut(w) \/ TierCommit(w)
  <2>1. pc[w] \in {"cachePut", "tierCommit"} /\ UNCHANGED <<row, blob>>
    BY <1>4 DEF CachePut, TierCommit
  <2>2. ~Owing(w) /\ ~Rewritten(w)
    BY <2>1 DEF Owing, Rewritten, RowPut
  <2>3. Alone(w) /\ InHand(w)'
    BY <1>0, <1>4, GotoInHand, ReturnInHand DEF CachePut, TierCommit
  <2> QED BY <1>0, <2>1, <2>2, <2>3, TornQuiet
<1> QED BY <1>2, <1>3, <1>4

\* Remove: the bytes go before the row, which stays owed until it is gone.
LEMMA RemoveTorn ==
    ASSUME TypeOK, TornInv, TornNext, NEW w \in Workers,
           RmCache(w) \/ RmTier(w) \/ RmBlob(w) \/ RmRow(w)
    PROVE  TornInv'
<1>1. PICK k0 \in Keys : k0 = key[w]
  BY DEF TypeOK
<1>2. CASE RmCache(w) /\ key[w] = Legacy
  <2>1. pc[w] # "idle" /\ UNCHANGED <<row, blob>> /\ Goto(w, "rmRow")
    BY <1>2 DEF RmCache
  <2>2. Alone(w) /\ InHand(w)' /\ pc'[w] = "rmRow" /\ key' = key
    BY <2>1, GotoInHand
  <2>3. Owing(w)' /\ key'[w] = k0
    BY <1>1, <2>2 DEF Owing
  <2> QED BY <1>1, <2>1, <2>2, <2>3, TornAssemble
<1>3. CASE (RmCache(w) /\ key[w] # Legacy) \/ RmTier(w)
  <2>1. /\ pc[w] = "rmTier" \/ (pc[w] = "rmCache" /\ key[w] # Legacy)
        /\ UNCHANGED <<row, blob>>
    BY <1>3 DEF RmCache, RmTier
  <2>2. ~Owing(w) /\ ~Rewritten(w)
    BY <2>1 DEF Owing, Rewritten, RowPut
  <2>3. Alone(w) /\ InHand(w)'
    BY <1>3, GotoInHand DEF RmCache, RmTier
  <2> QED BY <2>1, <2>2, <2>3, TornQuiet
<1>4. CASE RmBlob(w)
  <2>1. pc[w] # "idle" /\ row' = row /\ blob' = [blob EXCEPT ![k0] = Absent]
    BY <1>1, <1>4 DEF RmBlob
  <2>2. PICK call \in {"rmCache", "rmRow"} :
           Goto(w, call) /\ (call = "rmCache" => key[w] = Legacy)
    BY <1>4 DEF RmBlob
  <2>3. Alone(w) /\ InHand(w)' /\ pc'[w] = call /\ key' = key
    BY <2>2, GotoInHand
  <2>4. Owing(w)' /\ key'[w] = k0
    BY <1>1, <2>2, <2>3 DEF Owing
  <2>5. \A k \in Keys \ {k0} : row'[k] = row[k] /\ blob'[k] = blob[k]
    BY <2>1 DEF TypeOK
  <2> QED BY <1>1, <2>1, <2>3, <2>4, <2>5, TornAssemble
<1>5. CASE RmRow(w)
  <2>1. pc[w] # "idle" /\ blob' = blob /\ row' = [row EXCEPT ![k0] = Absent]
    BY <1>1, <1>5 DEF RmRow
  <2>2. Alone(w) /\ InHand(w)'
    <3>1. CASE LegacyFallback(w)
      <4>1. pc'[w] = "rmTier" /\ Alone(w)
        BY <1>5, <3>1 DEF RmRow, TypeOK, Alone
      <4> QED BY <4>1 DEF InHand
    <3>2. CASE ~LegacyFallback(w)
      BY <1>5, <3>2, ReturnInHand DEF RmRow
    <3> QED BY <3>1, <3>2
  <2>3. Named(k0)'
    BY <2>1, StorageAssumption DEF Named, TypeOK
  <2>4. \A k \in Keys \ {k0} : row'[k] = row[k] /\ blob'[k] = blob[k]
    BY <2>1 DEF TypeOK
  <2> QED BY <1>1, <2>1, <2>2, <2>3, <2>4, TornAssemble
<1> QED BY <1>2, <1>3, <1>4, <1>5

\* A call that fails: the request returns, and what it owed is torn.
LEMMA FailTorn ==
    ASSUME TypeOK, TornInv, TornNext, NEW w \in Workers, StepFails(w)
    PROVE  TornInv'
<1>1. /\ pc[w] # "idle" /\ pc[w] # "rmCache" /\ UNCHANGED <<row, blob>>
      /\ Alone(w) /\ InHand(w)' /\ pc'[w] = "idle"
  BY ReturnInHand DEF StepFails, shared
<1>2. PICK k0 \in Keys : k0 = key[w]
  BY DEF TypeOK
<1>3. CASE Owing(w)
  <2>1. PutCut(w) \/ RemoveCut(w)
    BY <1>1, <1>3 DEF Owing, PutCut, RemoveCut
  <2>2. k0 \in torn'
    BY <1>1, <1>2, <2>1, TornByStep DEF TornInv
  <2> QED BY <1>1, <1>2, <2>2, TornAssemble
<1>4. CASE ~Owing(w)
  <2>1. ~Rewritten(w)
    BY <1>1 DEF Rewritten, RowPut, Goto, TypeOK
  <2> QED BY <1>1, <1>4, <2>1, TornQuiet
<1> QED BY <1>3, <1>4

\* Every step keeps the invariant, when requests come one at a time and no
\* process dies.
LEMMA TornStep ==
    ASSUME MaxActive = 1, "crash" \notin Faults, IsolationInv, TornInv,
           [TornNext]_<<vars, torn>>
    PROVE  TornInv'
<1>0. TypeOK
  BY DEF IsolationInv
<1>1. ASSUME TornNext, NEW w \in Workers, Begin(w) PROVE TornInv'
  BY <1>0, <1>1, StartTorn
<1>2. ASSUME TornNext, NEW w \in Workers, Step(w) \/ StreamCut(w) \/ StepFails(w) PROVE TornInv'
  BY <1>0, <1>2, LookupTorn, OpenTorn, DropTorn, WriteTorn, RemoveTorn, FailTorn DEF Step
<1>3. ASSUME TornNext, Deliver \/ Lose \/ Evict PROVE TornInv'
  <2>1. UNCHANGED <<row, blob, pc, op, key, meta, data>>
    BY <1>3 DEF Deliver, Lose, Evict, request
  <2>2. \A w \in Workers : ~Rewritten(w)
    BY <1>0, <2>1 DEF Rewritten, RowPut, Goto, TypeOK
  <2>3. {key[v] : v \in {u \in Workers : Rewritten(u)}} = {}
    BY <2>2
  <2>4. torn \subseteq torn'
    BY <1>3, <2>3 DEF TornNext
  <2>5. NamedOrOwed'
    BY <2>1, <2>4 DEF TornInv, NamedOrOwed, Named, Owing
  <2>6. OneAtATime' /\ \A w \in Workers : InHand(w)'
    BY <2>1 DEF TornInv, OneAtATime, InHand
  <2> QED BY <2>5, <2>6 DEF TornInv
<1>4. CASE UNCHANGED <<vars, torn>>
  BY <1>4 DEF vars, TornInv, OneAtATime, NamedOrOwed, Named, Owing, InHand
<1> QED BY <1>1, <1>2, <1>3, <1>4 DEF TornNext, Next, Crash

\* The history variable takes nothing from LocalStorage.
LEMMA TornIsLocalStorage == TornSpec => Spec
<1>1. [TornNext]_<<vars, torn>> => [Next]_vars
  BY DEF TornNext
<1> QED BY <1>1, PTL DEF TornSpec, Spec

\* Requests one at a time, on any number of replicas, with or without a tier,
\* failing at any call and losing any message: when none is in progress a row
\* means that its bytes are stored, and a digest in it is theirs, except
\* under a key whose last request was cut short or wrote back a stale row.  A
\* process that dies between the bytes and the row takes the promise away.
THEOREM RowsNameBlobs ==
    ASSUME MaxActive = 1, "crash" \notin Faults
    PROVE  TornSpec => []RowNamesBlob
<1>1. Init /\ torn = {} => TornInv
  BY StorageAssumption DEF Init, TornInv, OneAtATime, NamedOrOwed, Named, InHand
<1>2. IsolationInv /\ TornInv /\ [TornNext]_<<vars, torn>> => TornInv'
  BY TornStep
<1>3. TornInv => RowNamesBlob
  BY DEF TornInv, NamedOrOwed, Owing, RowNamesBlob, Settled
<1> QED BY <1>1, <1>2, <1>3, IsolationInvariant, TornIsLocalStorage, PTL DEF TornSpec

=============================================================================
