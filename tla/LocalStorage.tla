---------------------------- MODULE LocalStorage ----------------------------
(***************************************************************************)
(* storage.LocalStorage on several replicas: one logical path of one       *)
(* repository, stored once in a shared blob store with a shared metadata   *)
(* row, and cached on every replica in a MetadataCache and a DiskTier.     *)
(*                                                                         *)
(* Nothing in storage.go locks across calls, so a request is a sequence of *)
(* steps, each one call to the blob store, the metadata store, the         *)
(* metadata cache or the tier, and steps of different requests interleave  *)
(* freely.  A piece of content is its digest.  A metadata row is what the  *)
(* code tells rows apart by: the SHA256 it records, or Unhashed for a row  *)
(* written before Put recorded one.                                        *)
(***************************************************************************)
EXTENDS Integers, FiniteSets

CONSTANTS
    Replicas,     \* processes sharing the blob store and the metadata store
    Slots,        \* requests a replica may serve at the same time
    Orgs,         \* tenants; OrgFromContext of a request
    DefaultOrg,   \* tenancy.DefaultOrgID
    Legacy,       \* BlobPath: the pre-tenancy key of the path
    Digests,      \* contents that may be stored
    Absent,       \* no blob, no row, no cache entry
    Unhashed,     \* a row whose SHA256 is ""
    HasTier,      \* whether SetDiskTier was given a tier
    Faults,       \* which of "error", "crash", "loss", "evict", "evictTier" may happen
    MaxActive,    \* bound: requests in progress at the same time
    MaxWrites     \* bound: Put and Remove calls

ASSUME StorageAssumption ==
    /\ DefaultOrg \in Orgs
    /\ Legacy \notin Orgs
    /\ Absent \notin Digests
    /\ Unhashed \notin Digests
    /\ Absent # Unhashed
    /\ HasTier \in BOOLEAN
    /\ Faults \subseteq {"error", "crash", "loss", "evict", "evictTier"}
    /\ MaxActive \in Nat
    /\ MaxWrites \in Nat

Workers == Replicas \X Slots

\* The blob keys of the path: BlobPathForOrg(org) is the org itself.
Keys == Orgs \cup {Legacy}

Rows == Digests \cup {Unhashed}

VARIABLES
    blob,       \* blob[k]: the bytes in the blob store
    row,        \* row[k]: the row in the metadata store
    metaCache,  \* metaCache[r][k]: MetadataCache.entries
    tier,       \* tier[r][k]: digests of the tier's copies of blob k
    bus,        \* invalidations published and not yet delivered: <<to, key>>
    pc,         \* pc[w]: the next call of the request, or "idle"
    op,         \* op[w]: which request it is
    org,        \* org[w]: the tenant it serves
    key,        \* key[w]: the blob key it is working on
    found,      \* found[w]: the row its lookup read from the metadata store
    meta,       \* meta[w]: the metadata it holds
    data,       \* data[w]: the bytes it holds
    writes,     \* Put and Remove calls so far
    wrote       \* history: wrote[k], every digest ever stored under k

shared == <<blob, row, metaCache, tier, bus>>
request == <<pc, op, org, key, found, meta, data>>
vars == <<blob, row, metaCache, tier, bus, pc, op, org, key, found, meta, data, writes, wrote>>

Home(w) == w[1]

Calls == {"idle", "cacheGet", "rowGet", "cacheFill", "tierOpen", "blobOpen", "stream",
          "learnGet", "learnPut", "learnCache",
          "dropCache", "dropTier", "dropRow",
          "blobWrite", "rowPut", "cachePut", "tierCommit",
          "rmCache", "rmTier", "rmBlob", "rmRow"}

Ops == {"none", "get", "put", "refresh", "update", "remove"}

TypeOK ==
    /\ blob \in [Keys -> Digests \cup {Absent}]
    /\ row \in [Keys -> Rows \cup {Absent}]
    /\ metaCache \in [Replicas -> [Keys -> Rows \cup {Absent}]]
    /\ tier \in [Replicas -> [Keys -> SUBSET Digests]]
    /\ bus \subseteq Replicas \X Keys
    /\ pc \in [Workers -> Calls]
    /\ op \in [Workers -> Ops]
    /\ org \in [Workers -> Orgs]
    /\ key \in [Workers -> Keys]
    /\ found \in [Workers -> Rows \cup {Absent}]
    /\ meta \in [Workers -> Rows \cup {Absent}]
    /\ data \in [Workers -> Digests \cup {Absent}]
    /\ writes \in 0..MaxWrites
    /\ wrote \in [Keys -> SUBSET Digests]

\* Each key is empty or holds a blob, stored before or after Put recorded
\* digests; the replicas have just started.
Init ==
    /\ blob \in [Keys -> Digests \cup {Absent}]
    /\ row \in [Keys -> Rows \cup {Absent}]
    /\ \A k \in Keys : row[k] \in IF blob[k] = Absent THEN {Absent} ELSE {Unhashed, blob[k]}
    /\ metaCache = [r \in Replicas |-> [k \in Keys |-> Absent]]
    /\ tier = [r \in Replicas |-> [k \in Keys |-> {}]]
    /\ bus = {}
    /\ pc = [w \in Workers |-> "idle"]
    /\ op = [w \in Workers |-> "none"]
    /\ org = [w \in Workers |-> DefaultOrg]
    /\ key = [w \in Workers |-> DefaultOrg]
    /\ found = [w \in Workers |-> Absent]
    /\ meta = [w \in Workers |-> Absent]
    /\ data = [w \in Workers |-> Absent]
    /\ writes = 0
    /\ wrote = [k \in Keys |-> {blob[k]} \ {Absent}]

-----------------------------------------------------------------------------
(* Shared pieces of the steps. *)

\* publishMetadataInvalidation: peers only, receivers drop their own echo.
Published(r, k) == bus \cup {<<p, k>> : p \in Replicas \ {r}}

\* MetadataCache.Put
CachePutAt(r, k, m) ==
    /\ metaCache' = [metaCache EXCEPT ![r][k] = m]
    /\ bus' = Published(r, k)

\* MetadataCache.Invalidate
InvalidateAt(r, k) ==
    /\ metaCache' = [metaCache EXCEPT ![r][k] = Absent]
    /\ bus' = Published(r, k)

\* DiskTier.drop
DropTierAt(r, k) == tier' = [tier EXCEPT ![r][k] = {}]

\* A worker's next call, with the request otherwise as it is.
Goto(w, call) ==
    /\ pc' = [pc EXCEPT ![w] = call]
    /\ UNCHANGED <<op, org, key, found, meta, data>>

\* The request returns.
Return(w) ==
    /\ pc' = [pc EXCEPT ![w] = "idle"]
    /\ op' = [op EXCEPT ![w] = "none"]
    /\ org' = [org EXCEPT ![w] = DefaultOrg]
    /\ key' = [key EXCEPT ![w] = DefaultOrg]
    /\ found' = [found EXCEPT ![w] = Absent]
    /\ meta' = [meta EXCEPT ![w] = Absent]
    /\ data' = [data EXCEPT ![w] = Absent]

\* lookup found metadata m; the request goes on with it.  UpdateMetadata
\* follows the Get of its caller with a lookup of its own, and keeps the
\* caller's digest unless that is empty.
Found(w, m) ==
    /\ meta' = [meta EXCEPT ![w] =
                  IF op[w] = "update" /\ @ # Unhashed THEN @ ELSE m]
    /\ found' = [found EXCEPT ![w] = Absent]
    /\ op' = [op EXCEPT ![w] = IF @ = "refresh" THEN "update" ELSE @]
    /\ pc' = [pc EXCEPT ![w] = IF op[w] = "get" THEN "tierOpen"
                               ELSE IF op[w] = "refresh" THEN "cacheGet"
                               ELSE "rowPut"]
    /\ key' = [key EXCEPT ![w] = IF op[w] = "refresh" THEN org[w] ELSE @]
    /\ UNCHANGED <<org, data>>

-----------------------------------------------------------------------------
(* Requests arrive. *)

Start(w, call, kind, o, d) ==
    /\ pc[w] = "idle"
    /\ Cardinality({v \in Workers : pc[v] # "idle"}) < MaxActive
    /\ pc' = [pc EXCEPT ![w] = call]
    /\ op' = [op EXCEPT ![w] = kind]
    /\ org' = [org EXCEPT ![w] = o]
    /\ key' = [key EXCEPT ![w] = o]
    /\ data' = [data EXCEPT ![w] = d]
    /\ UNCHANGED <<found, meta, shared, wrote>>

\* LocalStorage.Get, then CachedContent.Open and a full read.
StartGet(w, o) == Start(w, "cacheGet", "get", o, Absent) /\ UNCHANGED writes

\* facet.serveRevalidated: Get, then UpdateMetadata with the row it got.
StartRefresh(w) == \E o \in Orgs : Start(w, "cacheGet", "refresh", o, Absent) /\ UNCHANGED writes

StartPut(w) ==
    /\ writes < MaxWrites
    /\ \E o \in Orgs, d \in Digests : Start(w, "blobWrite", "put", o, d)
    /\ writes' = writes + 1

StartRemove(w) ==
    /\ writes < MaxWrites
    /\ \E o \in Orgs : Start(w, "rmCache", "remove", o, Absent)
    /\ writes' = writes + 1

-----------------------------------------------------------------------------
(* lookup and readMeta. *)

CacheGet(w) ==
    /\ pc[w] = "cacheGet"
    /\ LET m == metaCache[Home(w)][key[w]] IN
         IF m = Absent THEN Goto(w, "rowGet") ELSE Found(w, m)
    /\ UNCHANGED <<shared, writes, wrote>>

\* Mutant of LegacyFallback: every tenant falls back to the legacy key.
LegacyFallbackForAll(w) == key[w] # Legacy

\* Only the default org falls back to the pre-tenancy key.
LegacyFallback(w) == org[w] = DefaultOrg /\ key[w] # Legacy

RowGet(w) ==
    /\ pc[w] = "rowGet"
    /\ \/ /\ row[key[w]] # Absent
          /\ found' = [found EXCEPT ![w] = row[key[w]]]
          /\ pc' = [pc EXCEPT ![w] = "cacheFill"]
          /\ UNCHANGED <<op, org, key, meta, data>>
       \/ /\ row[key[w]] = Absent
          /\ LegacyFallback(w)
          /\ key' = [key EXCEPT ![w] = Legacy]
          /\ pc' = [pc EXCEPT ![w] = "cacheGet"]
          /\ UNCHANGED <<op, org, found, meta, data>>
       \/ /\ row[key[w]] = Absent
          /\ ~LegacyFallback(w)
          /\ Return(w)                                   \* ErrNotFound
    /\ UNCHANGED <<shared, writes, wrote>>

CacheFill(w) ==
    /\ pc[w] = "cacheFill"
    /\ CachePutAt(Home(w), key[w], found[w])
    /\ Found(w, found[w])
    /\ UNCHANGED <<blob, row, tier, writes, wrote>>

-----------------------------------------------------------------------------
(* CachedContent.Open and the read of what it returned. *)

TierHit(w) == HasTier /\ meta[w] \in tier[Home(w)][key[w]]

\* A hit serves the tier copy named by the metadata's digest.
TierOpen(w) ==
    /\ pc[w] = "tierOpen"
    /\ IF TierHit(w) THEN Return(w) ELSE Goto(w, "blobOpen")
    /\ UNCHANGED <<shared, writes, wrote>>

BlobOpen(w) ==
    /\ pc[w] = "blobOpen"
    /\ IF blob[key[w]] = Absent
         THEN Goto(w, "dropCache")                       \* onMissing
         ELSE /\ data' = [data EXCEPT ![w] = blob[key[w]]]
              /\ pc' = [pc EXCEPT ![w] = "stream"]
              /\ UNCHANGED <<op, org, key, found, meta>>
    /\ UNCHANGED <<shared, writes, wrote>>

\* Mutant of CommitAt: a copy is filed under the tenant's key, not the blob's.
CommitUnderOrg(w) == tier' = [tier EXCEPT ![Home(w)][org[w]] = @ \cup {data[w]}]

CommitAt(w) == tier' = [tier EXCEPT ![Home(w)][key[w]] = @ \cup {data[w]}]

\* The bytes are served whole.  fillingReader keeps them if they hash to the
\* row's digest; learn keeps them under their own digest and goes on to
\* record it, unless their length is not the row's.
Stream(w) ==
    /\ pc[w] = "stream"
    /\ \/ /\ HasTier /\ meta[w] = data[w]
          /\ CommitAt(w)
          /\ Return(w)
       \/ /\ HasTier /\ meta[w] = Unhashed
          /\ CommitAt(w)
          /\ Goto(w, "learnGet")
       \/ /\ ~HasTier \/ meta[w] # data[w]
          /\ UNCHANGED tier
          /\ Return(w)
    /\ UNCHANGED <<blob, row, metaCache, bus, writes, wrote>>

\* The client goes away before EOF: fillingReader.Close aborts the fill.
StreamCut(w) ==
    /\ pc[w] = "stream"
    /\ Return(w)
    /\ UNCHANGED <<shared, writes, wrote>>

\* recordSHA reads the row again ...
LearnGet(w) ==
    /\ pc[w] = "learnGet"
    /\ IF row[key[w]] = Unhashed THEN Goto(w, "learnPut") ELSE Return(w)
    /\ UNCHANGED <<shared, writes, wrote>>

\* ... and writes it back with the digest.
LearnPut(w) ==
    /\ pc[w] = "learnPut"
    /\ row' = [row EXCEPT ![key[w]] = data[w]]
    /\ Goto(w, "learnCache")
    /\ UNCHANGED <<blob, metaCache, tier, bus, writes, wrote>>

LearnCache(w) ==
    /\ pc[w] = "learnCache"
    /\ CachePutAt(Home(w), key[w], data[w])
    /\ Return(w)
    /\ UNCHANGED <<blob, row, tier, writes, wrote>>

(* dropMeta, from Open on a missing blob. *)

DropCache(w) ==
    /\ pc[w] = "dropCache"
    /\ InvalidateAt(Home(w), key[w])
    /\ Goto(w, "dropTier")
    /\ UNCHANGED <<blob, row, tier, writes, wrote>>

DropTier(w) ==
    /\ pc[w] = "dropTier"
    /\ DropTierAt(Home(w), key[w])
    /\ Goto(w, "dropRow")
    /\ UNCHANGED <<blob, row, metaCache, bus, writes, wrote>>

\* Mutant of DropRow: dropMeta leaves the row.
DropRowKeepsRow(w) ==
    /\ pc[w] = "dropRow"
    /\ Return(w)
    /\ UNCHANGED <<shared, writes, wrote>>

DropRow(w) ==
    /\ pc[w] = "dropRow"
    /\ row' = [row EXCEPT ![key[w]] = Absent]
    /\ Return(w)
    /\ UNCHANGED <<blob, metaCache, tier, bus, writes, wrote>>

-----------------------------------------------------------------------------
(* put and UpdateMetadata. *)

BlobWrite(w) ==
    /\ pc[w] = "blobWrite"
    /\ blob' = [blob EXCEPT ![key[w]] = data[w]]
    /\ wrote' = [wrote EXCEPT ![key[w]] = @ \cup {data[w]}]
    /\ meta' = [meta EXCEPT ![w] = data[w]]
    /\ pc' = [pc EXCEPT ![w] = "rowPut"]
    /\ UNCHANGED <<row, metaCache, tier, bus, op, org, key, found, data, writes>>

\* Mutant of RowPut: a row that is there already is kept.
RowPutInserts(w) ==
    /\ pc[w] = "rowPut"
    /\ row' = [row EXCEPT ![key[w]] = IF @ = Absent THEN meta[w] ELSE @]
    /\ Goto(w, "cachePut")
    /\ UNCHANGED <<blob, metaCache, tier, bus, writes, wrote>>

RowPut(w) ==
    /\ pc[w] = "rowPut"
    /\ row' = [row EXCEPT ![key[w]] = meta[w]]
    /\ Goto(w, "cachePut")
    /\ UNCHANGED <<blob, metaCache, tier, bus, writes, wrote>>

\* Mutant of CachePut: put leaves the metadata cache to the next reader.
PutSkipsCache(w) ==
    /\ pc[w] = "cachePut"
    /\ IF op[w] = "put" /\ HasTier THEN Goto(w, "tierCommit") ELSE Return(w)
    /\ UNCHANGED <<shared, writes, wrote>>

CachePut(w) ==
    /\ pc[w] = "cachePut"
    /\ CachePutAt(Home(w), key[w], meta[w])
    /\ IF op[w] = "put" /\ HasTier THEN Goto(w, "tierCommit") ELSE Return(w)
    /\ UNCHANGED <<blob, row, tier, writes, wrote>>

TierCommit(w) ==
    /\ pc[w] = "tierCommit"
    /\ CommitAt(w)
    /\ Return(w)
    /\ UNCHANGED <<blob, row, metaCache, bus, writes, wrote>>

-----------------------------------------------------------------------------
(* Remove: the org's key first; for the default org the legacy key after it,
   with the cache entry dropped after the blob instead of before the tier. *)

RmCache(w) ==
    /\ pc[w] = "rmCache"
    /\ InvalidateAt(Home(w), key[w])
    /\ Goto(w, IF key[w] = Legacy THEN "rmRow" ELSE "rmTier")
    /\ UNCHANGED <<blob, row, tier, writes, wrote>>

RmTier(w) ==
    /\ pc[w] = "rmTier"
    /\ DropTierAt(Home(w), key[w])
    /\ Goto(w, "rmBlob")
    /\ UNCHANGED <<blob, row, metaCache, bus, writes, wrote>>

RmBlob(w) ==
    /\ pc[w] = "rmBlob"
    /\ blob' = [blob EXCEPT ![key[w]] = Absent]
    /\ Goto(w, IF key[w] = Legacy THEN "rmCache" ELSE "rmRow")
    /\ UNCHANGED <<row, metaCache, tier, bus, writes, wrote>>

RmRow(w) ==
    /\ pc[w] = "rmRow"
    /\ row' = [row EXCEPT ![key[w]] = Absent]
    /\ IF LegacyFallback(w)
         THEN /\ key' = [key EXCEPT ![w] = Legacy]
              /\ pc' = [pc EXCEPT ![w] = "rmTier"]
              /\ UNCHANGED <<op, org, found, meta, data>>
         ELSE Return(w)
    /\ UNCHANGED <<blob, metaCache, tier, bus, writes, wrote>>

-----------------------------------------------------------------------------
(* The bus, eviction and faults. *)

\* applyMetadataInvalidation on a peer.
Deliver ==
    /\ \E msg \in bus :
         /\ metaCache' = [metaCache EXCEPT ![msg[1]][msg[2]] = Absent]
         /\ bus' = bus \ {msg}
    /\ UNCHANGED <<blob, row, tier, request, writes, wrote>>

\* Publish failed, the subscriber was reconnecting, or its buffer was full.
Lose ==
    /\ "loss" \in Faults
    /\ \E msg \in bus : bus' = bus \ {msg}
    /\ UNCHANGED <<blob, row, metaCache, tier, request, writes, wrote>>

\* MetadataCache.evictLocked and DiskTier.evictLocked make room for others.
Evict ==
    /\ \E r \in Replicas, k \in Keys :
         \/ /\ "evict" \in Faults
            /\ metaCache[r][k] # Absent
            /\ metaCache' = [metaCache EXCEPT ![r][k] = Absent]
            /\ UNCHANGED tier
         \/ /\ "evictTier" \in Faults
            /\ \E d \in tier[r][k] : tier' = [tier EXCEPT ![r][k] = @ \ {d}]
            /\ UNCHANGED metaCache
    /\ UNCHANGED <<blob, row, bus, request, writes, wrote>>

\* A call to the blob store or to the metadata store fails and the request
\* returns the error.  dropMeta ignores the error of its one such call.
StepFails(w) ==
    /\ "error" \in Faults
    /\ pc[w] \in {"rowGet", "blobOpen", "learnGet", "learnPut", "dropRow",
                  "blobWrite", "rowPut", "rmBlob", "rmRow"}
    /\ Return(w)
    /\ UNCHANGED <<shared, writes, wrote>>

\* The process dies and restarts: the memory of the replica is gone, its
\* tier files and everything shared stay.
Crash(r) ==
    /\ "crash" \in Faults
    /\ metaCache' = [metaCache EXCEPT ![r] = [k \in Keys |-> Absent]]
    /\ bus' = {msg \in bus : msg[1] # r}
    /\ pc' = [w \in Workers |-> IF Home(w) = r THEN "idle" ELSE pc[w]]
    /\ op' = [w \in Workers |-> IF Home(w) = r THEN "none" ELSE op[w]]
    /\ org' = [w \in Workers |-> IF Home(w) = r THEN DefaultOrg ELSE org[w]]
    /\ key' = [w \in Workers |-> IF Home(w) = r THEN DefaultOrg ELSE key[w]]
    /\ found' = [w \in Workers |-> IF Home(w) = r THEN Absent ELSE found[w]]
    /\ meta' = [w \in Workers |-> IF Home(w) = r THEN Absent ELSE meta[w]]
    /\ data' = [w \in Workers |-> IF Home(w) = r THEN Absent ELSE data[w]]
    /\ UNCHANGED <<blob, row, tier, writes, wrote>>

\* A request in progress makes its next call.
Step(w) ==
    \/ CacheGet(w) \/ RowGet(w) \/ CacheFill(w)
    \/ TierOpen(w) \/ BlobOpen(w) \/ Stream(w)
    \/ LearnGet(w) \/ LearnPut(w) \/ LearnCache(w)
    \/ DropCache(w) \/ DropTier(w) \/ DropRow(w)
    \/ BlobWrite(w) \/ RowPut(w) \/ CachePut(w) \/ TierCommit(w)
    \/ RmCache(w) \/ RmTier(w) \/ RmBlob(w) \/ RmRow(w)

Begin(w) ==
    \/ \E o \in Orgs : StartGet(w, o)
    \/ StartRefresh(w) \/ StartPut(w) \/ StartRemove(w)

Next ==
    \/ \E w \in Workers : Begin(w) \/ Step(w) \/ StreamCut(w) \/ StepFails(w)
    \/ \E r \in Replicas : Crash(r)
    \/ Deliver \/ Lose \/ Evict

Spec == Init /\ [][Next]_vars

\* Every request runs to its end, every message in flight is delivered
\* unless it is lost, and clients of every tenant keep asking every replica.
\* Strong fairness of StartGet: MaxActive, a bound of the model, may keep
\* disabling a request the real server would accept.
Fairness ==
    /\ \A w \in Workers : WF_vars(Step(w))
    /\ WF_vars(Deliver)
    /\ \A w \in Workers, o \in Orgs : SF_vars(StartGet(w, o))

FairSpec == Spec /\ Fairness

-----------------------------------------------------------------------------
\* What a worker is about to hand to its client.
Serving(w) ==
    CASE pc[w] = "tierOpen" /\ TierHit(w) -> {meta[w]}
      [] pc[w] = "stream"                 -> {data[w]}
      [] OTHER                            -> {}

\* The keys a tenant may read: its own, and for the default org the legacy one.
KeysOf(o) == IF o = DefaultOrg THEN {o, Legacy} ELSE {o}

\* "No content is shared across tenants" (disktier.go, DiskTier): whatever
\* races, fails, crashes or gets lost, a request is only ever served bytes
\* that were stored under a key of its own tenant, from the blob store and
\* from the tier alike.
TenantIsolation ==
    \A w \in Workers : Serving(w) \subseteq UNION {wrote[k] : k \in KeysOf(org[w])}

(* The inductive strengthening of TenantIsolation. *)

\* Requests that hold no bytes yet; only these change keys.
EmptyHanded == {"idle", "cacheGet", "rowGet", "cacheFill", "tierOpen", "blobOpen",
                "rmCache", "rmTier", "rmBlob", "rmRow"}

KeyOfOrg == \A w \in Workers : key[w] \in KeysOf(org[w])

BytesWereWritten ==
    /\ \A k \in Keys : blob[k] # Absent => blob[k] \in wrote[k]
    /\ \A r \in Replicas, k \in Keys : tier[r][k] \subseteq wrote[k]
    /\ \A w \in Workers :
         /\ pc[w] \in EmptyHanded => data[w] = Absent
         /\ pc[w] # "blobWrite" /\ data[w] # Absent => data[w] \in wrote[key[w]]
         /\ pc[w] \in {"stream", "blobWrite", "tierCommit", "learnGet", "learnPut",
                       "learnCache"} => data[w] # Absent
         /\ op[w] = "put" => data[w] # Absent

IsolationInv == TypeOK /\ KeyOfOrg /\ BytesWereWritten

\* No request in progress and no invalidation in flight.
Settled == bus = {} /\ \A w \in Workers : pc[w] = "idle"

\* Requests one at a time: once the bus is drained no replica caches a row
\* other than the one stored, whichever calls failed on the way.
CacheCoherent ==
    Settled => \A r \in Replicas, k \in Keys : metaCache[r][k] \in {Absent, row[k]}

(* The inductive strengthening of CacheCoherent. *)

OneAtATime == \A v, w \in Workers : pc[v] # "idle" /\ pc[w] # "idle" => v = w

\* What a request is about to cache is the row that is stored.
CachesStored ==
    \A w \in Workers :
      /\ pc[w] = "cacheFill" => found[w] = row[key[w]]
      /\ pc[w] = "cachePut" => meta[w] = row[key[w]]
      /\ pc[w] = "learnCache" => data[w] = row[key[w]]

\* A replica with another row is about to be told, or the request that wrote
\* the row is about to publish it.
Told(r, k) == metaCache[r][k] \in {Absent, row[k]} \/ <<r, k>> \in bus

Publishing(w) == pc[w] \in {"cachePut", "learnCache"}

StaleIsTold ==
    \A r \in Replicas, k \in Keys :
      Told(r, k) \/ \E w \in Workers : key[w] = k /\ Publishing(w)

\* A request that has invalidated a key and may yet delete its row.
Deleting(w) == \/ pc[w] \in {"dropTier", "dropRow", "rmRow"}
               \/ pc[w] \in {"rmTier", "rmBlob"} /\ key[w] # Legacy

DeletedIsTold ==
    \A w \in Workers, r \in Replicas :
      Deleting(w) => metaCache[r][key[w]] = Absent \/ <<r, key[w]>> \in bus

CoherenceInv == OneAtATime /\ CachesStored /\ StaleIsTold /\ DeletedIsTold

\* LocalStorage.Get: "If the bytes turn out to be gone anyway,
\* CachedContent.Open drops the row so the next request refetches."  A row or
\* a cached row without its blob does not outlive the requests that meet it.
GhostsHeal ==
    \A o \in Orgs :
      /\ row[o] # Absent /\ blob[o] = Absent ~> row[o] = Absent \/ blob[o] # Absent
      /\ \A r \in Replicas :
           metaCache[r][o] # Absent /\ blob[o] = Absent
             ~> metaCache[r][o] = Absent \/ blob[o] # Absent

\* DiskTier: a copy is served "only while the metadata row still names the
\* same bytes".  Once a path is removed and everything is quiet, no replica
\* still holds the cached row and the tier copy that serve it.  The code does
\* not guarantee it and no run lists it: README, section 5.
RemovedIsGone ==
    Settled => \A r \in Replicas, k \in Keys :
                 row[k] = Absent /\ blob[k] = Absent
                   => metaCache[r][k] \notin tier[r][k]

\* UpdateMetadata: "The bytes did not change, so neither did their digest" --
\* the digest it writes back is the stored blob's.  The code does not
\* guarantee it and no run lists it: README, section 5.
UpdateKeepsDigest ==
    [][\A w \in Workers :
          op[w] = "update" /\ pc[w] = "rowPut" /\ pc'[w] = "cachePut"
            => meta[w] \in {Unhashed, blob[key[w]]}]_vars

=============================================================================
