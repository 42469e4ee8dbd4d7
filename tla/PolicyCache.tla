----------------------------- MODULE PolicyCache -----------------------------
(***************************************************************************)
(* The policy caches of one org on several replicas.                       *)
(*                                                                         *)
(* policy.CachedStore keeps a snapshot of the policy list per replica,     *)
(* loaded outside its lock by one caller per generation; policy.Evaluator  *)
(* keeps the verdicts it computed, and the meta of the policy set that     *)
(* decides the shape of their keys.  An edit commits to the database, then *)
(* flushes both caches of its own replica and tells the others over a bus  *)
(* that may lose messages.  Entries also expire.                           *)
(*                                                                         *)
(* The policy sets an org goes through are fixed at the start in script,   *)
(* so a policy list is the number of the edit that made it.  Requests are  *)
(* for one package coordinate by different clients, so a cache key is Flat *)
(* or, in a scoped org, the client.  A behaviour has requests of one kind, *)
(* op: neither kind touches the state of the other.                        *)
(***************************************************************************)
EXTENDS PolicyEvaluator

CONSTANTS
    Replicas,     \* processes sharing the policy database
    Slots,        \* requests a replica serves at the same time
    Clients,      \* requesters with different scope identities
    Scripts,      \* the policy sets an org may go through, by edit
    Today,        \* the facts about the package and the moment
    Lists,        \* policy sets and
    FactSets,     \* facts on which DeniesByRank is checked
    Ops,          \* which of "list" and "evaluate" requests may ask for
    Faults,       \* which of "loss", "error" may happen
    None,         \* no entry
    Flat,         \* the four-field cache key
    MaxEdits,     \* bound: policy edits
    MaxFlushes    \* bound: generations up to which InvalidateAll is called

Versions == 0..MaxEdits

ASSUME PolicyAssumption ==
    /\ None \notin Nat
    /\ None \notin Clients
    /\ Flat \notin Clients \cup {None}
    /\ Ops \subseteq {"list", "evaluate"}
    /\ Faults \subseteq {"loss", "error"}
    /\ \A s \in Scripts : /\ DOMAIN s = Versions
                          /\ \A v \in Versions : IsPolicyList(s[v])
    /\ \A P \in Lists : IsPolicyList(P)
    /\ Today \in Facts
    /\ MaxEdits \in Nat
    /\ MaxFlushes \in Nat

Workers == Replicas \X Slots
Home(w) == w[1]
CacheKeys == Clients \cup {Flat}

VARIABLES
    script,    \* script[v]: the policy set after edit v
    op,        \* what requests ask for: "list" or "evaluate"
    db,        \* edits committed so far
    admin,     \* admin[r]: what the edit handler of r does next
    inbox,     \* inbox[r]: what the bus callbacks running on r do next
    bus,       \* replicas with an invalidation on its way
    snap,      \* snap[r]: CachedStore.cache, the version held or None
    gen,       \* gen[r]: CachedStore.gen + allGen
    flushed,   \* history: db when r last invalidated its snapshot
    verdicts,  \* verdicts[r][k]: evalCache.entries
    meta,      \* meta[r]: Evaluator.meta, None when not metaLoaded
    pc,        \* pc[w]: its next step, or "idle"
    client,    \* client[w]: who asks
    key,       \* key[w]: the cache key, None when not keyable
    myGen,     \* myGen[w]: the generation its load belongs to
    floor,     \* history: flushed of its replica when the request came in
    seen,      \* seen[w]: the version it listed, None before that
    verdict    \* verdict[w]: the verdict it returns

snapshots == <<snap, gen, flushed>>
evaluator == <<verdicts, meta>>
invalidation == <<admin, inbox, bus>>
request == <<pc, client, key, myGen, floor, seen, verdict>>
vars == <<script, op, db, invalidation, snapshots, evaluator, request>>

Stages == {"idle", "snapshot", "publish", "verdicts", "meta"}

\* A list request that has not been answered yet.
Listing == {"look", "do", "wait", "load", "keep"}

\* An evaluation that has not been answered yet.
Evaluating == {"meta", "coldList", "coldMeta", "get", "list", "storeMeta", "put"}

Steps == Listing \cup Evaluating \cup {"idle", "done"}

Evaluated(v, c) == evaluatePolicies(script[v], c, Today)

Answers == [action : Modes, policy : Nat]

TypeOK ==
    /\ script \in Scripts
    /\ db \in Versions
    /\ admin \in [Replicas -> Stages]
    /\ inbox \in [Replicas -> SUBSET {"verdicts", "meta"}]
    /\ bus \subseteq Replicas
    /\ snap \in [Replicas -> Versions \cup {None}]
    /\ gen \in [Replicas -> Nat]
    /\ flushed \in [Replicas -> Versions]
    /\ verdicts \in [Replicas -> [CacheKeys -> Answers \cup {None}]]
    /\ meta \in [Replicas -> (SUBSET {"scoped", "grace"}) \cup {None}]
    /\ op \in {"list", "evaluate"}
    /\ pc \in [Workers -> Steps]
    /\ client \in [Workers -> Clients \cup {None}]
    /\ key \in [Workers -> CacheKeys \cup {None}]
    /\ myGen \in [Workers -> Nat]
    /\ floor \in [Workers -> Versions]
    /\ seen \in [Workers -> Versions \cup {None}]
    /\ verdict \in [Workers -> Answers \cup {None}]

Init ==
    /\ script \in Scripts
    /\ db = 0
    /\ admin = [r \in Replicas |-> "idle"]
    /\ inbox = [r \in Replicas |-> {}]
    /\ bus = {}
    /\ snap = [r \in Replicas |-> None]
    /\ gen = [r \in Replicas |-> 0]
    /\ flushed = [r \in Replicas |-> 0]
    /\ verdicts = [r \in Replicas |-> [k \in CacheKeys |-> None]]
    /\ meta = [r \in Replicas |-> None]
    /\ op \in Ops
    /\ pc = [w \in Workers |-> "idle"]
    /\ client = [w \in Workers |-> None]
    /\ key = [w \in Workers |-> None]
    /\ myGen = [w \in Workers |-> 0]
    /\ floor = [w \in Workers |-> 0]
    /\ seen = [w \in Workers |-> None]
    /\ verdict = [w \in Workers |-> None]

-----------------------------------------------------------------------------
(* Edits and invalidation. *)

\* CachedStore.localInvalidate
localInvalidate(r) ==
    /\ snap' = [snap EXCEPT ![r] = None]
    /\ gen' = [gen EXCEPT ![r] = @ + 1]
    /\ flushed' = [flushed EXCEPT ![r] = db]

\* A policy edit commits; its handler goes on to invalidate.
Edit(r) ==
    /\ admin[r] = "idle" /\ db < MaxEdits
    /\ db' = db + 1
    /\ admin' = [admin EXCEPT ![r] = "snapshot"]
    /\ UNCHANGED <<script, op, inbox, bus, snapshots, evaluator, request>>

\* CachedStore.Invalidate on the replica that made the edit ...
AdminInvalidate(r) ==
    /\ admin[r] = "snapshot"
    /\ admin' = [admin EXCEPT ![r] = "publish"]
    /\ localInvalidate(r)
    /\ UNCHANGED <<script, op, db, inbox, bus, evaluator, request>>

\* ... then publishes, and a failure to publish is only logged.  Postgres
\* notifies the publisher too.
AdminPublish(r) ==
    /\ admin[r] = "publish"
    /\ admin' = [admin EXCEPT ![r] = "verdicts"]
    /\ \/ bus' = Replicas
       \/ "loss" \in Faults /\ UNCHANGED bus
    /\ UNCHANGED <<script, op, db, inbox, snapshots, evaluator, request>>

\* The callback of the bus runs localInvalidate and then, one after the
\* other, the two halves of InvalidateCacheForOrg.
Deliver(r) ==
    /\ r \in bus
    /\ bus' = bus \ {r}
    /\ inbox' = [inbox EXCEPT ![r] = @ \cup {"verdicts"}]
    /\ localInvalidate(r)
    /\ UNCHANGED <<script, op, db, admin, evaluator, request>>

\* A listener that is reconnecting hears nothing.
Lose(r) ==
    /\ "loss" \in Faults /\ r \in bus
    /\ bus' = bus \ {r}
    /\ UNCHANGED <<script, op, db, admin, inbox, snapshots, evaluator, request>>

\* evalCache.InvalidateOrg
DropVerdicts(r) ==
    /\ \/ /\ admin[r] = "verdicts"
          /\ admin' = [admin EXCEPT ![r] = "meta"]
          /\ UNCHANGED inbox
       \/ /\ "verdicts" \in inbox[r]
          /\ inbox' = [inbox EXCEPT ![r] = (@ \ {"verdicts"}) \cup {"meta"}]
          /\ UNCHANGED admin
    /\ verdicts' = [verdicts EXCEPT ![r] = [k \in CacheKeys |-> None]]
    /\ UNCHANGED <<script, op, db, bus, snapshots, meta, request>>

\* Evaluator.resetMeta
resetMeta(r) ==
    /\ \/ /\ admin[r] = "meta"
          /\ admin' = [admin EXCEPT ![r] = "idle"]
          /\ UNCHANGED inbox
       \/ /\ "meta" \in inbox[r]
          /\ inbox' = [inbox EXCEPT ![r] = @ \ {"meta"}]
          /\ UNCHANGED admin
    /\ meta' = [meta EXCEPT ![r] = None]
    /\ UNCHANGED <<script, op, db, bus, snapshots, verdicts, request>>

\* CachedStore.InvalidateAll: local only, nothing is published.
InvalidateAll(r) ==
    /\ op = "list" /\ gen[r] < MaxFlushes
    /\ localInvalidate(r)
    /\ UNCHANGED <<script, op, db, invalidation, evaluator, request>>

\* Entries older than their TTL are as good as gone.
SnapshotExpires(r) ==
    /\ snap[r] # None
    /\ snap' = [snap EXCEPT ![r] = None]
    /\ UNCHANGED <<script, op, db, invalidation, gen, flushed, evaluator, request>>

\* A mutant: Get does not look at expiresAt.
VerdictLivesOn(r, k) == FALSE

VerdictExpires(r, k) ==
    /\ verdicts[r][k] # None
    /\ verdicts' = [verdicts EXCEPT ![r][k] = None]
    /\ UNCHANGED <<script, op, db, invalidation, snapshots, meta, request>>

-----------------------------------------------------------------------------
(* CachedStore.ListPolicies. *)

Goto(w, step) == pc' = [pc EXCEPT ![w] = step]

StartList(w) ==
    /\ op = "list" /\ pc[w] = "idle"
    /\ Goto(w, "look")
    /\ floor' = [floor EXCEPT ![w] = flushed[Home(w)]]
    /\ UNCHANGED <<script, op, db, invalidation, snapshots, evaluator,
                   client, key, myGen, seen, verdict>>

\* Under the read lock: a live entry is returned, otherwise the generation
\* is noted.
Look(w) ==
    /\ pc[w] = "look"
    /\ IF snap[Home(w)] # None
       THEN /\ Goto(w, "done")
            /\ seen' = [seen EXCEPT ![w] = snap[Home(w)]]
            /\ UNCHANGED myGen
       ELSE /\ Goto(w, "do")
            /\ myGen' = [myGen EXCEPT ![w] = gen[Home(w)]]
            /\ UNCHANGED seen
    /\ UNCHANGED <<script, op, db, invalidation, snapshots, evaluator,
                   client, key, floor, verdict>>

\* Mutants: callers of every generation share one load; a load is kept
\* whatever happened while it ran.
AnyFlight(w, l) == Home(l) = Home(w)
KeepAnyway(w) == TRUE

\* The key of the load: org and generation.
SameFlight(w, l) == Home(l) = Home(w) /\ myGen[l] = myGen[w]

\* loads.Do: join the load of this generation, or start it.
Do(w) ==
    /\ pc[w] = "do"
    /\ Goto(w, IF \E l \in Workers : pc[l] \in {"load", "keep"} /\ SameFlight(w, l)
               THEN "wait" ELSE "load")
    /\ UNCHANGED <<script, op, db, invalidation, snapshots, evaluator,
                   client, key, myGen, floor, seen, verdict>>

\* Store.List
Load(w) ==
    /\ pc[w] = "load"
    /\ Goto(w, "keep")
    /\ seen' = [seen EXCEPT ![w] = db]
    /\ UNCHANGED <<script, op, db, invalidation, snapshots, evaluator,
                   client, key, myGen, floor, verdict>>

\* "A load caches its result only if no Invalidate happened while it ran."
StillCurrent(w) == myGen[w] = gen[Home(w)]

\* The callers that share the load of l.
Flight(l) == {w \in Workers : pc[w] = "wait" /\ SameFlight(w, l)} \cup {l}

\* The end of the load, for the caller that ran it and those that joined.
Keep(l) ==
    /\ pc[l] = "keep"
    /\ snap' = IF StillCurrent(l) THEN [snap EXCEPT ![Home(l)] = seen[l]] ELSE snap
    /\ pc' = [w \in Workers |-> IF w \in Flight(l) THEN "done" ELSE pc[w]]
    /\ seen' = [w \in Workers |-> IF w \in Flight(l) THEN seen[l] ELSE seen[w]]
    /\ UNCHANGED <<script, op, db, invalidation, gen, flushed, evaluator,
                   client, key, myGen, floor, verdict>>

\* The request is answered and its worker free again.
Reset(S) ==
    /\ pc' = [w \in Workers |-> IF w \in S THEN "idle" ELSE pc[w]]
    /\ client' = [w \in Workers |-> IF w \in S THEN None ELSE client[w]]
    /\ key' = [w \in Workers |-> IF w \in S THEN None ELSE key[w]]
    /\ myGen' = [w \in Workers |-> IF w \in S THEN 0 ELSE myGen[w]]
    /\ floor' = [w \in Workers |-> IF w \in S THEN 0 ELSE floor[w]]
    /\ seen' = [w \in Workers |-> IF w \in S THEN None ELSE seen[w]]
    /\ verdict' = [w \in Workers |-> IF w \in S THEN None ELSE verdict[w]]
    /\ UNCHANGED <<script, op, db, invalidation, snapshots, evaluator>>

\* A load that fails fails for everyone who joined it.
LoadFails(l) == "error" \in Faults /\ pc[l] = "load" /\ Reset(Flight(l))

-----------------------------------------------------------------------------
(* Evaluator.Evaluate. *)

StartEvaluate(w, c) ==
    /\ op = "evaluate" /\ pc[w] = "idle"
    /\ Goto(w, "meta")
    /\ client' = [client EXCEPT ![w] = c]
    /\ UNCHANGED <<script, op, db, invalidation, snapshots, evaluator,
                   key, myGen, floor, seen, verdict>>

\* evalCacheKeyFor: no key in an org with grace policies, the four fields in
\* an org without scoped ones, and the requester's fingerprint otherwise.
evalCacheKeyFor(c, m) ==
    IF "grace" \in m THEN None ELSE IF "scoped" \in m THEN c ELSE Flat

\* cachedMeta: a warm meta gives the key at once; a cold one needs the list.
\* Without a key nothing is looked up.
CachedMeta(w) ==
    LET m == meta[Home(w)]
    IN  /\ pc[w] = "meta"
        /\ IF m = None
           THEN Goto(w, "coldList") /\ UNCHANGED key
           ELSE /\ key' = [key EXCEPT ![w] = evalCacheKeyFor(client[w], m)]
                /\ Goto(w, IF "grace" \in m THEN "list" ELSE "get")
        /\ UNCHANGED <<script, op, db, invalidation, snapshots, evaluator,
                       client, myGen, floor, seen, verdict>>

\* Evaluator.listPolicies: it reads the database, not the snapshot.
List(w) ==
    /\ \/ pc[w] = "coldList" /\ Goto(w, "coldMeta")
       \/ pc[w] = "list" /\ Goto(w, "storeMeta")
    /\ seen' = [seen EXCEPT ![w] = db]
    /\ UNCHANGED <<script, op, db, invalidation, snapshots, evaluator,
                   client, key, myGen, floor, verdict>>

\* The caller gets an error and evaluates nothing.
ListFails(w) == "error" \in Faults /\ pc[w] \in {"coldList", "list"} /\ Reset({w})

\* storeMeta, with the meta of the list just read.  On the cold path the key
\* follows from it; on the warm path the key stays the one looked up.
StoreMeta(w) ==
    LET m == computePolicyMeta(script[seen[w]])
    IN  /\ \/ /\ pc[w] = "coldMeta"
              /\ key' = [key EXCEPT ![w] = evalCacheKeyFor(client[w], m)]
              /\ Goto(w, IF "grace" \in m THEN "put" ELSE "get")
           \/ /\ pc[w] = "storeMeta"
              /\ Goto(w, "put")
              /\ UNCHANGED key
        /\ meta' = [meta EXCEPT ![Home(w)] = m]
        /\ UNCHANGED <<script, op, db, invalidation, snapshots, verdicts,
                       client, myGen, floor, seen, verdict>>

\* evalCache.Get
Get(w) ==
    LET v == verdicts[Home(w)][key[w]]
    IN  /\ pc[w] = "get"
        /\ IF v # None
           THEN Goto(w, "done") /\ verdict' = [verdict EXCEPT ![w] = v]
           ELSE Goto(w, IF seen[w] = None THEN "list" ELSE "put") /\ UNCHANGED verdict
        /\ UNCHANGED <<script, op, db, invalidation, snapshots, evaluator,
                       client, key, myGen, floor, seen>>

\* evaluatePolicies on the list, and evalCache.Put of what it says.
Put(w) ==
    LET v == Evaluated(seen[w], client[w])
    IN  /\ pc[w] = "put"
        /\ Goto(w, "done")
        /\ verdict' = [verdict EXCEPT ![w] = v]
        /\ verdicts' = IF key[w] = None THEN verdicts
                       ELSE [verdicts EXCEPT ![Home(w)][key[w]] = v]
        /\ UNCHANGED <<script, op, db, invalidation, snapshots, meta,
                       client, key, myGen, floor, seen>>

Return(w) == pc[w] = "done" /\ Reset({w})

-----------------------------------------------------------------------------
WorkerStep(w) ==
    \/ Look(w) \/ Do(w) \/ Load(w) \/ Keep(w)
    \/ CachedMeta(w) \/ List(w) \/ StoreMeta(w) \/ Get(w) \/ Put(w)
    \/ Return(w)

InvalidationStep(r) ==
    \/ AdminInvalidate(r) \/ AdminPublish(r) \/ Deliver(r)
    \/ DropVerdicts(r) \/ resetMeta(r)

Next ==
    \/ \E w \in Workers :
         \/ StartList(w) \/ (\E c \in Clients : StartEvaluate(w, c))
         \/ WorkerStep(w) \/ LoadFails(w) \/ ListFails(w)
    \/ \E r \in Replicas :
         \/ Edit(r) \/ InvalidationStep(r) \/ Lose(r) \/ InvalidateAll(r)
         \/ SnapshotExpires(r) \/ (\E k \in CacheKeys : VerdictExpires(r, k))

Spec == Init /\ [][Next]_vars

\* Requests and invalidations run to their end, and entries reach their TTL.
\* Nothing makes an administrator or a client act, and no message that may be
\* lost is owed delivery: losing one ends its Deliver.
Fairness ==
    /\ \A w \in Workers : WF_vars(WorkerStep(w))
    /\ \A r \in Replicas :
         /\ WF_vars(InvalidationStep(r))
         /\ WF_vars(SnapshotExpires(r))
         /\ \A k \in CacheKeys : WF_vars(VerdictExpires(r, k))

FairSpec == Spec /\ Fairness

-----------------------------------------------------------------------------
(* The inductive invariant of the list path. *)

\* Nothing is older than the invalidation it follows.
SnapshotOrder ==
    /\ \A r \in Replicas : flushed[r] <= db /\ (snap[r] # None => snap[r] \in flushed[r]..db)
    /\ \A w \in Workers :
         /\ floor[w] <= flushed[Home(w)]
         /\ myGen[w] <= gen[Home(w)]
         /\ seen[w] # None => seen[w] <= db
         /\ pc[w] \in Listing => op = "list"
         /\ pc[w] \in Evaluating => op = "evaluate" /\ client[w] # None
         /\ pc[w] = "get" => key[w] # None
         /\ pc[w] \in {"coldMeta", "storeMeta", "put"} => seen[w] # None
         /\ pc[w] = "keep" => seen[w] # None
         /\ pc[w] = "done" /\ op = "list" => seen[w] # None /\ seen[w] >= floor[w]

\* A load answers every caller of its generation, also one still to join.
LoadsServeTheirGeneration ==
    \A l \in Workers : pc[l] = "keep" =>
      /\ myGen[l] = gen[Home(l)] => seen[l] >= flushed[Home(l)]
      /\ \A w \in Workers : pc[w] \in Listing \ {"look"} /\ SameFlight(w, l)
                               => seen[l] >= floor[w]

\* Types, and the inductive invariant of ListPolicies: what is cached, loaded or
\* answered is no older than the invalidation it follows, and a load that is
\* under way is new enough for everyone who may still join it.
PolicyInv == TypeOK /\ SnapshotOrder /\ LoadsServeTheirGeneration

\* What FreshReads sees of a request.
Phase(w) ==
    IF pc[w] \in Listing THEN "asked"
    ELSE IF op = "list" /\ pc[w] = "done" THEN "told" ELSE "idle"

Fresh == INSTANCE FreshReads WITH
    latest <- db,
    phase  <- [w \in Workers |-> Phase(w)],
    answer <- [w \in Workers |-> IF Phase(w) = "told" THEN seen[w] ELSE None]

\* CachedStore: "callers that arrive after an Invalidate start a new load
\* instead of joining one that began before it".  Whatever loads, edits and
\* invalidations overlap, ListPolicies implements FreshReads: no list is older
\* than the last invalidation its replica had finished when the caller came in.
ImplementsFreshReads == Fresh!Spec

RanksDecide(P, c, f) == Denies(evaluatePolicies(P, c, f)) <=> DeniedByReference(P, c, f)

RanksDecideLists == \A P \in Lists, c \in Clients, f \in FactSets : RanksDecide(P, c, f)

\* evaluatePolicies denies a request exactly when the ranks of the policies
\* that apply say so, whatever monitors, exceptions, grace windows, expiries and
\* undecidable conditions lie between them.
DeniesByRank == RanksDecideLists /\ \A c \in Clients : RanksDecide(script[db], c, Today)

\* A request that is being answered with what the database says now.
AnsweredCurrently(w) ==
    IF op = "list" THEN seen[w] = db ELSE verdict[w] = Evaluated(db, client[w])

\* "If NATS is down, divergence is bounded by the TTL": once edits stop, every
\* answer of every replica is the current one for good, lost messages and
\* verdicts put after an invalidation notwithstanding.
AnswersConverge == <>[](\A w \in Workers : pc[w] = "done" => AnsweredCurrently(w))

\* evalCacheKeyFor: "two requesters with different scope identity never share
\* a verdict".  A verdict served is one some policy set of the org, old or
\* new, gives this requester.  The code does not guarantee it and no run lists
\* it: README, section 5.
VerdictIsTheRequesters ==
    \A w \in Workers : op = "evaluate" /\ pc[w] = "done" =>
      \E v \in 0..db : verdict[w] = Evaluated(v, client[w])

=============================================================================
