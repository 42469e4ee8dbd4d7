------------------------- MODULE PolicyCache_proofs -------------------------
(***************************************************************************)
(* ListPolicies keeps its invariant and implements FreshReads, for any     *)
(* number of replicas, requests, edits and policy lists.                   *)
(***************************************************************************)
EXTENDS PolicyCache, TLAPS, WellFoundedInduction

-----------------------------------------------------------------------------
(* evaluatePolicies against its reference, for every policy list, client and *)
(* fact.                                                                     *)

\* A set of naturals that is not empty has a least element.
LEMMA LeastNatural ==
    ASSUME NEW T, T \subseteq Nat, T # {}
    PROVE  \E x \in T : \A y \in T : x <= y
<1> DEFINE R == {ss \in Nat \X Nat : ss[1] < ss[2]}
<1>1. R = OpToRel(<, Nat)
  BY Zenon DEF OpToRel
<1>2. IsWellFoundedOn(R, Nat)
  BY <1>1, NatLessThanWellFounded, Zenon
<1>3. \E x \in T : \A y \in T : ~ (<<y, x>> \in R)
  <2> HIDE DEF R
  <2> QED BY <1>2, WFMin, Zenon
<1>4. PICK x \in T : \A y \in T : ~ (<<y, x>> \in R)
  BY <1>3
<1>5. ASSUME NEW y \in T PROVE x <= y
  <2>1. <<y, x>> \in R <=> y < x
    OBVIOUS
  <2> QED BY <1>4, <2>1
<1> QED BY <1>5

\* FirstOf is a policy of the set, and no other is ranked before it.
LEMMA FirstOfIsFirst ==
    ASSUME NEW P, P # {}, \A p \in P : p.rank \in Nat
    PROVE  FirstOf(P) \in P /\ \A q \in P : FirstOf(P).rank <= q.rank
<1>1. \E x \in {p.rank : p \in P} : \A y \in {p.rank : p \in P} : x <= y
  BY LeastNatural
<1>2. \E p \in P : \A q \in P : p.rank <= q.rank
  BY <1>1
<1> QED BY <1>2 DEF FirstOf

\* Every verdict has a mode, and the rank of a policy or zero.
LEMMA VerdictType ==
    ASSUME NEW P, IsPolicyList(P), NEW c, NEW f
    PROVE  evaluatePolicies(P, c, f) \in [action : Modes, policy : Nat]
<1> DEFINE Applied == {p \in P : Applies(p, c, f)}
           Monitors == {p \in Applied : resolveAction(p, f) = "monitor"}
           Others == Applied \ Monitors
<1>1. \A p \in P : Verdict(p, f) \in [action : Modes, policy : Nat]
  BY DEF IsPolicyList, Verdict, resolveAction, Modes
<1>2. NoMatch \in [action : Modes, policy : Nat]
  BY DEF NoMatch, Modes
<1>3. Monitors # {} => FirstOf(Monitors) \in P
  BY FirstOfIsFirst DEF IsPolicyList
<1>4. Others # {} => FirstOf(Others) \in P
  BY FirstOfIsFirst DEF IsPolicyList
<1> HIDE DEF Monitors, Others
<1> QED BY <1>1, <1>2, <1>3, <1>4 DEF evaluatePolicies, Monitors, Others

\* evaluatePolicies denies a request exactly when some rule that applies to it
\* enforces and no allow that applies is ranked before that rule.
THEOREM RanksDecideAlways ==
    ASSUME NEW P, IsPolicyList(P), NEW c, NEW f
    PROVE  Denies(evaluatePolicies(P, c, f)) <=> DeniedByReference(P, c, f)
<1> DEFINE Applied == {p \in P : Applies(p, c, f)}
           Monitors == {p \in Applied : resolveAction(p, f) = "monitor"}
           Others == Applied \ Monitors
           T == FirstOf(Others)
           Watched == IF Monitors = {} THEN NoMatch ELSE Verdict(FirstOf(Monitors), f)
           Result == IF Others = {} THEN Watched
                     ELSE IF /\ resolveAction(T, f) = "allow"
                             /\ \E m \in Monitors : m.rank < T.rank
                          THEN Watched ELSE Verdict(T, f)
<1>1. evaluatePolicies(P, c, f) = Result
  BY DEF evaluatePolicies
<1>2. ASSUME NEW p \in P
      PROVE  /\ p.rank \in Nat
             /\ Enforces(p, f) <=> resolveAction(p, f) \in {"block", "quarantine"}
             /\ p.mode = "allow" <=> resolveAction(p, f) = "allow"
             /\ resolveAction(p, f) \in {"allow", "monitor", "block", "quarantine"}
  BY DEF IsPolicyList, Enforces, resolveAction, Modes
<1>3. ~ Denies(Watched)
  <2>1. CASE Monitors = {}
    BY <2>1 DEF Denies, NoMatch
  <2>2. CASE Monitors # {}
    <3>1. FirstOf(Monitors) \in Monitors
      BY <2>2, <1>2, FirstOfIsFirst
    <3> QED BY <2>2, <3>1 DEF Denies, Verdict
  <2> QED BY <2>1, <2>2
<1>4. CASE Others = {}
  <2>1. ~ DeniedByReference(P, c, f)
    BY <1>2, <1>4 DEF DeniedByReference
  <2> QED BY <1>1, <1>3, <1>4, <2>1
<1>5. CASE Others # {}
  <2>1. T \in Others /\ \A q \in Others : T.rank <= q.rank
    BY <1>5, <1>2, FirstOfIsFirst
  <2>2. CASE resolveAction(T, f) = "allow"
    <3>1. ~ Denies(Result)
      BY <1>3, <1>5, <2>2 DEF Denies, Verdict
    <3>2. ~ DeniedByReference(P, c, f)
      <4> SUFFICES ASSUME NEW p \in P, Applies(p, c, f), Enforces(p, f),
                          \A q \in P : Applies(q, c, f) /\ q.mode = "allow" => p.rank < q.rank
                   PROVE  FALSE
          BY DEF DeniedByReference
      <4>1. p \in Others
        BY <1>2
      <4>2. T \in P /\ Applies(T, c, f) /\ T.mode = "allow"
        BY <1>2, <2>1, <2>2
      <4> HIDE DEF T
      <4> QED BY <1>2, <2>1, <4>1, <4>2
    <3> QED BY <1>1, <3>1, <3>2
  <2>3. CASE resolveAction(T, f) # "allow"
    <3>1. T \in P /\ Applies(T, c, f) /\ resolveAction(T, f) \in {"block", "quarantine"}
      BY <1>2, <2>1, <2>3
    <3>2. Denies(Result)
      BY <1>5, <2>3, <3>1 DEF Denies, Verdict
    <3>3. ASSUME NEW q \in P, Applies(q, c, f), q.mode = "allow"
          PROVE  T.rank < q.rank
      <4>1. q \in Others /\ q # T
        BY <1>2, <2>3, <3>3
      <4> HIDE DEF T, Others
      <4> QED BY <1>2, <2>1, <3>1, <4>1 DEF IsPolicyList
    <3>4. DeniedByReference(P, c, f)
      <4> HIDE DEF T
      <4> QED BY <1>2, <3>1, <3>3 DEF DeniedByReference
    <3> QED BY <1>1, <3>2, <3>4
  <2> QED BY <2>2, <2>3
<1> QED BY <1>4, <1>5

-----------------------------------------------------------------------------
(* ListPolicies. *)

\* A worker belongs to a replica.
LEMMA HomeOfWorker == ASSUME NEW w \in Workers PROVE Home(w) \in Replicas
BY DEF Workers, Home

\* An evaluation of any list of the script yields an answer.
LEMMA EvaluatedType ==
    ASSUME TypeOK, NEW v \in Versions, NEW c
    PROVE  Evaluated(v, c) \in Answers
<1>1. IsPolicyList(script[v])
  BY PolicyAssumption DEF TypeOK
<1> QED BY <1>1, VerdictType DEF Evaluated, Answers

LEMMA TypeInit == Init => TypeOK
<1> SUFFICES ASSUME Init PROVE TypeOK
    OBVIOUS
<1>1. 0 \in Versions
  BY PolicyAssumption DEF Versions
<1>2. /\ script \in Scripts
      /\ op \in {"list", "evaluate"}
      /\ verdicts \in [Replicas -> [CacheKeys -> Answers \cup {None}]]
  BY PolicyAssumption DEF Init
<1>3. inbox \in [Replicas -> SUBSET {"verdicts", "meta"}]
  BY DEF Init
<1>4. meta \in [Replicas -> (SUBSET {"scoped", "grace"}) \cup {None}]
  BY DEF Init
<1>5. /\ db \in Versions
      /\ admin \in [Replicas -> Stages]
      /\ bus \subseteq Replicas
      /\ snap \in [Replicas -> Versions \cup {None}]
      /\ gen \in [Replicas -> Nat]
      /\ flushed \in [Replicas -> Versions]
  BY <1>1 DEF Init, Stages
<1>6. /\ pc \in [Workers -> Steps]
      /\ client \in [Workers -> Clients \cup {None}]
      /\ key \in [Workers -> CacheKeys \cup {None}]
      /\ myGen \in [Workers -> Nat]
      /\ floor \in [Workers -> Versions]
      /\ seen \in [Workers -> Versions \cup {None}]
      /\ verdict \in [Workers -> Answers \cup {None}]
  BY <1>1 DEF Init, Steps
<1> QED BY <1>2, <1>3, <1>4, <1>5, <1>6 DEF TypeOK

\* Every step keeps the types.
LEMMA TypeStep == PolicyInv /\ [Next]_vars => TypeOK'
<1> SUFFICES ASSUME PolicyInv, [Next]_vars PROVE TypeOK'
    OBVIOUS
<1>0. TypeOK
  BY DEF PolicyInv
<1> USE PolicyAssumption, HomeOfWorker, <1>0
<1>1. ASSUME NEW r \in Replicas, Edit(r) PROVE TypeOK'
  BY <1>1 DEF TypeOK, Edit, Stages, Versions, snapshots, evaluator, request
<1>2. ASSUME NEW r \in Replicas, AdminInvalidate(r) PROVE TypeOK'
  BY <1>2 DEF TypeOK, AdminInvalidate, localInvalidate, Stages, evaluator, request
<1>3. ASSUME NEW r \in Replicas, AdminPublish(r) PROVE TypeOK'
  BY <1>3 DEF TypeOK, AdminPublish, Stages, snapshots, evaluator, request
<1>4. ASSUME NEW r \in Replicas, Deliver(r) PROVE TypeOK'
  BY <1>4 DEF TypeOK, Deliver, localInvalidate, evaluator, request
<1>5. ASSUME NEW r \in Replicas, Lose(r) PROVE TypeOK'
  BY <1>5 DEF TypeOK, Lose, snapshots, evaluator, request
<1>6. ASSUME NEW r \in Replicas, DropVerdicts(r) PROVE TypeOK'
  <2> DEFINE todo == (inbox[r] \ {"verdicts"}) \cup {"meta"}
  <2>1. todo \in SUBSET {"verdicts", "meta"}
    BY DEF TypeOK
  <2>2. inbox' \in [Replicas -> SUBSET {"verdicts", "meta"}]
    <3>1. inbox' = inbox \/ inbox' = [inbox EXCEPT ![r] = todo]
      BY <1>6, Zenon DEF DropVerdicts
    <3> HIDE DEF todo
    <3> QED BY <2>1, <3>1 DEF TypeOK
  <2>3. verdicts' \in [Replicas -> [CacheKeys -> Answers \cup {None}]]
    BY <1>6 DEF TypeOK, DropVerdicts
  <2>4. admin' \in [Replicas -> Stages]
    BY <1>6 DEF TypeOK, DropVerdicts, Stages
  <2> QED BY <1>6, <2>2, <2>3, <2>4 DEF TypeOK, DropVerdicts, snapshots, request
<1>7. ASSUME NEW r \in Replicas, resetMeta(r) PROVE TypeOK'
  <2>1. inbox[r] \ {"meta"} \in SUBSET {"verdicts", "meta"}
    BY DEF TypeOK
  <2>2. inbox' \in [Replicas -> SUBSET {"verdicts", "meta"}]
    <3>1. \/ inbox' = inbox
          \/ inbox' = [inbox EXCEPT ![r] = inbox[r] \ {"meta"}]
      BY <1>7, Zenon DEF resetMeta
    <3> QED BY <2>1, <3>1 DEF TypeOK
  <2>4. admin' \in [Replicas -> Stages]
    BY <1>7 DEF TypeOK, resetMeta, Stages
  <2>3. meta' \in [Replicas -> (SUBSET {"scoped", "grace"}) \cup {None}]
    BY <1>7 DEF TypeOK, resetMeta
  <2> QED BY <1>7, <2>2, <2>3, <2>4 DEF TypeOK, resetMeta, snapshots, request
<1>8. ASSUME NEW r \in Replicas, InvalidateAll(r) PROVE TypeOK'
  BY <1>8 DEF TypeOK, InvalidateAll, localInvalidate, invalidation, evaluator, request
<1>9. ASSUME NEW r \in Replicas, SnapshotExpires(r) PROVE TypeOK'
  BY <1>9 DEF TypeOK, SnapshotExpires, invalidation, evaluator, request
<1>10. ASSUME NEW r \in Replicas, NEW k \in CacheKeys, VerdictExpires(r, k) PROVE TypeOK'
  BY <1>10 DEF TypeOK, VerdictExpires, invalidation, snapshots, request
<1>11. ASSUME NEW w \in Workers, StartList(w) PROVE TypeOK'
  BY <1>11 DEF TypeOK, StartList, Goto, Steps, Listing, invalidation, snapshots, evaluator
<1>12. ASSUME NEW w \in Workers, Look(w) PROVE TypeOK'
  <2>1. CASE snap[Home(w)] # None
    BY <1>12, <2>1 DEF TypeOK, Look, Goto, Steps, invalidation, snapshots, evaluator
  <2>2. CASE snap[Home(w)] = None
    BY <1>12, <2>2 DEF TypeOK, Look, Goto, Steps, Listing, invalidation, snapshots, evaluator
  <2> QED BY <2>1, <2>2
<1>13. ASSUME NEW w \in Workers, Do(w) PROVE TypeOK'
  BY <1>13 DEF TypeOK, Do, Goto, Steps, Listing, invalidation, snapshots, evaluator
<1>14. ASSUME NEW w \in Workers, Load(w) PROVE TypeOK'
  BY <1>14 DEF TypeOK, Load, Goto, Steps, Listing, invalidation, snapshots, evaluator
<1>15. ASSUME NEW w \in Workers, Keep(w) PROVE TypeOK'
  BY <1>15 DEF TypeOK, Keep, Steps, invalidation, evaluator
<1>16. ASSUME NEW S, Reset(S) PROVE TypeOK'
  BY <1>16 DEF TypeOK, Reset, Steps, Versions, invalidation, snapshots, evaluator
<1>17. ASSUME NEW w \in Workers, NEW c \in Clients, StartEvaluate(w, c) PROVE TypeOK'
  BY <1>17 DEF TypeOK, StartEvaluate, Goto, Steps, Evaluating, invalidation, snapshots, evaluator
<1>18. ASSUME NEW w \in Workers, CachedMeta(w) PROVE TypeOK'
  BY <1>18 DEF TypeOK, CachedMeta, evalCacheKeyFor, CacheKeys, Goto, Steps, Evaluating,
               invalidation, snapshots, evaluator
<1>19. ASSUME NEW w \in Workers, List(w) PROVE TypeOK'
  BY <1>19 DEF TypeOK, List, Goto, Steps, Evaluating, invalidation, snapshots, evaluator
<1>20. ASSUME NEW w \in Workers, StoreMeta(w) PROVE TypeOK'
  <2>1. computePolicyMeta(script[seen[w]]) \subseteq {"scoped", "grace"}
    BY DEF computePolicyMeta
  <2>2. \A m : evalCacheKeyFor(client[w], m) \in CacheKeys \cup {None}
    BY DEF TypeOK, evalCacheKeyFor, CacheKeys
  <2>3. meta' \in [Replicas -> (SUBSET {"scoped", "grace"}) \cup {None}]
    BY <1>20, <2>1 DEF TypeOK, StoreMeta
  <2>4. key' \in [Workers -> CacheKeys \cup {None}]
    <3>1. \/ key' = key
          \/ \E m : key' = [key EXCEPT ![w] = evalCacheKeyFor(client[w], m)]
      BY <1>20, Zenon DEF StoreMeta
    <3> QED BY <2>2, <3>1 DEF TypeOK
  <2>5. pc' \in [Workers -> Steps]
    <3>1. pc' = [pc EXCEPT ![w] = "put"] \/ pc' = [pc EXCEPT ![w] = "get"]
      BY <1>20, Zenon DEF StoreMeta, Goto
    <3> QED BY <3>1 DEF TypeOK, Steps, Evaluating
  <2> QED BY <1>20, <2>3, <2>4, <2>5 DEF TypeOK, StoreMeta, invalidation, snapshots
<1>21. ASSUME NEW w \in Workers, Get(w) PROVE TypeOK'
  <2>1. verdicts[Home(w)][key[w]] \in Answers \cup {None}
    BY <1>21 DEF TypeOK, PolicyInv, SnapshotOrder, Get
  <2> QED BY <1>21, <2>1 DEF TypeOK, Get, Goto, Steps, Evaluating, invalidation, snapshots, evaluator
<1>22. ASSUME NEW w \in Workers, Put(w) PROVE TypeOK'
  <2>1. Evaluated(seen[w], client[w]) \in Answers
    BY <1>22, EvaluatedType DEF TypeOK, PolicyInv, SnapshotOrder, Put
  <2> QED BY <1>22, <2>1 DEF TypeOK, Put, Goto, Steps, invalidation, snapshots
<1>23. CASE UNCHANGED vars
  BY <1>23 DEF TypeOK, vars, invalidation, snapshots, evaluator, request
<1> QED
  BY <1>1, <1>2, <1>3, <1>4, <1>5, <1>6, <1>7, <1>8, <1>9, <1>10, <1>11, <1>12, <1>13, <1>14,
     <1>15, <1>16, <1>17, <1>18, <1>19, <1>20, <1>21, <1>22, <1>23
  DEF Next, WorkerStep, InvalidationStep, LoadFails, ListFails, Return

\* The part of the invariant that is about one request.
Ordered(w) ==
    /\ floor[w] <= flushed[Home(w)]
    /\ myGen[w] <= gen[Home(w)]
    /\ seen[w] # None => seen[w] <= db
    /\ pc[w] \in Listing => op = "list"
    /\ pc[w] \in Evaluating => op = "evaluate" /\ client[w] # None
    /\ pc[w] = "get" => key[w] # None
    /\ pc[w] \in {"coldMeta", "storeMeta", "put"} => seen[w] # None
    /\ pc[w] = "keep" => seen[w] # None
    /\ pc[w] = "done" /\ op = "list" => seen[w] # None /\ seen[w] >= floor[w]

\* What a load under way owes to its replica and to one caller.
Serves(l, w) ==
    pc[l] = "keep" =>
      /\ myGen[l] = gen[Home(l)] => seen[l] >= flushed[Home(l)]
      /\ pc[w] \in Listing \ {"look"} /\ SameFlight(w, l) => seen[l] >= floor[w]

Current(r) == flushed[r] <= db /\ (snap[r] # None => snap[r] \in flushed[r]..db)

LEMMA InvInParts ==
    PolicyInv <=> /\ TypeOK
                  /\ \A r \in Replicas : Current(r)
                  /\ \A w \in Workers : Ordered(w)
                  /\ \A l, w \in Workers : Serves(l, w)
BY DEF PolicyInv, SnapshotOrder, LoadsServeTheirGeneration, Current, Ordered, Serves

LEMMA InvInPartsNext ==
    PolicyInv' <=> /\ TypeOK'
                   /\ \A r \in Replicas : Current(r)'
                   /\ \A w \in Workers : Ordered(w)'
                   /\ \A l, w \in Workers : Serves(l, w)'
BY DEF PolicyInv, SnapshotOrder, LoadsServeTheirGeneration, Current, Ordered, Serves, SameFlight

\* An empty cache and idle workers satisfy it.
LEMMA InvInit == Init => PolicyInv
<1> SUFFICES ASSUME Init PROVE PolicyInv
    OBVIOUS
<1>1. TypeOK
  BY TypeInit
<1>2. \A r \in Replicas : Current(r)
  BY DEF Init, Current
<1>3. \A w \in Workers : Ordered(w)
  BY HomeOfWorker DEF Init, Ordered, Listing, Evaluating
<1>4. \A l, w \in Workers : Serves(l, w)
  BY DEF Init, Serves
<1> QED BY <1>1, <1>2, <1>3, <1>4, InvInParts

\* A step of the request w, or of none, leaves the others and the caches alone.
Moves(w) ==
    /\ UNCHANGED <<op, db, gen, flushed, snap>>
    /\ \A v \in Workers \ {w} :
         /\ pc'[v] = pc[v] /\ key'[v] = key[v] /\ seen'[v] = seen[v]
         /\ myGen'[v] = myGen[v] /\ floor'[v] = floor[v] /\ client'[v] = client[v]

\* Then only w has to be looked at.
LEMMA MovesKeep ==
    ASSUME PolicyInv, TypeOK', NEW w \in Workers, Moves(w), Ordered(w)',
           \A v \in Workers : Serves(w, v)' /\ Serves(v, w)'
    PROVE  PolicyInv'
<1>1. \A r \in Replicas : Current(r)'
  BY InvInParts DEF Moves, Current
<1>2. ASSUME NEW v \in Workers \ {w} PROVE Ordered(v)'
  <2>1. Ordered(v)
    BY InvInParts
  <2> QED BY <2>1 DEF Moves, Ordered
<1>3. ASSUME NEW l \in Workers \ {w}, NEW v \in Workers \ {w} PROVE Serves(l, v)'
  <2>1. Serves(l, v)
    BY InvInParts
  <2> QED BY <2>1 DEF Moves, Serves, SameFlight
<1> QED BY <1>1, <1>2, <1>3, InvInPartsNext

\* Invalidation: loads of the old generation owe nothing to the new one.
LEMMA InvalidateKeeps ==
    ASSUME PolicyInv, TypeOK', NEW r \in Replicas, localInvalidate(r), UNCHANGED <<op, db, request>>
    PROVE  PolicyInv'
<1> USE HomeOfWorker
<1>0. TypeOK
  BY DEF PolicyInv
<1>1. ASSUME NEW q \in Replicas PROVE Current(q)'
  <2>1. Current(q)
    BY InvInParts
  <2> QED BY <1>0, <2>1, PolicyAssumption DEF Current, localInvalidate, TypeOK, Versions
<1>2. ASSUME NEW w \in Workers PROVE Ordered(w)'
  <2>1. Ordered(w) /\ Current(Home(w))
    BY InvInParts
  <2>2. floor[w] <= flushed'[Home(w)] /\ myGen[w] <= gen'[Home(w)]
    BY <1>0, <2>1, PolicyAssumption DEF Ordered, Current, localInvalidate, TypeOK, Versions
  <2> QED BY <2>1, <2>2 DEF Ordered, request
<1>3. ASSUME NEW l \in Workers, NEW w \in Workers PROVE Serves(l, w)'
  <2>1. Serves(l, w) /\ Ordered(l)
    BY InvInParts
  <2>2. /\ myGen[l] = gen'[Home(l)] => Home(l) # r
        /\ Home(l) # r => gen'[Home(l)] = gen[Home(l)] /\ flushed'[Home(l)] = flushed[Home(l)]
    BY <1>0, <2>1 DEF Ordered, localInvalidate, TypeOK
  <2> QED BY <2>1, <2>2 DEF Serves, SameFlight, request
<1> QED BY <1>1, <1>2, <1>3, InvInPartsNext

\* The step of an evaluation touches nothing a list relies on.
LEMMA EvaluationKeeps ==
    ASSUME PolicyInv, TypeOK', NEW w \in Workers, Moves(w), Ordered(w)',
           pc'[w] \notin Listing
    PROVE  PolicyInv'
<1>1. \A v \in Workers : Serves(w, v)' /\ Serves(v, w)'
  <2> SUFFICES ASSUME NEW v \in Workers PROVE Serves(w, v)' /\ Serves(v, w)'
      OBVIOUS
  <2>1. Serves(w, v)'
    BY DEF Serves, Listing
  <2>2. CASE v = w
    BY <2>1, <2>2
  <2>3. CASE v # w
    <3>1. Serves(v, w)
      BY InvInParts
    <3> QED BY <2>1, <2>3, <3>1 DEF Moves, Serves
  <2> QED BY <2>2, <2>3
<1> QED BY <1>1, MovesKeep

\* Every step keeps the invariant.
LEMMA InvStep == PolicyInv /\ [Next]_vars => PolicyInv'
<1> SUFFICES ASSUME PolicyInv, [Next]_vars PROVE PolicyInv'
    OBVIOUS
<1>0. TypeOK /\ TypeOK'
  BY TypeStep DEF PolicyInv
<1>a. ASSUME NEW w \in Workers PROVE Ordered(w) /\ Current(Home(w)) /\ Home(w) \in Replicas
  BY InvInParts, HomeOfWorker
<1>b. ASSUME NEW l \in Workers, NEW w \in Workers PROVE Serves(l, w)
  BY InvInParts
<1>1. CASE UNCHANGED <<op, db, snapshots, request>>
  BY <1>0, <1>1, InvInParts, InvInPartsNext
     DEF snapshots, request, Current, Ordered, Serves, SameFlight
<1>2. ASSUME NEW r \in Replicas, Edit(r) PROVE PolicyInv'
  <2>1. \A q \in Replicas : Current(q)'
    BY <1>0, <1>2, InvInParts, PolicyAssumption DEF Current, Edit, TypeOK, Versions, snapshots
  <2>2. ASSUME NEW w \in Workers PROVE Ordered(w)'
    BY <1>0, <1>2, <1>a, PolicyAssumption DEF Ordered, Edit, TypeOK, Versions, snapshots, request
  <2>3. \A l, w \in Workers : Serves(l, w)'
    BY <1>2, InvInParts DEF Edit, Serves, SameFlight, snapshots, request
  <2> QED BY <1>0, <2>1, <2>2, <2>3, InvInPartsNext
<1>3. ASSUME NEW r \in Replicas, AdminInvalidate(r) \/ Deliver(r) \/ InvalidateAll(r)
      PROVE PolicyInv'
  BY <1>0, <1>3, InvalidateKeeps DEF AdminInvalidate, Deliver, InvalidateAll
<1>4. ASSUME NEW r \in Replicas, SnapshotExpires(r) PROVE PolicyInv'
  <2>1. \A q \in Replicas : Current(q)'
    BY <1>0, <1>4, InvInParts DEF Current, SnapshotExpires, TypeOK
  <2>2. \A w \in Workers : Ordered(w)'
    BY <1>4, InvInParts DEF Ordered, SnapshotExpires, request
  <2>3. \A l, w \in Workers : Serves(l, w)'
    BY <1>4, InvInParts DEF SnapshotExpires, Serves, SameFlight, request
  <2> QED BY <1>0, <2>1, <2>2, <2>3, InvInPartsNext
<1>5. ASSUME NEW w \in Workers, StartList(w) PROVE PolicyInv'
  <2>1. Moves(w) /\ pc'[w] = "look" /\ floor'[w] = flushed[Home(w)] /\ op = "list"
        /\ UNCHANGED <<myGen, seen, key>>
    BY <1>0, <1>5 DEF StartList, Moves, Goto, TypeOK, snapshots
  <2>2. Ordered(w)'
    BY <1>0, <2>1, <1>a, PolicyAssumption DEF Ordered, Current, Moves, Listing, Evaluating, TypeOK, Versions
  <2>3. ASSUME NEW v \in Workers PROVE Serves(w, v)' /\ Serves(v, w)'
    BY <2>1, <1>b DEF Serves, Moves
  <2> QED BY <1>0, <2>1, <2>2, <2>3, MovesKeep
<1>6. ASSUME NEW w \in Workers, Look(w) PROVE PolicyInv'
  <2>1. CASE snap[Home(w)] # None
    <3>1. /\ Moves(w) /\ pc'[w] = "done" /\ seen'[w] = snap[Home(w)]
          /\ UNCHANGED <<myGen, floor, key>>
      BY <1>0, <1>6, <2>1 DEF Look, Moves, Goto, TypeOK, snapshots
    <3>2. Ordered(w)'
      BY <1>0, <2>1, <3>1, <1>a, PolicyAssumption
         DEF Ordered, Current, Moves, Listing, Evaluating, TypeOK, Versions
    <3> QED BY <1>0, <3>1, <3>2, EvaluationKeeps DEF Listing
  <2>2. CASE snap[Home(w)] = None
    <3>1. /\ Moves(w) /\ pc[w] = "look" /\ pc'[w] = "do" /\ myGen'[w] = gen[Home(w)]
          /\ UNCHANGED <<seen, floor, key>>
      BY <1>0, <1>6, <2>2 DEF Look, Moves, Goto, TypeOK, snapshots
    <3>2. Ordered(w)'
      BY <1>0, <3>1, <1>a DEF Ordered, Moves, Listing, Evaluating, TypeOK
    <3>3. ASSUME NEW v \in Workers PROVE Serves(w, v)' /\ Serves(v, w)'
      <4>1. Serves(w, v)'
        BY <3>1 DEF Serves
      <4>2. CASE v # w
        <5>1. Serves(v, w) /\ Ordered(w) /\ Ordered(v) /\ Home(v) \in Replicas
          BY <1>a, <1>b
        <5>2. ASSUME pc[v] = "keep", Home(v) = Home(w), myGen[v] = gen[Home(w)]
              PROVE  seen[v] >= floor[w]
          BY <1>0, <5>1, <5>2, PolicyAssumption DEF Serves, Ordered, TypeOK, Versions
        <5> QED BY <3>1, <4>2, <5>1, <5>2 DEF Serves, Moves, SameFlight
      <4> QED BY <4>1, <4>2
    <3> QED BY <1>0, <3>1, <3>2, <3>3, MovesKeep
  <2> QED BY <2>1, <2>2
<1>7. ASSUME NEW w \in Workers, Do(w) PROVE PolicyInv'
  <2>1. /\ Moves(w) /\ pc[w] = "do" /\ pc'[w] \in {"wait", "load"}
        /\ UNCHANGED <<seen, floor, key, myGen>>
    BY <1>0, <1>7 DEF Do, Moves, Goto, TypeOK, snapshots
  <2>2. Ordered(w)'
    BY <2>1, <1>a DEF Ordered, Moves, Listing, Evaluating
  <2>3. ASSUME NEW v \in Workers PROVE Serves(w, v)' /\ Serves(v, w)'
    <3>1. Serves(v, w)
      BY <1>b
    <3> QED BY <2>1, <3>1 DEF Serves, Moves, SameFlight, Listing
  <2> QED BY <1>0, <2>1, <2>2, <2>3, MovesKeep
<1>8. ASSUME NEW w \in Workers, Load(w) PROVE PolicyInv'
  <2>1. /\ Moves(w) /\ pc[w] = "load" /\ pc'[w] = "keep" /\ seen'[w] = db
        /\ UNCHANGED <<floor, key, myGen>>
    BY <1>0, <1>8 DEF Load, Moves, Goto, TypeOK, snapshots
  <2>2. Ordered(w)'
    BY <1>0, <2>1, <1>a, PolicyAssumption DEF Ordered, Moves, Listing, Evaluating, TypeOK, Versions
  <2>3. ASSUME NEW v \in Workers PROVE Serves(w, v)' /\ Serves(v, w)'
    <3>1. Serves(v, w) /\ Ordered(v) /\ Current(Home(v)) /\ Current(Home(w))
      BY <1>a, <1>b
    <3>2. flushed[Home(w)] <= db /\ floor[v] <= db
      BY <1>0, <1>a, <3>1, PolicyAssumption DEF Ordered, Current, TypeOK, Versions
    <3>3. Serves(w, v)'
      BY <1>0, <2>1, <3>2, PolicyAssumption DEF Serves, Moves, SameFlight, TypeOK, Versions
    <3>4. CASE v # w
      <4>1. /\ pc'[v] = pc[v] /\ seen'[v] = seen[v] /\ myGen'[v] = myGen[v]
            /\ UNCHANGED <<gen, flushed>>
        BY <2>1, <3>4 DEF Moves
      <4> QED BY <2>1, <3>1, <3>3, <4>1 DEF Serves, SameFlight, Listing
    <3> QED BY <3>3, <3>4
  <2> QED BY <1>0, <2>1, <2>2, <2>3, MovesKeep
<1>9. ASSUME NEW l \in Workers, Keep(l) PROVE PolicyInv'
  <2>1. /\ pc[l] = "keep" /\ UNCHANGED <<op, db, gen, flushed, client, key, myGen, floor>>
        /\ seen[l] # None /\ seen[l] <= db /\ op = "list"
    BY <1>9, <1>a DEF Keep, Ordered, Listing
  <2>2. ASSUME NEW w \in Workers
        PROVE  IF w \in Flight(l) THEN pc'[w] = "done" /\ seen'[w] = seen[l] /\ seen[l] >= floor[w]
                                  ELSE pc'[w] = pc[w] /\ seen'[w] = seen[w]
    <3>1. w \in Flight(l) => seen[l] >= floor[w]
      BY <1>b, <2>1 DEF Flight, Serves, SameFlight, Listing
    <3> QED BY <1>9, <3>1 DEF Keep
  <2>3. ASSUME NEW r \in Replicas PROVE Current(r)'
    <3>1. Current(r) /\ Serves(l, l) /\ Home(l) \in Replicas
      BY InvInParts, <1>a
    <3>2. CASE r = Home(l) /\ StillCurrent(l)
      BY <1>0, <1>9, <2>1, <3>1, <3>2, PolicyAssumption
         DEF Keep, Current, Serves, StillCurrent, TypeOK, Versions
    <3>3. CASE ~ (r = Home(l) /\ StillCurrent(l))
      BY <1>0, <1>9, <2>1, <3>1, <3>3 DEF Keep, Current, TypeOK
    <3> QED BY <3>2, <3>3
  <2>4. ASSUME NEW w \in Workers PROVE Ordered(w)'
    BY <1>a, <2>1, <2>2 DEF Ordered, Listing, Evaluating
  <2>5. ASSUME NEW k \in Workers, NEW w \in Workers PROVE Serves(k, w)'
    <3>1. Serves(k, w)
      BY <1>b
    <3> QED BY <2>1, <2>2, <3>1 DEF Serves, SameFlight, Listing
  <2> QED BY <1>0, <2>3, <2>4, <2>5, InvInPartsNext
<1>10. ASSUME NEW S, Reset(S) PROVE PolicyInv'
  <2>1. UNCHANGED <<op, db, snap, gen, flushed>>
    BY <1>10 DEF Reset, snapshots
  <2>2. ASSUME NEW w \in Workers
        PROVE  IF w \in S THEN pc'[w] = "idle" /\ myGen'[w] = 0 /\ floor'[w] = 0 /\ seen'[w] = None
               ELSE /\ pc'[w] = pc[w] /\ client'[w] = client[w] /\ key'[w] = key[w]
                    /\ myGen'[w] = myGen[w] /\ floor'[w] = floor[w] /\ seen'[w] = seen[w]
    BY <1>10 DEF Reset
  <2>3. ASSUME NEW r \in Replicas PROVE Current(r)'
    BY <2>1, InvInParts DEF Current
  <2>4. ASSUME NEW w \in Workers PROVE Ordered(w)'
    <3>1. gen[Home(w)] >= 0 /\ flushed[Home(w)] >= 0
      BY <1>0, <1>a, PolicyAssumption DEF TypeOK, Versions
    <3>2. CASE w \in S
      BY <2>1, <2>2, <3>1, <3>2 DEF Ordered, Listing, Evaluating
    <3>3. CASE w \notin S
      BY <1>a, <2>1, <2>2, <3>3 DEF Ordered
    <3> QED BY <3>2, <3>3
  <2>5. ASSUME NEW k \in Workers, NEW w \in Workers PROVE Serves(k, w)'
    <3>1. Serves(k, w)
      BY <1>b
    <3> QED BY <2>1, <2>2, <3>1 DEF Serves, SameFlight, Listing
  <2> QED BY <1>0, <2>3, <2>4, <2>5, InvInPartsNext
<1>11. ASSUME NEW w \in Workers, NEW c \in Clients, StartEvaluate(w, c) PROVE PolicyInv'
  <2>1. /\ Moves(w) /\ pc'[w] = "meta" /\ op = "evaluate"
        /\ client'[w] = c /\ UNCHANGED <<seen, floor, key, myGen>>
    BY <1>0, <1>11 DEF StartEvaluate, Moves, Goto, TypeOK, snapshots
  <2>2. Ordered(w)'
    BY <2>1, <1>a, PolicyAssumption DEF Ordered, Moves, Listing, Evaluating
  <2> QED BY <1>0, <2>1, <2>2, EvaluationKeeps DEF Listing
<1>12. ASSUME NEW w \in Workers, CachedMeta(w) PROVE PolicyInv'
  <2>1. /\ Moves(w) /\ pc[w] = "meta" /\ pc'[w] \in {"coldList", "list", "get"}
        /\ UNCHANGED <<client, seen, floor, myGen>>
    BY <1>0, <1>12 DEF CachedMeta, Moves, Goto, TypeOK, snapshots
  <2>2. pc'[w] = "get" => key'[w] # None
    <3>1. client[w] # None
      BY <2>1, <1>a DEF Ordered, Evaluating
    <3>2. pc'[w] = "get" => key'[w] = evalCacheKeyFor(client[w], meta[Home(w)])
                            /\ ~ ("grace" \in meta[Home(w)])
      BY <1>0, <1>12 DEF CachedMeta, Goto, TypeOK
    <3> QED BY <3>1, <3>2, PolicyAssumption DEF evalCacheKeyFor
  <2>3. Ordered(w)'
    BY <2>1, <2>2, <1>a DEF Ordered, Moves, Listing, Evaluating
  <2> QED BY <1>0, <2>1, <2>3, EvaluationKeeps DEF Listing
<1>13. ASSUME NEW w \in Workers, List(w) PROVE PolicyInv'
  <2>1. /\ Moves(w) /\ pc[w] \in {"coldList", "list"} /\ pc'[w] \in {"coldMeta", "storeMeta"}
        /\ seen'[w] = db /\ UNCHANGED <<client, key, floor, myGen>>
    BY <1>0, <1>13 DEF List, Moves, Goto, TypeOK, snapshots
  <2>2. Ordered(w)'
    BY <1>0, <2>1, <1>a, PolicyAssumption DEF Ordered, Moves, Listing, Evaluating, TypeOK, Versions
  <2> QED BY <1>0, <2>1, <2>2, EvaluationKeeps DEF Listing
<1>14. ASSUME NEW w \in Workers, StoreMeta(w) PROVE PolicyInv'
  <2> DEFINE m == computePolicyMeta(script[seen[w]])
  <2>1. /\ Moves(w) /\ pc[w] \in {"coldMeta", "storeMeta"} /\ pc'[w] \in {"put", "get"}
        /\ UNCHANGED <<client, seen, floor, myGen>>
    BY <1>0, <1>14 DEF StoreMeta, Moves, Goto, TypeOK, snapshots
  <2>2. pc'[w] = "get" => key'[w] # None
    <3>1. client[w] # None
      BY <2>1, <1>a DEF Ordered, Evaluating
    <3>2. pc'[w] = "get" => key'[w] = evalCacheKeyFor(client[w], m) /\ ~ ("grace" \in m)
      <4> HIDE DEF m
      <4> QED BY <1>0, <1>14 DEF StoreMeta, Goto, TypeOK, m
    <3> HIDE DEF m
    <3> QED BY <3>1, <3>2, PolicyAssumption DEF evalCacheKeyFor
  <2>3. Ordered(w)'
    BY <2>1, <2>2, <1>a DEF Ordered, Moves, Listing, Evaluating
  <2> QED BY <1>0, <2>1, <2>3, EvaluationKeeps DEF Listing
<1>15. ASSUME NEW w \in Workers, Get(w) PROVE PolicyInv'
  <2>1. /\ Moves(w) /\ pc[w] = "get" /\ pc'[w] \in {"done", "list", "put"}
        /\ pc'[w] = "put" => seen[w] # None
        /\ UNCHANGED <<client, key, seen, floor, myGen>>
    BY <1>0, <1>15 DEF Get, Moves, Goto, TypeOK, snapshots
  <2>2. Ordered(w)'
    BY <2>1, <1>a DEF Ordered, Moves, Listing, Evaluating
  <2> QED BY <1>0, <2>1, <2>2, EvaluationKeeps DEF Listing
<1>16. ASSUME NEW w \in Workers, Put(w) PROVE PolicyInv'
  <2>1. /\ Moves(w) /\ pc[w] = "put" /\ pc'[w] = "done"
        /\ UNCHANGED <<client, key, seen, floor, myGen>>
    BY <1>0, <1>16 DEF Put, Moves, Goto, TypeOK, snapshots
  <2>2. Ordered(w)'
    BY <2>1, <1>a DEF Ordered, Moves, Listing, Evaluating
  <2> QED BY <1>0, <2>1, <2>2, EvaluationKeeps DEF Listing
<1>17. ASSUME NEW r \in Replicas,
              \/ AdminPublish(r) \/ Lose(r) \/ DropVerdicts(r) \/ resetMeta(r)
              \/ \E k \in CacheKeys : VerdictExpires(r, k)
       PROVE  PolicyInv'
  BY <1>1, <1>17 DEF AdminPublish, Lose, DropVerdicts, resetMeta, VerdictExpires
<1>18. CASE UNCHANGED vars
  BY <1>1, <1>18 DEF vars
<1> QED
  BY <1>2, <1>3, <1>4, <1>5, <1>6, <1>7, <1>8, <1>9, <1>10, <1>11, <1>12, <1>13, <1>14,
     <1>15, <1>16, <1>17, <1>18
  DEF Next, WorkerStep, InvalidationStep, LoadFails, ListFails, Return

\* Types hold, every snapshot, load and answer is at least as new as the
\* invalidation it follows, and no load serves a caller of a later generation.
THEOREM PolicyInvariant == Spec => []PolicyInv
<1>1. Init => PolicyInv
  BY InvInit
<1>2. PolicyInv /\ [Next]_vars => PolicyInv'
  BY InvStep
<1> QED BY <1>1, <1>2, PTL DEF Spec

-----------------------------------------------------------------------------
(* The refinement. *)

\* An idle replica set is one nobody has asked anything.
LEMMA FreshInit == Init => Fresh!Init
BY DEF Init, Fresh!Init, Fresh!Readers, Workers, Phase, Listing

\* Every step is a step of FreshReads or none.
LEMMA FreshStep == PolicyInv /\ PolicyInv' /\ [Next]_vars => [Fresh!Next]_(Fresh!vars)
<1> SUFFICES ASSUME PolicyInv, PolicyInv', [Next]_vars PROVE [Fresh!Next]_(Fresh!vars)
    OBVIOUS
<1> DEFINE phase == [w \in Workers |-> Phase(w)]
           answer == [w \in Workers |-> IF Phase(w) = "told" THEN seen[w] ELSE None]
<1>0. TypeOK /\ TypeOK' /\ Fresh!Readers = Workers
  BY DEF PolicyInv, Fresh!Readers, Workers
<1>1. CASE UNCHANGED <<db, flushed, phase, floor, answer>>
  BY <1>1 DEF Fresh!vars
<1>2. ASSUME NEW r \in Replicas, Edit(r) PROVE Fresh!Commit
  BY <1>2 DEF Edit, Fresh!Commit, snapshots, request, Phase
<1>3. ASSUME NEW r \in Replicas, localInvalidate(r), UNCHANGED <<op, db, request>>
      PROVE Fresh!Flush(r)
  BY <1>3 DEF localInvalidate, Fresh!Flush, request, Phase
<1>4. ASSUME NEW w \in Workers, StartList(w) PROVE Fresh!Ask(w)
  <2>1. /\ Phase(w) = "idle" /\ Phase(w)' = "asked"
        /\ \A v \in Workers \ {w} : Phase(v)' = Phase(v)
    BY <1>0, <1>4 DEF StartList, Goto, Phase, Listing, TypeOK
  <2>2. phase' = [phase EXCEPT ![w] = "asked"]
    BY <2>1, Zenon
  <2>3. answer' = answer
    BY <1>4, <2>1 DEF StartList
  <2> HIDE DEF phase, answer
  <2>4. phase[w] = "idle"
    BY <2>1 DEF phase
  <2> QED BY <1>4, <2>2, <2>3, <2>4 DEF StartList, Fresh!Ask, snapshots, Home, phase, answer
<1>5. ASSUME NEW S \in SUBSET Workers, NEW v \in 0..db, UNCHANGED <<op, db, flushed, floor>>,
             \A w \in S : pc[w] \in Listing /\ v >= floor[w],
             pc' = [w \in Workers |-> IF w \in S THEN "done" ELSE pc[w]],
             seen' = [w \in Workers |-> IF w \in S THEN v ELSE seen[w]],
             op = "list"
      PROVE  Fresh!Tell(S, v)
  <2>1. \A w \in Workers : Phase(w)' = IF w \in S THEN "told" ELSE Phase(w)
    BY <1>5 DEF Phase, Listing
  <2>2. \A w \in S : Phase(w) = "asked" /\ floor[w] <= v
    BY <1>0, <1>5, PolicyAssumption DEF Phase, TypeOK, Versions
  <2> QED BY <1>0, <1>5, <2>1, <2>2, PolicyAssumption DEF Fresh!Tell, TypeOK, Versions
<1>6. ASSUME NEW S \in SUBSET Workers, Reset(S) PROVE Fresh!End(S)
  <2>1. \A w \in Workers : Phase(w)' = IF w \in S THEN "idle" ELSE Phase(w)
    BY <1>6 DEF Reset, Phase, Listing
  <2> QED BY <1>0, <1>6, <2>1 DEF Reset, Fresh!End, snapshots
<1>7. ASSUME NEW w \in Workers, Look(w) PROVE [Fresh!Next]_(Fresh!vars)
  <2>0. /\ pc[w] = "look" /\ UNCHANGED <<op, db, flushed, floor>>
        /\ Ordered(w) /\ Current(Home(w)) /\ Home(w) \in Replicas
    BY <1>7, InvInParts, HomeOfWorker DEF Look, snapshots
  <2>1. CASE snap[Home(w)] # None
    <3>1. /\ pc' = [v \in Workers |-> IF v \in {w} THEN "done" ELSE pc[v]]
          /\ seen' = [v \in Workers |-> IF v \in {w} THEN snap[Home(w)] ELSE seen[v]]
      BY <1>0, <1>7, <2>1 DEF Look, Goto, TypeOK
    <3>2. snap[Home(w)] \in 0..db /\ snap[Home(w)] >= floor[w] /\ op = "list"
      BY <1>0, <2>0, <2>1, PolicyAssumption DEF Current, Ordered, Listing, TypeOK, Versions
    <3>3. PICK S \in SUBSET Workers : S = {w}
      OBVIOUS
    <3>4. PICK v \in 0..db : v = snap[Home(w)]
      BY <3>2
    <3>5. Fresh!Tell(S, v)
      BY <1>5, <2>0, <3>1, <3>2, <3>3, <3>4 DEF Listing
    <3> QED BY <1>0, <3>5 DEF Fresh!Next
  <2>2. CASE snap[Home(w)] = None
    <3>1. UNCHANGED seen /\ \A v \in Workers : Phase(v)' = Phase(v)
      BY <1>0, <1>7, <2>0, <2>2 DEF Look, Goto, Phase, Listing, TypeOK
    <3> QED BY <1>1, <2>0, <3>1
  <2> QED BY <2>1, <2>2
<1>8. ASSUME NEW l \in Workers, Keep(l) PROVE Fresh!Next
  <2>1. pc[l] = "keep" /\ Ordered(l) /\ UNCHANGED <<op, db, flushed, floor>>
    BY <1>8, InvInParts DEF Keep
  <2>2. \A w \in Flight(l) : w \in Workers /\ pc[w] \in Listing /\ seen[l] >= floor[w]
    BY <1>8, <2>1, InvInParts DEF Flight, Serves, SameFlight, Listing
  <2>3. seen[l] \in 0..db /\ op = "list"
    BY <1>0, <2>1, PolicyAssumption DEF Ordered, Listing, TypeOK, Versions
  <2>4. PICK S \in SUBSET Workers : S = Flight(l)
    BY <2>2
  <2>5. PICK v \in 0..db : v = seen[l]
    BY <2>3
  <2>6. Fresh!Tell(S, v)
    BY <1>5, <1>8, <2>1, <2>2, <2>3, <2>4, <2>5 DEF Keep
  <2> QED BY <1>0, <2>6 DEF Fresh!Next
<1>9. ASSUME NEW w \in Workers, Do(w) \/ Load(w) PROVE [Fresh!Next]_(Fresh!vars)
  <2>1. /\ UNCHANGED <<op, db, flushed, floor>>
        /\ pc[w] \in Listing /\ pc'[w] \in Listing
        /\ \A v \in Workers \ {w} : pc'[v] = pc[v] /\ seen'[v] = seen[v]
    BY <1>0, <1>9 DEF Do, Load, Goto, Listing, TypeOK, snapshots
  <2>2. /\ \A v \in Workers : Phase(v)' = Phase(v)
        /\ \A v \in Workers : Phase(v) = "told" => seen'[v] = seen[v]
    BY <2>1 DEF Phase
  <2> QED BY <1>1, <2>1, <2>2
<1>10. ASSUME NEW w \in Workers,
              \/ \E c \in Clients : StartEvaluate(w, c)
              \/ CachedMeta(w) \/ List(w) \/ StoreMeta(w) \/ Get(w) \/ Put(w)
       PROVE  [Fresh!Next]_(Fresh!vars)
  <2>1. UNCHANGED <<op, db, flushed, floor>> /\ op = "evaluate"
    <3>1. Ordered(w)
      BY InvInParts
    <3> QED BY <1>10, <3>1 DEF StartEvaluate, CachedMeta, List, StoreMeta, Get, Put,
                               Ordered, Evaluating, snapshots
  <2>2. \A v \in Workers : Phase(v) = "idle" /\ Phase(v)' = "idle"
    <3>1. \A v \in Workers : pc[v] \notin Listing /\ pc'[v] \notin Listing
      BY <2>1, InvInParts, InvInPartsNext DEF Ordered
    <3> QED BY <2>1, <3>1 DEF Phase
  <2> QED BY <1>1, <2>1, <2>2
<1>11. ASSUME NEW r \in Replicas,
              \/ AdminPublish(r) \/ Lose(r) \/ DropVerdicts(r) \/ resetMeta(r)
              \/ SnapshotExpires(r) \/ \E k \in CacheKeys : VerdictExpires(r, k)
       PROVE  [Fresh!Next]_(Fresh!vars)
  <2>1. UNCHANGED <<op, db, flushed, floor, pc, seen>>
    BY <1>11 DEF AdminPublish, Lose, DropVerdicts, resetMeta, SnapshotExpires, VerdictExpires,
                 snapshots, request
  <2> QED BY <1>1, <2>1 DEF Phase
<1>12. CASE UNCHANGED vars
  <2>1. UNCHANGED <<op, db, flushed, floor, pc, seen>>
    BY <1>12 DEF vars, snapshots, request
  <2> QED BY <1>1, <2>1 DEF Phase
<1>13. ASSUME NEW r \in Replicas, AdminInvalidate(r) \/ Deliver(r) \/ InvalidateAll(r)
       PROVE  Fresh!Next
  BY <1>3, <1>13 DEF AdminInvalidate, Deliver, InvalidateAll, Fresh!Next
<1>14. ASSUME NEW w \in Workers, LoadFails(w) \/ ListFails(w) \/ Return(w) PROVE Fresh!Next
  <2>1. {w} \in SUBSET Workers /\ Flight(w) \in SUBSET Workers
    BY DEF Flight
  <2>2. \E S \in SUBSET Workers : Fresh!End(S)
    BY <1>6, <1>14, <2>1 DEF LoadFails, ListFails, Return
  <2> QED BY <1>0, <2>2 DEF Fresh!Next
<1>15. ASSUME NEW r \in Replicas, Edit(r) PROVE Fresh!Next
  BY <1>2, <1>15 DEF Fresh!Next
<1>16. ASSUME NEW w \in Workers, StartList(w) PROVE Fresh!Next
  BY <1>0, <1>4, <1>16 DEF Fresh!Next
<1> QED
  BY <1>7, <1>8, <1>9, <1>10, <1>11, <1>12, <1>13, <1>14, <1>15, <1>16
  DEF Next, WorkerStep, InvalidationStep

\* ListPolicies implements FreshReads: whatever loads, edits, invalidations and
\* failures overlap, a list is no older than what the replica had invalidated
\* when the caller came in.
THEOREM ListsAreFresh == Spec => ImplementsFreshReads
<1>1. Init => Fresh!Init
  BY FreshInit
<1>2. PolicyInv /\ PolicyInv' /\ [Next]_vars => [Fresh!Next]_(Fresh!vars)
  BY FreshStep
<1> QED BY <1>1, <1>2, PolicyInvariant, PTL DEF Spec, ImplementsFreshReads, Fresh!Spec

\* The reference for verdicts holds of every list in the run and of every list
\* the org goes through.
THEOREM VerdictsFollowRanks == Spec => []DeniesByRank
<1>1. PolicyInv => DeniesByRank
  <2> SUFFICES ASSUME PolicyInv PROVE DeniesByRank
      OBVIOUS
  <2>1. IsPolicyList(script[db]) /\ \A P \in Lists : IsPolicyList(P)
    BY PolicyAssumption DEF PolicyInv, TypeOK
  <2> QED BY <2>1, RanksDecideAlways DEF DeniesByRank, RanksDecideLists, RanksDecide
<1> QED BY <1>1, PolicyInvariant, PTL

=============================================================================
