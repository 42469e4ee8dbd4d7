-------------------------- MODULE DiskTier_proofs --------------------------
(***************************************************************************)
(* TierInv holds for every number of threads, files and blob keys, every   *)
(* size and every fault.  It is inductive: the only step that brings a file*)
(* into being is the rename of a commit, and a drop is told of it.         *)
(***************************************************************************)
EXTENDS DiskTier, FiniteSetTheorems, TLAPS

\* Initially TierInv holds.
LEMMA TierInit == Init => TierInv
BY TierAssumption DEF Init, TierInv, TypeOK, ThreadsKnowTheirFile,
   DropRemovesTheIndexed, Steps, Contents

\* Eviction only takes files away.
LEMMA EvictionTakes ==
    ASSUME TypeOK, NEW S, NEW R, NEW bytes, NEW T, EvictFrom(S, R, bytes, T)
    PROVE  /\ file' \in [Names -> Contents]
           /\ \A n \in Names : file'[n] # "absent" => file[n] # "absent"
BY DEF TypeOK, EvictFrom, Contents

\* Every step keeps TierInv.
LEMMA TierStep ==
    ASSUME TierInv, [Next]_vars
    PROVE  TierInv'
<1> USE TierAssumption DEF TierInv, TypeOK, ThreadsKnowTheirFile,
        DropRemovesTheIndexed, Steps, Contents, Goto, index, removal, thread, bounds
<1>1. ASSUME NEW t \in Threads, NEW n \in Names, Open(t, n) PROVE TierInv'
  BY <1>1 DEF Open
<1>2. ASSUME NEW t \in Threads, NEW n \in Names, OpenAt(t, n) PROVE TierInv'
  BY <1>2 DEF OpenAt
<1>3. ASSUME NEW t \in Threads, NEW n \in Names, Rename(t, n) PROVE TierInv'
  BY <1>3 DEF Rename
<1>4. ASSUME NEW t \in Threads, NEW k \in BlobKeys, Drop(t, k) PROVE TierInv'
  BY <1>4 DEF Drop
<1>5. ASSUME NEW t \in Threads, Miss(t) PROVE TierInv'
  BY <1>5 DEF Miss, Return
<1>6. ASSUME NEW t \in Threads, Touch(t) PROVE TierInv'
  <2>1. pc[t] \in {"touch", "touchAt"} /\ UNCHANGED <<file, removal>>
    BY <1>6 DEF Touch
  <2>2. \/ Return(t)
        \/ UNCHANGED <<name, fd>> /\ \E p \in {"read", "reindex"} : Goto(t, p)
    BY <1>6 DEF Touch
  <2>3. CASE Return(t)
    BY <2>1, <2>3 DEF Return
  <2>4. ASSUME UNCHANGED <<name, fd>>, NEW p \in {"read", "reindex"}, Goto(t, p)
        PROVE  TierInv'
    BY <2>1, <2>4
  <2> QED BY <2>2, <2>3, <2>4
<1>7. ASSUME NEW t \in Threads, Reindex(t) PROVE TierInv'
  BY <1>7 DEF Reindex
<1>8. ASSUME NEW t \in Threads, ReadEnd(t) PROVE TierInv'
  BY <1>8 DEF ReadEnd, Return
<1>9. ASSUME NEW t \in Threads, Close(t) PROVE TierInv'
  BY <1>9 DEF Close, Return
<1>10. ASSUME NEW t \in Threads, Index(t) PROVE TierInv'
  BY <1>10 DEF Index
<1>11. ASSUME NEW t \in Threads, Evict(t) PROVE TierInv'
  <2>1. /\ file' \in [Names -> Contents]
        /\ \A n \in Names : file'[n] # "absent" => file[n] # "absent"
    BY <1>11, EvictionTakes DEF Evict
  <2> QED BY <1>11, <2>1 DEF Evict, Return
<1>12. ASSUME NEW t \in Threads, Forget(t) PROVE TierInv'
  BY <1>12 DEF Forget
<1>13. ASSUME NEW t \in Threads, Unlink(t) PROVE TierInv'
  BY <1>13 DEF Unlink
<1>14. ASSUME NEW t \in Threads, DropEnd(t) PROVE TierInv'
  BY <1>14 DEF DropEnd, Return
<1>15. ASSUME NEW n \in Names, Damage(n) PROVE TierInv'
  BY <1>15 DEF Damage
<1>16. CASE Restart
  <2>1. file' \in [Names -> Contents]
    BY <1>16, EvictionTakes DEF Restart
  <2> QED BY <1>16, <2>1 DEF Restart
<1>17. CASE UNCHANGED vars
  BY <1>17 DEF vars
<1> QED BY <1>1, <1>2, <1>3, <1>4, <1>5, <1>6, <1>7, <1>8, <1>9, <1>10, <1>11,
           <1>12, <1>13, <1>14, <1>15, <1>16, <1>17 DEF Next, Step

\* When drop returns, every copy of its blob key that the tier had indexed at
\* its start is gone, whatever commits, opens, evictions and faults came in
\* between; a file that is left was not indexed then or was committed since.
THEOREM DropsAreThorough == Spec => []TierInv
<1>1. Init => TierInv
  BY TierInit
<1>2. TierInv /\ [Next]_vars => TierInv'
  BY TierStep
<1> QED BY <1>1, <1>2, PTL DEF Spec

-----------------------------------------------------------------------------
(* The byte counter and the cap. *)

\* Files are finite, and so are their bytes.
LEMMA BytesAreFinite ==
    ASSUME NEW S \in SUBSET Names
    PROVE  IsFiniteSet(BytesOf(S)) /\ Bytes(S) \in Nat
<1>1. IsFiniteSet(S)
  BY TierAssumption, FS_Subset
<1>2. ASSUME NEW n \in Names PROVE IsFiniteSet({n} \X (1..Size[n]))
  <2>1. Size[n] \in Int /\ 1 \in Int
    BY TierAssumption
  <2>2. IsFiniteSet(1..Size[n])
    BY <2>1, FS_Interval
  <2>3. IsFiniteSet({n})
    BY FS_Singleton
  <2> QED BY <2>2, <2>3, FS_Product
<1> DEFINE F == [n \in S |-> {n} \X (1..Size[n])]
           T == {F[n] : n \in S}
<1>3. F \in Surjection(S, T)
  BY DEF Surjection
<1>4. IsFiniteSet(T)
  <2> HIDE DEF F, T
  <2> QED BY <1>1, <1>3, FS_Surjection
<1>5. BytesOf(S) = UNION T
  BY DEF BytesOf
<1>6. \A U \in T : IsFiniteSet(U)
  BY <1>2
<1>7. IsFiniteSet(BytesOf(S))
  <2> HIDE DEF T
  <2> QED BY <1>4, <1>5, <1>6, FS_UNION
<1> QED BY <1>7, FS_CardinalityType DEF Bytes

\* The bytes of one file.
LEMMA BytesOfOne ==
    ASSUME NEW n \in Names
    PROVE  Bytes({n}) = Size[n]
<1>1. BytesOf({n}) = {n} \X (1..Size[n])
  BY DEF BytesOf
<1>2. Size[n] \in Nat
  BY TierAssumption
<1>3. IsFiniteSet({n}) /\ Cardinality({n}) = 1
  BY FS_Singleton
<1>4. IsFiniteSet(1..Size[n]) /\ Cardinality(1..Size[n]) = Size[n]
  BY <1>2, FS_Interval
<1>5. Cardinality({n} \X (1..Size[n])) = Cardinality({n}) * Cardinality(1..Size[n])
  BY <1>3, <1>4, FS_Product, Zenon
<1>6. Bytes({n}) = Cardinality({n}) * Cardinality(1..Size[n])
  BY <1>1, <1>5, Zenon DEF Bytes
<1>7. Bytes({n}) = 1 * Size[n]
  BY <1>3, <1>4, <1>6, Zenon
<1> QED BY <1>2, <1>7

\* The bytes of files that are not the same ones add up.
LEMMA BytesAddUp ==
    ASSUME NEW S \in SUBSET Names, NEW T \in SUBSET Names, S \cap T = {}
    PROVE  Bytes(S \cup T) = Bytes(S) + Bytes(T)
<1>1. BytesOf(S \cup T) = BytesOf(S) \cup BytesOf(T)
  BY DEF BytesOf
<1>2. BytesOf(S) \cap BytesOf(T) = {}
  BY DEF BytesOf
<1>3. IsFiniteSet(BytesOf(S)) /\ IsFiniteSet(BytesOf(T)) /\ Bytes(S) \in Nat /\ Bytes(T) \in Nat
  BY BytesAreFinite
<1>4. Cardinality({}) = 0
  BY FS_EmptySet
<1>5. Cardinality(BytesOf(S) \cup BytesOf(T)) =
        Cardinality(BytesOf(S)) + Cardinality(BytesOf(T)) - Cardinality(BytesOf(S) \cap BytesOf(T))
  BY <1>3, FS_Union
<1>6. Bytes(S \cup T) = Bytes(S) + Bytes(T) - 0
  BY <1>1, <1>2, <1>4, <1>5, Zenon DEF Bytes
<1> QED BY <1>3, <1>6

\* Fewer files have no more bytes, and exactly those of the others less.
LEMMA BytesWithout ==
    ASSUME NEW S \in SUBSET Names, NEW T \in SUBSET S
    PROVE  /\ Bytes(S \ T) = Bytes(S) - Bytes(T)
           /\ Bytes(T) =< Bytes(S)
<1>1. Bytes((S \ T) \cup T) = Bytes(S \ T) + Bytes(T)
  BY BytesAddUp
<1>2. (S \ T) \cup T = S
  OBVIOUS
<1>3. Bytes(S) \in Nat /\ Bytes(T) \in Nat /\ Bytes(S \ T) \in Nat
  BY BytesAreFinite
<1>4. Bytes(S) = Bytes(S \ T) + Bytes(T)
  BY <1>1, <1>2, Zenon
<1> QED BY <1>3, <1>4

\* Fewer names are still in one order of use.
LEMMA OrderOfFewer ==
    ASSUME NEW S, NEW R \in Orders(S), NEW T \in SUBSET S
    PROVE  R \cap (T \X T) \in Orders(T)
BY DEF Orders

\* So are the names after one of them, or a new one, was used.
LEMMA OrderOfUse ==
    ASSUME older \in Orders(entries), NEW n
    PROVE  UsedNow(n) \in Orders(entries \cup {n})
<1> DEFINE E == entries \ {n}
           R == older \cap (E \X E)
           N == R \cup (E \X {n})
<1>1. R \in Orders(E)
  BY OrderOfFewer
<1>2. N \in SUBSET ((entries \cup {n}) \X (entries \cup {n}))
  OBVIOUS
<1>3. ASSUME NEW k \in entries \cup {n}, NEW m \in entries \cup {n}
      PROVE  /\ <<k, m>> \in N <=> (k # n /\ m = n) \/ (k # n /\ m # n /\ <<k, m>> \in R)
             /\ k # n => k \in E
  OBVIOUS
<1>4. UsedNow(n) = N
  BY DEF UsedNow, Within
<1> HIDE DEF E, R, N
<1>5. \A m \in entries \cup {n} : <<m, m>> \notin N
  BY <1>1, <1>3 DEF Orders
<1>6. \A k, m \in entries \cup {n} : k # m => (<<k, m>> \in N <=> <<m, k>> \notin N)
  BY <1>1, <1>3 DEF Orders
<1>7. \A k, l, m \in entries \cup {n} : <<k, l>> \in N /\ <<l, m>> \in N => <<k, m>> \in N
  BY <1>1, <1>3 DEF Orders
<1> QED BY <1>2, <1>4, <1>5, <1>6, <1>7 DEF Orders

\* index counts a new entry once and an old one not again, and owes its
\* eviction.
LEMMA IndexedKeepsCap ==
    ASSUME CapHolds, NEW n \in Names, Indexed(n)
    PROVE  CapHolds'
<1>0. entries \in SUBSET Names /\ Bytes(entries) \in Nat /\ Size[n] \in Nat /\ MaxBytes \in Nat
  BY BytesAreFinite, TierAssumption DEF CapHolds
<1>1. entries' \subseteq Names /\ older' \in Orders(entries')
  BY OrderOfUse DEF CapHolds, Indexed
<1>2. total' = Bytes(entries')
  <2>1. CASE n \in entries
    <3>1. entries' = entries
      BY <2>1 DEF Indexed
    <3>2. total' = (total - Size[n]) + Size[n]
      BY <2>1 DEF Indexed
    <3> QED BY <1>0, <3>1, <3>2 DEF CapHolds
  <2>2. CASE n \notin entries
    <3>1. Bytes(entries \cup {n}) = Bytes(entries) + Bytes({n})
      BY <1>0, <2>2, BytesAddUp
    <3>2. Bytes({n}) = Size[n]
      BY BytesOfOne
    <3> QED BY <1>0, <2>2, <3>1, <3>2 DEF CapHolds, Indexed
  <2> QED BY <2>1, <2>2
<1>3. Bytes(entries' \ owed') =< MaxBytes
  <2>1. entries' \ owed' \in SUBSET (entries \ owed) /\ entries \ owed \in SUBSET Names
    BY <1>0 DEF Indexed
  <2>2. Bytes(entries' \ owed') =< Bytes(entries \ owed)
    BY <2>1, BytesWithout
  <2>3. Bytes(entries' \ owed') \in Nat /\ Bytes(entries \ owed) \in Nat
    BY <2>1, BytesAreFinite
  <2> QED BY <1>0, <2>2, <2>3 DEF CapHolds
<1> QED BY <1>1, <1>2, <1>3 DEF CapHolds

\* forgetLocked takes an entry's bytes off, and nothing for a name it does not
\* have.
LEMMA ForgottenKeepsCap ==
    ASSUME CapHolds, NEW n \in Names, Forgotten(n)
    PROVE  CapHolds'
<1>0. entries \in SUBSET Names /\ Bytes(entries) \in Nat /\ MaxBytes \in Nat
  BY BytesAreFinite, TierAssumption DEF CapHolds
<1>1. entries' \subseteq Names /\ older' \in Orders(entries')
  BY OrderOfFewer DEF CapHolds, Forgotten, Within
<1>2. total' = Bytes(entries')
  <2>1. CASE n \in entries
    <3>1. Bytes(entries \ {n}) = Bytes(entries) - Bytes({n})
      BY <1>0, <2>1, BytesWithout
    <3>2. Bytes({n}) = Size[n]
      BY BytesOfOne
    <3> QED BY <2>1, <3>1, <3>2 DEF CapHolds, Forgotten
  <2>2. CASE n \notin entries
    <3>1. entries' = entries /\ total' = total
      BY <2>2 DEF Forgotten
    <3> QED BY <3>1 DEF CapHolds
  <2> QED BY <2>1, <2>2
<1>3. Bytes(entries' \ owed') =< MaxBytes
  <2>1. entries' \ owed' \in SUBSET (entries \ owed) /\ entries \ owed \in SUBSET Names
    BY <1>0 DEF Forgotten
  <2>2. Bytes(entries' \ owed') =< Bytes(entries \ owed)
    BY <2>1, BytesWithout
  <2>3. Bytes(entries' \ owed') \in Nat /\ Bytes(entries \ owed) \in Nat
    BY <2>1, BytesAreFinite
  <2> QED BY <1>0, <2>2, <2>3 DEF CapHolds
<1> QED BY <1>1, <1>2, <1>3 DEF CapHolds

\* evictLocked, at a commit or at the start, leaves no more than the cap.
LEMMA EvictionKeepsCap ==
    ASSUME NEW S \in SUBSET Names, NEW R \in Orders(S),
           NEW T \in Evictions(S, R, Bytes(S)), EvictFrom(S, R, Bytes(S), T)
    PROVE  CapHolds'
<1>0. /\ MaxBytes \in Nat /\ Bytes(S) \in Nat
      /\ (MaxBytes * 9) \div 10 =< MaxBytes /\ (MaxBytes * 9) \div 10 \in Int
  BY TierAssumption, BytesAreFinite
<1>1. /\ T \in SUBSET S
      /\ \/ T = {} /\ Bytes(S) =< MaxBytes
         \/ Bytes(S) - Bytes(T) =< (MaxBytes * 9) \div 10
  BY DEF Evictions
<1>2. /\ entries' = S \ T /\ owed' = {} /\ total' = Bytes(S) - Bytes(T)
      /\ older' = R \cap ((S \ T) \X (S \ T))
  BY DEF EvictFrom
<1>3. entries' \subseteq Names /\ older' \in Orders(entries')
  BY <1>1, <1>2, OrderOfFewer
<1>4. Bytes(S \ T) = Bytes(S) - Bytes(T) /\ Bytes(T) \in Nat /\ Bytes(S \ T) \in Nat
  <2>1. T \in SUBSET S /\ T \in SUBSET Names /\ S \ T \in SUBSET Names
    BY <1>1
  <2>2. Bytes(S \ T) = Bytes(S) - Bytes(T)
    BY <2>1, BytesWithout
  <2>3. Bytes(T) \in Nat
    BY <2>1, BytesAreFinite
  <2>4. Bytes(S \ T) \in Nat
    BY <2>1, BytesAreFinite
  <2> QED BY <2>2, <2>3, <2>4
<1>5. Bytes(S \ T) =< MaxBytes
  <2>1. CASE T = {} /\ Bytes(S) =< MaxBytes
    <3>1. S \ T = S
      BY <2>1
    <3> QED BY <2>1, <3>1
  <2>2. CASE Bytes(S) - Bytes(T) =< (MaxBytes * 9) \div 10
    BY <1>0, <1>4, <2>2
  <2> QED BY <1>1, <2>1, <2>2
<1>6. entries' \ owed' = S \ T
  BY <1>2
<1> QED BY <1>2, <1>3, <1>4, <1>5, <1>6 DEF CapHolds

\* Every step keeps the counter, the order and the cap.
LEMMA CapStep ==
    ASSUME TierInv, CapHolds, [Next]_vars
    PROVE  CapHolds'
<1> USE DEF index, removal, thread, bounds
<1>1. ASSUME NEW t \in Threads, Miss(t) PROVE CapHolds'
  <2>1. name[t] \in Names
    BY <1>1 DEF Miss, TierInv, ThreadsKnowTheirFile
  <2> QED BY <1>1, <2>1, ForgottenKeepsCap DEF Miss
<1>2. ASSUME NEW t \in Threads, Touch(t) PROVE CapHolds'
  <2>1. UNCHANGED <<entries, total, owed>>
    BY <1>2 DEF Touch
  <2>2. older' \in Orders(entries)
    <3>1. CASE name[t] \in entries
      <4>1. entries \cup {name[t]} = entries
        BY <3>1
      <4>2. UsedNow(name[t]) \in Orders(entries \cup {name[t]})
        BY OrderOfUse DEF CapHolds
      <4> QED BY <1>2, <3>1, <4>1, <4>2 DEF Touch
    <3>2. CASE name[t] \notin entries
      BY <1>2, <3>2 DEF Touch, CapHolds
    <3> QED BY <3>1, <3>2
  <2> QED BY <2>1, <2>2 DEF CapHolds
<1>3. ASSUME NEW t \in Threads, Reindex(t) \/ Index(t) PROVE CapHolds'
  <2>1. name[t] \in Names
    BY <1>3 DEF Reindex, Index, TierInv, ThreadsKnowTheirFile
  <2> QED BY <1>3, <2>1, IndexedKeepsCap DEF Reindex, Index
<1>4. ASSUME NEW t \in Threads, Evict(t) PROVE CapHolds'
  <2>1. PICK T \in Evictions(entries, older, total) : EvictFrom(entries, older, total, T)
    BY <1>4 DEF Evict
  <2>2. total = Bytes(entries) /\ entries \in SUBSET Names /\ older \in Orders(entries)
    BY DEF CapHolds
  <2> QED BY <2>1, <2>2, EvictionKeepsCap
<1>5. ASSUME NEW t \in Threads, Forget(t) PROVE CapHolds'
  <2>1. PICK n \in todo[t] : Forgotten(n)
    BY <1>5 DEF Forget
  <2>2. n \in Names
    BY <2>1 DEF TierInv, TypeOK
  <2> QED BY <2>1, <2>2, ForgottenKeepsCap
<1>6. CASE Restart
  <2> DEFINE found == {n \in Names : file[n] # "absent"}
  <2>1. PICK R \in Orders(found) : \E T \in Evictions(found, R, Bytes(found)) :
           EvictFrom(found, R, Bytes(found), T)
    BY <1>6 DEF Restart
  <2>2. found \in SUBSET Names
    OBVIOUS
  <2> HIDE DEF found
  <2> QED BY <2>1, <2>2, EvictionKeepsCap
<1>7. ASSUME NEW t \in Threads,
             \/ \E n \in Names : Open(t, n) \/ OpenAt(t, n) \/ Rename(t, n)
             \/ \E k \in BlobKeys : Drop(t, k)
             \/ ReadEnd(t) \/ Close(t) \/ Unlink(t) \/ DropEnd(t)
      PROVE  CapHolds'
  <2>1. UNCHANGED index
    BY <1>7 DEF Open, OpenAt, Rename, Drop, ReadEnd, Close, Unlink, DropEnd
  <2> QED BY <2>1 DEF CapHolds
<1>8. CASE (\E n \in Names : Damage(n)) \/ UNCHANGED vars
  <2>1. UNCHANGED index
    BY <1>8 DEF Damage, vars
  <2> QED BY <2>1 DEF CapHolds
<1> QED BY <1>1, <1>2, <1>3, <1>4, <1>5, <1>6, <1>7, <1>8 DEF Next, Step

\* DiskTier.total is the size of what is indexed, and what was indexed before
\* the last eviction fits the cap, whatever commits, opens, removals,
\* evictions, damage and restarts interleave to.
THEOREM CapIsKept == Spec => []CapHolds
<1>1. Init => CapHolds
  <2> SUFFICES ASSUME Init PROVE CapHolds
      OBVIOUS
  <2>1. entries = {} /\ older = {} /\ total = 0 /\ entries \ owed = {}
    BY DEF Init
  <2>2. Bytes({}) = 0
    BY FS_EmptySet DEF Bytes, BytesOf
  <2>3. {} \in Orders({})
    BY DEF Orders
  <2> QED BY <2>1, <2>2, <2>3, TierAssumption DEF CapHolds
<1>2. TierInv /\ CapHolds /\ [Next]_vars => CapHolds'
  BY CapStep
<1> QED BY <1>1, <1>2, DropsAreThorough, PTL DEF Spec

=============================================================================
