-------------------------- MODULE HostLimiter_proofs --------------------------
(***************************************************************************)
(* Proofs about HostLimiter: LimiterInv is inductive, and RateHolds follows *)
(* from it, for any number of scans and any rates, bursts and deadlines.   *)
(***************************************************************************)
EXTENDS HostLimiter, FiniteSetTheorems, TLAPS

\* The other scans are where they were.
Only(s) == \A p \in Scans \ {s} : /\ pc'[p] = pc[p]
                                  /\ lane'[p] = lane[p]
                                  /\ actAt'[p] = actAt[p]

\* The part of TypeOK that is about scans, with what is left of their work.
ScanOK ==
    /\ pc \in [Scans -> Steps]
    /\ lane \in [Scans -> Lanes]
    /\ actAt \in [Scans -> Times]
    /\ deadline \in [Scans -> Nat]
    /\ credit \in [Scans -> 0..Prepaid]
    /\ tries \in [Scans -> 0..MaxRetries]
    /\ fetches \in [Scans -> 0..MaxFetches]
    /\ \A s \in Scans : OnTrack(s)

\* Both buckets have a positive price and room for a token.
LEMMA LaneFacts ==
    ASSUME NEW l \in Lanes
    PROVE  Cost(l) \in Nat /\ Cost(l) >= 1 /\ Capacity(l) \in Nat /\ Cost(l) <= Capacity(l)
BY LimiterAssumption DEF Lanes, Cost, Capacity

\* A multiple of a price is no smaller than its factor.
LEMMA FactorBound ==
    ASSUME NEW k \in Nat, NEW c \in Nat, c >= 1
    PROVE  k * c \in Nat /\ k <= k * c /\ (k >= 1 => k * c >= c)
           /\ (k + 1) * c = k * c + c /\ (k - 1) * c = k * c - c
OBVIOUS

\* A lane is as sound as before when its bucket did not change and nobody
\* got a reservation of it.
LEMMA Kept ==
    ASSUME LimiterInv, NEW l \in Lanes,
           tokens'[l] = tokens[l], lastEvent'[l] = lastEvent[l], meter'[l] = meter[l],
           \A s \in Holders(l)' : s \in Holders(l) /\ actAt'[s] = actAt[s]
    PROVE  Sound(l)'
<1> USE DEF LimiterInv, Sound
<1>1. Sound(l)
  OBVIOUS
<1>2. Spaced(l)'
  <2>1. ASSUME NEW s \in Holders(l)'
        PROVE  \E k \in 0..lastEvent'[l] : lastEvent'[l] - actAt'[s] = k * Cost(l)
    BY <1>1, <2>1 DEF Spaced
  <2>2. ASSUME NEW s \in Holders(l)', NEW p \in Holders(l)', s # p
        PROVE  actAt'[s] - actAt'[p] >= Cost(l) \/ actAt'[p] - actAt'[s] >= Cost(l)
    BY <1>1, <2>2 DEF Spaced
  <2> QED
    BY <2>1, <2>2 DEF Spaced, Cost
<1>3. Covered(l)'
  BY <1>1 DEF Covered, Cost, Capacity
<1> QED
  BY <1>1, <1>2, <1>3 DEF Capacity

\* A scan that holds nothing after its step keeps both lanes sound.
LEMMA KeptBoth ==
    ASSUME LimiterInv, NEW s \in Scans, Only(s), pc'[s] \notin Holding,
           tokens' = tokens, lastEvent' = lastEvent, meter' = meter
    PROVE  \A l \in Lanes : Sound(l)'
<1>1. \A l \in Lanes : \A p \in Holders(l)' : p \in Holders(l) /\ actAt'[p] = actAt[p]
  BY DEF Holders, Only
<1> QED
  BY <1>1, Kept

\* A lane with a reservation is in debt as far as its last event.
LEMMA HolderFacts ==
    ASSUME LimiterInv, NEW l \in Lanes, NEW s \in Holders(l)
    PROVE  /\ actAt[s] \in Nat /\ lastEvent[l] \in Nat /\ actAt[s] <= lastEvent[l]
           /\ tokens[l] = -lastEvent[l]
           /\ \E k \in Nat : lastEvent[l] - actAt[s] = k * Cost(l)
<1>1. s \in Scans /\ actAt[s] \in Nat
  BY DEF Holders, LimiterInv, TypeOK, Times
<1>2. PICK k \in 0..lastEvent[l] : lastEvent[l] - actAt[s] = k * Cost(l)
  BY DEF LimiterInv, Sound, Spaced
<1>3. lastEvent[l] \in Nat /\ k \in Nat
  BY <1>2 DEF LimiterInv, TypeOK, Times
<1>4. k * Cost(l) \in Nat
  BY <1>3, LaneFacts, FactorBound
<1>5. tokens[l] = -lastEvent[l]
  BY DEF LimiterInv, Sound, Covered
<1> QED
  BY <1>1, <1>2, <1>3, <1>4, <1>5

\* reserveN: the new reservation is one token behind the last, and the
\* tokens granted fit the burst.
LEMMA Reserved ==
    ASSUME LimiterInv, NEW s \in Scans, NEW l \in Lanes, ReserveAt(l), Only(s),
           pc[s] \notin Holding,
           pc'[s] \in Holding => lane'[s] = l /\ actAt'[s] = Delay(l) /\ Delay(l) > 0
    PROVE  \A m \in Lanes : Sound(m)'
<1>1. /\ tokens[l] \in Int /\ meter[l] \in Nat
      /\ tokens'[l] = tokens[l] - Cost(l)
      /\ lastEvent'[l] = Delay(l)
      /\ meter'[l] = IF Delay(l) = 0 THEN meter[l] + Cost(l) ELSE meter[l]
  BY DEF LimiterInv, TypeOK, ReserveAt
<1>2. /\ Delay(l) \in Nat
      /\ Delay(l) = 0 => tokens[l] >= Cost(l)
      /\ Delay(l) > 0 => Delay(l) = Cost(l) - tokens[l]
  BY <1>1, LaneFacts DEF Delay, Larger
<1>3. meter[l] + tokens[l] <= Capacity(l) /\ meter[l] <= Capacity(l)
  BY DEF LimiterInv, Sound, Covered
<1>4. \A p \in Holders(l)' : \/ p \in Holders(l) /\ p # s /\ actAt'[p] = actAt[p]
                             \/ p = s /\ actAt'[s] = Delay(l) /\ Delay(l) > 0
  BY DEF Holders, Only
<1>5. ASSUME NEW p \in Holders(l)', p # s
      PROVE  /\ Delay(l) = lastEvent[l] + Cost(l) /\ Delay(l) > 0
             /\ actAt'[p] \in Nat /\ Delay(l) - actAt'[p] >= Cost(l)
             /\ \E k \in 0..Delay(l) : Delay(l) - actAt'[p] = k * Cost(l)
  <2>1. p \in Holders(l) /\ actAt'[p] = actAt[p]
    BY <1>4, <1>5
  <2>2. /\ actAt[p] \in Nat /\ lastEvent[l] \in Nat /\ actAt[p] <= lastEvent[l]
        /\ tokens[l] = -lastEvent[l]
    BY <2>1, HolderFacts
  <2>3. PICK k \in Nat : lastEvent[l] - actAt[p] = k * Cost(l)
    BY <2>1, HolderFacts
  <2>4. Delay(l) = lastEvent[l] + Cost(l) /\ Delay(l) > 0
    BY <1>1, <1>2, <2>2, LaneFacts
  <2>5. (k + 1) * Cost(l) = k * Cost(l) + Cost(l) /\ k <= k * Cost(l)
    BY LaneFacts, FactorBound
  <2>6. Delay(l) - actAt[p] = (k + 1) * Cost(l) /\ k + 1 \in 0..Delay(l)
    BY <2>2, <2>3, <2>4, <2>5, LaneFacts
  <2> QED
    BY <2>1, <2>2, <2>4, <2>6, LaneFacts
<1>6. Spaced(l)'
  <2>1. ASSUME NEW p \in Holders(l)'
        PROVE  \E k \in 0..Delay(l) : Delay(l) - actAt'[p] = k * Cost(l)
    <3>1. CASE p = s
      <4>1. actAt'[p] = Delay(l) /\ 0 \in 0..Delay(l) /\ 0 * Cost(l) = 0
        BY <1>2, <1>4, <2>1, <3>1, LaneFacts
      <4> QED
        BY <1>2, <4>1
    <3> QED
      BY <1>5, <2>1, <3>1
  <2>2. ASSUME NEW p \in Holders(l)', NEW q \in Holders(l)', p # q
        PROVE  actAt'[p] - actAt'[q] >= Cost(l) \/ actAt'[q] - actAt'[p] >= Cost(l)
    <3>1. CASE p # s /\ q # s
      <4>1. /\ p \in Holders(l) /\ q \in Holders(l)
            /\ actAt'[p] = actAt[p] /\ actAt'[q] = actAt[q]
        BY <1>4, <2>2, <3>1
      <4> QED
        BY <4>1, <2>2 DEF LimiterInv, Sound, Spaced
    <3>2. CASE p = s
      BY <1>4, <1>5, <2>2, <3>2
    <3>3. CASE q = s
      BY <1>4, <1>5, <2>2, <3>3
    <3> QED
      BY <3>1, <3>2, <3>3
  <2> QED
    BY <1>1, <2>1, <2>2 DEF Spaced, Cost
<1>7. Covered(l)' /\ meter'[l] <= Capacity(l)
  <2>1. meter'[l] + tokens'[l] <= Capacity(l) /\ meter'[l] <= Capacity(l)
    BY <1>1, <1>2, <1>3, LaneFacts
  <2>2. ASSUME NEW p \in Holders(l)'
        PROVE  /\ tokens'[l] = -lastEvent'[l]
               /\ actAt'[p] = 0 => meter'[l] >= Cost(l)
               /\ actAt'[p] > 0 => meter'[l] - actAt'[p] + Cost(l) <= Capacity(l)
    <3>1. CASE p = s
      BY <1>1, <1>2, <1>3, <1>4, <2>2, <3>1, LaneFacts
    <3>2. CASE p # s
      <4>1. p \in Holders(l) /\ actAt'[p] = actAt[p] /\ Delay(l) > 0
        BY <1>4, <1>5, <2>2, <3>2
      <4>2. /\ actAt[p] = 0 => meter[l] >= Cost(l)
            /\ actAt[p] > 0 => meter[l] - actAt[p] + Cost(l) <= Capacity(l)
        BY <4>1 DEF LimiterInv, Sound, Covered
      <4> QED
        BY <1>1, <1>2, <4>1, <4>2, LaneFacts
    <3> QED
      BY <3>1, <3>2
  <2> QED
    BY <2>1, <2>2 DEF Covered, Cost, Capacity
<1>8. ASSUME NEW m \in Lanes, m # l
      PROVE  Sound(m)'
  <2>1. tokens'[m] = tokens[m] /\ lastEvent'[m] = lastEvent[m] /\ meter'[m] = meter[m]
    BY <1>8 DEF ReserveAt, LimiterInv, TypeOK
  <2>2. \A p \in Holders(m)' : p \in Holders(m) /\ actAt'[p] = actAt[p]
    BY <1>8 DEF Holders, Only
  <2> QED
    BY <2>1, <2>2, Kept
<1> QED
  BY <1>6, <1>7, <1>8 DEF Sound, Capacity

\* CancelAt: only the furthest reservation gives its token back, and nothing
\* that is still reserved counted on it.
LEMMA Cancelled ==
    ASSUME LimiterInv, NEW s \in Scans, NEW l \in Lanes, l = lane[s], CancelAt(s, l), Only(s),
           pc[s] \in Holding, pc'[s] \notin Holding
    PROVE  /\ tokens' \in [Lanes -> Int] /\ lastEvent' \in [Lanes -> Times]
           /\ meter' \in [Lanes -> Nat]
           /\ \A m \in Lanes : Sound(m)'
<1>0. TypeOK
  BY DEF LimiterInv
<1>1. CASE ~(actAt[s] >= 0 /\ Restored(s, l) > 0)
  <2>1. tokens' = tokens /\ lastEvent' = lastEvent /\ meter' = meter
    BY <1>1 DEF CancelAt, bucket
  <2> QED
    BY <1>0, <2>1, KeptBoth DEF TypeOK
<1>2. CASE actAt[s] >= 0 /\ Restored(s, l) > 0
  <2>1. s \in Holders(l)
    BY <1>2 DEF Holders
  <2>2. /\ actAt[s] \in Nat /\ lastEvent[l] \in Nat /\ tokens[l] = -lastEvent[l]
    BY <1>0, <2>1, HolderFacts
  <2>3. PICK k \in Nat : lastEvent[l] - actAt[s] = k * Cost(l)
    BY <1>0, <2>1, HolderFacts
  <2>4. Cost(l) \in Nat /\ Cost(l) >= 1 /\ Capacity(l) \in Nat /\ Cost(l) <= Capacity(l)
    BY <1>0, LaneFacts
  <2>5. actAt[s] = lastEvent[l] /\ Restored(s, l) = Cost(l)
    <3>1. k * Cost(l) < Cost(l)
      BY <1>2, <2>2, <2>3, <2>4 DEF Restored
    <3>2. k * Cost(l) = 0
      BY <2>4, <3>1, FactorBound
    <3>3. lastEvent[l] - actAt[s] = 0
      BY <2>3, <3>2
    <3>4. actAt[s] = lastEvent[l]
      BY <2>2, <3>3
    <3>5. Cost(l) - 0 = Cost(l)
      BY <2>4
    <3> QED
      BY <3>3, <3>4, <3>5 DEF Restored
  <2>6. /\ meter[l] \in Nat
        /\ meter[l] + tokens[l] <= Capacity(l) /\ meter[l] <= Capacity(l)
        /\ actAt[s] = 0 => meter[l] >= Cost(l)
        /\ actAt[s] > 0 => meter[l] - actAt[s] + Cost(l) <= Capacity(l)
    BY <1>0, <2>1 DEF LimiterInv, Sound, Covered, TypeOK
  <2>7. /\ tokens' = [tokens EXCEPT ![l] = Smaller(Capacity(l), tokens[l] + Cost(l))]
        /\ lastEvent' = [lastEvent EXCEPT ![l] = IF lastEvent[l] >= Cost(l)
                                                   THEN lastEvent[l] - Cost(l) ELSE lastEvent[l]]
        /\ meter' = [meter EXCEPT ![l] = IF actAt[s] = 0 THEN meter[l] - Cost(l) ELSE meter[l]]
    BY <1>2, <2>5 DEF CancelAt
  <2>8. /\ tokens'[l] = Smaller(Capacity(l), tokens[l] + Cost(l)) /\ tokens'[l] \in Int
        /\ lastEvent'[l] = (IF lastEvent[l] >= Cost(l)
                              THEN lastEvent[l] - Cost(l) ELSE lastEvent[l])
        /\ meter'[l] = (IF actAt[s] = 0 THEN meter[l] - Cost(l) ELSE meter[l])
        /\ lastEvent'[l] \in Nat /\ meter'[l] \in Nat
    BY <1>0, <2>2, <2>4, <2>6, <2>7 DEF TypeOK, Smaller
  <2>9. /\ tokens' \in [Lanes -> Int] /\ lastEvent' \in [Lanes -> Times]
        /\ meter' \in [Lanes -> Nat]
    <3>1. \A m \in Lanes : m # l => /\ tokens'[m] = tokens[m] /\ lastEvent'[m] = lastEvent[m]
                                    /\ meter'[m] = meter[m]
      BY <1>0, <2>7 DEF TypeOK
    <3>2. /\ tokens' = [m \in Lanes |-> tokens'[m]] /\ meter' = [m \in Lanes |-> meter'[m]]
          /\ lastEvent' = [m \in Lanes |-> lastEvent'[m]]
      BY <1>0, <2>7 DEF TypeOK
    <3>3. \A m \in Lanes : tokens'[m] \in Int /\ lastEvent'[m] \in Times /\ meter'[m] \in Nat
      BY <1>0, <2>8, <3>1 DEF TypeOK, Times
    <3> QED
      BY <3>2, <3>3
  <2>10. ASSUME NEW p \in Holders(l)'
         PROVE  /\ p \in Holders(l) /\ actAt'[p] = actAt[p] /\ actAt[p] \in Nat
                /\ lastEvent[l] >= Cost(l) /\ actAt[p] <= lastEvent[l] - Cost(l)
                /\ \E j \in 0..(lastEvent[l] - Cost(l)) :
                     lastEvent[l] - Cost(l) - actAt[p] = j * Cost(l)
    <3>1. p \in Holders(l) /\ actAt'[p] = actAt[p] /\ p # s
      BY DEF Holders, Only
    <3>2. actAt[p] \in Nat /\ actAt[p] <= lastEvent[l]
      BY <1>0, <3>1, HolderFacts
    <3>3. actAt[p] <= lastEvent[l] - Cost(l)
      <4>1. actAt[s] - actAt[p] >= Cost(l) \/ actAt[p] - actAt[s] >= Cost(l)
        BY <1>0, <2>1, <3>1 DEF LimiterInv, Sound, Spaced
      <4> QED
        BY <2>2, <2>4, <2>5, <3>2, <4>1
    <3>4. PICK j \in Nat : lastEvent[l] - actAt[p] = j * Cost(l)
      BY <1>0, <3>1, HolderFacts
    <3>5. j # 0
      BY <2>2, <2>4, <3>2, <3>3, <3>4
    <3>6. j - 1 \in Nat /\ (j - 1) * Cost(l) = j * Cost(l) - Cost(l)
      BY <2>4, <3>5, FactorBound
    <3>7. j - 1 <= (j - 1) * Cost(l)
      BY <2>4, <3>6, FactorBound
    <3>8. /\ lastEvent[l] - Cost(l) - actAt[p] = (j - 1) * Cost(l)
          /\ j - 1 \in 0..(lastEvent[l] - Cost(l))
      BY <2>2, <2>4, <3>2, <3>4, <3>6, <3>7
    <3> QED
      BY <2>2, <2>4, <3>1, <3>2, <3>3, <3>8
  <2>11. Spaced(l)'
    <3>1. ASSUME NEW p \in Holders(l)'
          PROVE  \E j \in 0..lastEvent'[l] : lastEvent'[l] - actAt'[p] = j * Cost(l)
      BY <2>8, <2>10, <3>1
    <3>2. ASSUME NEW p \in Holders(l)', NEW q \in Holders(l)', p # q
          PROVE  actAt'[p] - actAt'[q] >= Cost(l) \/ actAt'[q] - actAt'[p] >= Cost(l)
      <4>1. /\ p \in Holders(l) /\ actAt'[p] = actAt[p]
            /\ q \in Holders(l) /\ actAt'[q] = actAt[q]
        BY <2>10, <3>2
      <4> QED
        BY <1>0, <3>2, <4>1 DEF LimiterInv, Sound, Spaced
    <3> QED
      BY <3>1, <3>2 DEF Spaced, Cost
  <2>12. Covered(l)' /\ meter'[l] <= Capacity(l)
    <3>1. meter'[l] + tokens'[l] <= Capacity(l) /\ meter'[l] <= Capacity(l)
      BY <2>2, <2>4, <2>5, <2>6, <2>8 DEF Smaller
    <3>2. ASSUME NEW p \in Holders(l)'
          PROVE  /\ tokens'[l] = -lastEvent'[l]
                 /\ actAt'[p] = 0 => meter'[l] >= Cost(l)
                 /\ actAt'[p] > 0 => meter'[l] - actAt'[p] + Cost(l) <= Capacity(l)
      <4>1. /\ p \in Holders(l) /\ actAt'[p] = actAt[p] /\ actAt[p] \in Nat
            /\ lastEvent[l] >= Cost(l)
        BY <2>10, <3>2
      <4>2. /\ actAt[p] = 0 => meter[l] >= Cost(l)
            /\ actAt[p] > 0 => meter[l] - actAt[p] + Cost(l) <= Capacity(l)
        BY <1>0, <4>1 DEF LimiterInv, Sound, Covered
      <4>3. actAt[s] > 0 /\ meter'[l] = meter[l]
        BY <2>2, <2>4, <2>5, <2>8, <4>1
      <4>4. tokens'[l] = -lastEvent'[l]
        BY <2>2, <2>4, <2>8, <4>1 DEF Smaller
      <4> QED
        BY <4>1, <4>2, <4>3, <4>4
    <3> QED
      BY <3>1, <3>2 DEF Covered, Cost, Capacity
  <2>13. ASSUME NEW m \in Lanes, m # l
         PROVE  Sound(m)'
    <3>1. tokens'[m] = tokens[m] /\ lastEvent'[m] = lastEvent[m] /\ meter'[m] = meter[m]
      BY <1>0, <2>7, <2>13 DEF TypeOK
    <3>2. \A p \in Holders(m)' : p \in Holders(m) /\ actAt'[p] = actAt[p]
      BY DEF Holders, Only
    <3> QED
      BY <3>1, <3>2, Kept
  <2> QED
    BY <2>9, <2>11, <2>12, <2>13 DEF Sound, Capacity
<1> QED
  BY <1>1, <1>2

\* At most one token of a lane arrives with a tick, and it fits.
LEMMA TickSound ==
    ASSUME LimiterInv, Tick, NEW l \in Lanes
    PROVE  Sound(l)' /\ tokens'[l] \in Int /\ lastEvent'[l] \in Times /\ meter'[l] \in Nat
<1>0. TypeOK /\ Sound(l)
  BY DEF LimiterInv
<1>1. /\ tokens[l] \in Int /\ lastEvent[l] \in Times /\ meter[l] \in Nat
      /\ tokens'[l] = Smaller(Capacity(l), tokens[l] + 1)
      /\ lastEvent'[l] = Sooner(lastEvent[l])
      /\ meter'[l] = Less(meter[l]) + Cost(l) * Cardinality(DueNext(l))
  BY <1>0 DEF TypeOK, Tick
<1>2. Cost(l) \in Nat /\ Cost(l) >= 1 /\ Capacity(l) \in Nat /\ Cost(l) <= Capacity(l)
  BY LaneFacts
<1>3. ASSUME NEW p \in Holders(l)'
      PROVE  p \in Holders(l) /\ actAt[p] >= 1 /\ actAt[p] \in Nat /\ actAt'[p] = actAt[p] - 1
  <2>1. p \in Scans /\ pc[p] \in Holding /\ lane[p] = l /\ actAt'[p] >= 0
    BY <1>3 DEF Holders, Tick
  <2>2. actAt[p] \in Times /\ actAt'[p] = Sooner(actAt[p])
    BY <1>0, <2>1 DEF TypeOK, Tick
  <2>3. actAt[p] >= 1 /\ actAt[p] \in Nat /\ actAt'[p] = actAt[p] - 1
    BY <2>1, <2>2 DEF Sooner, Larger, Times
  <2> QED
    BY <2>1, <2>3 DEF Holders
<1>4. ASSUME NEW p \in DueNext(l)
      PROVE  p \in Holders(l) /\ actAt[p] = 1
  BY <1>4 DEF DueNext, Holders, Holding
<1>5. \A p, q \in DueNext(l) : p = q
  BY <1>0, <1>2, <1>4 DEF Sound, Spaced
<1>6. \/ DueNext(l) = {} /\ Cost(l) * Cardinality(DueNext(l)) = 0
      \/ \E p \in DueNext(l) : Cost(l) * Cardinality(DueNext(l)) = Cost(l)
  <2>1. CASE DueNext(l) = {}
    BY <1>2, <2>1, FS_EmptySet
  <2>2. CASE DueNext(l) # {}
    <3>1. PICK p : p \in DueNext(l)
      BY <2>2
    <3>2. DueNext(l) = {p}
      BY <1>5, <3>1
    <3>3. Cardinality(DueNext(l)) = 1
      BY <3>2, FS_Singleton
    <3> QED
      BY <1>2, <3>1, <3>3
  <2> QED
    BY <2>1, <2>2
<1>7. meter[l] + tokens[l] <= Capacity(l) /\ meter[l] <= Capacity(l)
  BY <1>0 DEF Sound, Covered
<1>8. ASSUME NEW p \in Holders(l)
      PROVE  /\ tokens[l] = -lastEvent[l] /\ actAt[p] \in Nat /\ lastEvent[l] \in Nat
             /\ actAt[p] <= lastEvent[l]
             /\ actAt[p] > 0 => meter[l] - actAt[p] + Cost(l) <= Capacity(l)
  BY <1>0, <1>8, HolderFacts DEF Sound, Covered
<1>9. /\ meter'[l] \in Nat /\ meter'[l] <= Capacity(l)
      /\ meter'[l] + tokens'[l] <= Capacity(l)
  <2>1. CASE DueNext(l) = {} /\ Cost(l) * Cardinality(DueNext(l)) = 0
    BY <1>1, <1>2, <1>7, <2>1 DEF Less, Larger, Smaller
  <2>2. ASSUME NEW p \in DueNext(l), Cost(l) * Cardinality(DueNext(l)) = Cost(l)
        PROVE  /\ meter'[l] \in Nat /\ meter'[l] <= Capacity(l)
               /\ meter'[l] + tokens'[l] <= Capacity(l)
    <3>1. tokens[l] <= -1 /\ meter[l] - 1 + Cost(l) <= Capacity(l)
      BY <1>1, <1>2, <1>4, <1>8, <2>2
    <3>2. meter'[l] = Less(meter[l]) + Cost(l)
      BY <1>1, <2>2
    <3> QED
      BY <1>1, <1>2, <1>7, <3>1, <3>2 DEF Less, Larger, Smaller
  <2> QED
    BY <1>6, <2>1, <2>2
<1>10. tokens'[l] \in Int /\ lastEvent'[l] \in Times
  BY <1>1, <1>2 DEF Smaller, Sooner, Larger, Times
<1>11. Spaced(l)'
  <2>1. ASSUME NEW p \in Holders(l)'
        PROVE  \E k \in 0..lastEvent'[l] : lastEvent'[l] - actAt'[p] = k * Cost(l)
    <3>1. p \in Holders(l) /\ actAt[p] >= 1 /\ actAt'[p] = actAt[p] - 1
      BY <1>3, <2>1
    <3>2. actAt[p] \in Nat /\ lastEvent[l] \in Nat /\ actAt[p] <= lastEvent[l]
      BY <1>8, <3>1
    <3>3. lastEvent'[l] = lastEvent[l] - 1
      BY <1>1, <3>1, <3>2 DEF Sooner, Larger
    <3>4. PICK k \in Nat : lastEvent[l] - actAt[p] = k * Cost(l)
      BY <3>1, HolderFacts
    <3>5. k <= k * Cost(l) /\ k * Cost(l) \in Nat
      BY <1>2, FactorBound
    <3>6. k \in 0..lastEvent'[l] /\ lastEvent'[l] - actAt'[p] = k * Cost(l)
      BY <3>1, <3>2, <3>3, <3>4, <3>5
    <3> QED
      BY <3>6
  <2>2. ASSUME NEW p \in Holders(l)', NEW q \in Holders(l)', p # q
        PROVE  actAt'[p] - actAt'[q] >= Cost(l) \/ actAt'[q] - actAt'[p] >= Cost(l)
    <3>1. /\ p \in Holders(l) /\ actAt[p] \in Nat /\ actAt'[p] = actAt[p] - 1
          /\ q \in Holders(l) /\ actAt[q] \in Nat /\ actAt'[q] = actAt[q] - 1
      BY <1>3, <2>2
    <3>2. actAt[p] - actAt[q] >= Cost(l) \/ actAt[q] - actAt[p] >= Cost(l)
      BY <1>0, <2>2, <3>1 DEF Sound, Spaced
    <3> QED
      BY <1>2, <3>1, <3>2
  <2> QED
    BY <2>1, <2>2 DEF Spaced, Cost
<1>12. Covered(l)'
  <2>1. ASSUME NEW p \in Holders(l)'
        PROVE  /\ tokens'[l] = -lastEvent'[l]
               /\ actAt'[p] = 0 => meter'[l] >= Cost(l)
               /\ actAt'[p] > 0 => meter'[l] - actAt'[p] + Cost(l) <= Capacity(l)
    <3>1. /\ p \in Holders(l) /\ actAt[p] >= 1 /\ actAt'[p] = actAt[p] - 1
          /\ p \in Scans /\ pc[p] \in Holding /\ lane[p] = l
      BY <1>3, <2>1 DEF Holders
    <3>2. /\ tokens[l] = -lastEvent[l] /\ actAt[p] \in Nat /\ lastEvent[l] \in Nat
          /\ actAt[p] <= lastEvent[l]
          /\ meter[l] - actAt[p] + Cost(l) <= Capacity(l)
      BY <1>8, <3>1
    <3>3. tokens'[l] = -lastEvent'[l]
      BY <1>1, <1>2, <3>1, <3>2 DEF Smaller, Sooner, Larger
    <3>4. actAt'[p] = 0 => meter'[l] >= Cost(l)
      <4>1. SUFFICES ASSUME actAt[p] = 1
                     PROVE  meter'[l] >= Cost(l)
        BY <3>1, <3>2
      <4>2. pc[p] # "refuse"
        BY <3>1 DEF Tick, Instant
      <4>3. p \in DueNext(l)
        BY <3>1, <4>1, <4>2 DEF DueNext, Holding
      <4>4. Cost(l) * Cardinality(DueNext(l)) = Cost(l)
        BY <1>6, <4>3
      <4> QED
        BY <1>1, <1>2, <4>4 DEF Less, Larger
    <3>5. actAt'[p] > 0 => meter'[l] - actAt'[p] + Cost(l) <= Capacity(l)
      <4>1. CASE DueNext(l) = {} /\ Cost(l) * Cardinality(DueNext(l)) = 0
        BY <1>1, <1>2, <3>1, <3>2, <4>1 DEF Less, Larger
      <4>2. ASSUME NEW q \in DueNext(l), actAt'[p] > 0
            PROVE  meter'[l] - actAt'[p] + Cost(l) <= Capacity(l)
        <5>1. q \in Holders(l) /\ actAt[q] = 1 /\ p # q
          BY <1>4, <3>1, <3>2, <4>2
        <5>2. actAt[p] - actAt[q] >= Cost(l) \/ actAt[q] - actAt[p] >= Cost(l)
          BY <1>0, <3>1, <5>1 DEF Sound, Spaced
        <5> QED
          BY <1>2, <1>9, <3>1, <3>2, <4>2, <5>1, <5>2
      <4> QED
        BY <1>6, <4>1, <4>2
    <3> QED
      BY <3>3, <3>4, <3>5
  <2> QED
    BY <1>9, <2>1 DEF Covered, Cost, Capacity
<1> QED
  BY <1>9, <1>10, <1>11, <1>12 DEF Sound, Capacity

\* Charge puts the background bucket further in debt and takes nothing from it.
LEMMA ChargeSound ==
    ASSUME LimiterInv, Charge, NEW l \in Lanes
    PROVE  Sound(l)' /\ tokens'[l] \in Int /\ lastEvent'[l] \in Times
<1>0. TypeOK /\ Sound(l)
  BY DEF LimiterInv
<1>1. \A p \in Holders(l)' : p \in Holders(l) /\ actAt'[p] = actAt[p]
  BY DEF Charge, scan, Holders
<1>2. CASE l # "background"
  <2>1. tokens'[l] = tokens[l] /\ lastEvent'[l] = lastEvent[l] /\ meter'[l] = meter[l]
    BY <1>0, <1>2 DEF Charge, TypeOK
  <2> QED
    BY <1>0, <1>1, <2>1, Kept DEF TypeOK
<1>3. CASE l = "background"
  <2>1. /\ tokens[l] \in Int /\ meter[l] \in Nat /\ meter'[l] = meter[l]
        /\ tokens'[l] = tokens[l] - Cost(l) /\ lastEvent'[l] = Delay(l)
    BY <1>0, <1>3 DEF Charge, TypeOK, Cost, Lanes
  <2>2. Cost(l) \in Nat /\ Cost(l) >= 1 /\ Capacity(l) \in Nat /\ Cost(l) <= Capacity(l)
    BY LaneFacts
  <2>3. /\ Delay(l) \in Nat
        /\ tokens[l] <= 0 => Delay(l) = Cost(l) - tokens[l]
    BY <2>1, <2>2 DEF Delay, Larger
  <2>4. ASSUME NEW p \in Holders(l)'
        PROVE  /\ p \in Holders(l) /\ actAt'[p] = actAt[p]
               /\ tokens'[l] = -lastEvent'[l]
               /\ \E k \in 0..lastEvent'[l] : lastEvent'[l] - actAt'[p] = k * Cost(l)
    <3>1. p \in Holders(l) /\ actAt'[p] = actAt[p]
      BY <1>1, <2>4
    <3>2. /\ actAt[p] \in Nat /\ lastEvent[l] \in Nat /\ actAt[p] <= lastEvent[l]
          /\ tokens[l] = -lastEvent[l]
      BY <3>1, HolderFacts
    <3>3. PICK k \in Nat : lastEvent[l] - actAt[p] = k * Cost(l)
      BY <3>1, HolderFacts
    <3>4. (k + 1) * Cost(l) = k * Cost(l) + Cost(l) /\ k <= k * Cost(l)
      BY <2>2, FactorBound
    <3>5. lastEvent'[l] = lastEvent[l] + Cost(l)
      BY <2>1, <2>2, <2>3, <3>2
    <3>6. k + 1 \in 0..lastEvent'[l] /\ lastEvent'[l] - actAt'[p] = (k + 1) * Cost(l)
      BY <2>2, <3>1, <3>2, <3>3, <3>4, <3>5
    <3>7. tokens'[l] = -lastEvent'[l]
      BY <2>1, <2>2, <3>2, <3>5
    <3> QED
      BY <3>1, <3>6, <3>7
  <2>5. Spaced(l)'
    <3>1. ASSUME NEW p \in Holders(l)', NEW q \in Holders(l)', p # q
          PROVE  actAt'[p] - actAt'[q] >= Cost(l) \/ actAt'[q] - actAt'[p] >= Cost(l)
      BY <1>0, <1>1, <3>1 DEF Sound, Spaced
    <3> QED
      BY <2>4, <3>1 DEF Spaced, Cost
  <2>6. Covered(l)' /\ meter'[l] <= Capacity(l)
    <3>1. meter[l] + tokens[l] <= Capacity(l) /\ meter[l] <= Capacity(l)
      BY <1>0 DEF Sound, Covered
    <3>2. meter'[l] + tokens'[l] <= Capacity(l)
      BY <2>1, <2>2, <3>1
    <3>3. ASSUME NEW p \in Holders(l)'
          PROVE  /\ tokens'[l] = -lastEvent'[l]
                 /\ actAt'[p] = 0 => meter'[l] >= Cost(l)
                 /\ actAt'[p] > 0 => meter'[l] - actAt'[p] + Cost(l) <= Capacity(l)
      BY <1>0, <2>1, <2>4, <3>3 DEF Sound, Covered
    <3> QED
      BY <2>1, <3>1, <3>2, <3>3 DEF Covered, Cost, Capacity
  <2> QED
    BY <2>1, <2>2, <2>3, <2>5, <2>6 DEF Sound, Capacity, Times
<1> QED
  BY <1>2, <1>3

\* The numbers of the configuration.
LEMMA Numbers ==
    /\ Burst \in Nat \ {0} /\ Share \in Nat \ {0} /\ MaxFetches \in Nat \ {0}
    /\ MaxBackoff \in Nat \ {0} /\ DefaultPause \in Nat \ {0} /\ DefaultStandoff \in Nat \ {0}
    /\ MaxPause \in Nat \ {0} /\ MaxStandoff \in Nat \ {0}
    /\ Prepaid \in Nat /\ ForegroundWait \in Nat /\ BackgroundWait \in Nat /\ Timeout \in Nat /\ MinFetch \in Nat
    /\ MaxRetries \in Nat /\ MaxDebt \in Nat
BY LimiterAssumption

\* A scan begins at one of the two buckets.
LEMMA FirstLaneType ==
    ASSUME NEW s \in Scans
    PROVE  FirstLane(s) \in Lanes
BY DEF FirstLane, Lanes

\* Do returns.
LEMMA ReturnOK ==
    ASSUME ScanOK, NEW s \in Scans, pc[s] # "idle", Return(s)
    PROVE  ScanOK' /\ Only(s) /\ pc'[s] \notin Holding
<1>1. fetches[s] \in 1..MaxFetches
  BY Numbers DEF ScanOK, OnTrack
<1>2. /\ pc' = [pc EXCEPT ![s] = IF fetches[s] > 1 THEN "do" ELSE "idle"]
      /\ fetches' = [fetches EXCEPT ![s] = fetches[s] - 1]
      /\ tries' = [tries EXCEPT ![s] = 0]
      /\ lane' = [lane EXCEPT ![s] = FirstLane(s)]
      /\ actAt' = [actAt EXCEPT ![s] = -1]
      /\ credit' = [credit EXCEPT ![s] = IF fetches[s] > 1 THEN credit[s] ELSE 0]
      /\ deadline' = [deadline EXCEPT ![s] = IF fetches[s] > 1 THEN deadline[s] ELSE 0]
  BY DEF Return, Goto
<1>3. Only(s) /\ pc'[s] \notin Holding
  BY <1>2 DEF Only, Holding, ScanOK
<1>4. /\ pc' \in [Scans -> Steps] /\ lane' \in [Scans -> Lanes] /\ actAt' \in [Scans -> Times]
      /\ deadline' \in [Scans -> Nat] /\ credit' \in [Scans -> 0..Prepaid]
      /\ tries' \in [Scans -> 0..MaxRetries] /\ fetches' \in [Scans -> 0..MaxFetches]
  BY <1>1, <1>2, FirstLaneType, Numbers DEF ScanOK, Steps, Instant, Times
<1>5. ASSUME NEW p \in Scans
      PROVE  OnTrack(p)'
  <2>1. CASE p = s
    BY <1>1, <1>2, <2>1, Numbers DEF OnTrack, ScanOK
  <2>2. CASE p # s
    <3>1. /\ pc'[p] = pc[p] /\ credit'[p] = credit[p] /\ fetches'[p] = fetches[p]
          /\ tries'[p] = tries[p]
      BY <1>2, <2>2 DEF ScanOK
    <3> QED
      BY <3>1 DEF OnTrack, ScanOK
  <2> QED
    BY <2>1, <2>2
<1> QED
  BY <1>3, <1>4, <1>5 DEF ScanOK

\* A step that moves one scan on and leaves the others where they are.
Moved(s) ==
    /\ pc' \in [Scans -> Steps] /\ lane' \in [Scans -> Lanes] /\ actAt' \in [Scans -> Times]
    /\ deadline' \in [Scans -> Nat] /\ credit' \in [Scans -> 0..Prepaid]
    /\ tries' \in [Scans -> 0..MaxRetries] /\ fetches' \in [Scans -> 0..MaxFetches]
    /\ \A p \in Scans \ {s} : /\ pc'[p] = pc[p] /\ lane'[p] = lane[p] /\ actAt'[p] = actAt[p]
                              /\ credit'[p] = credit[p] /\ tries'[p] = tries[p]
                              /\ fetches'[p] = fetches[p]

\* It keeps ScanOK when the counters of that scan allow the step.
LEMMA MoveOK ==
    ASSUME ScanOK, NEW s \in Scans, Moved(s), OnTrack(s)'
    PROVE  ScanOK' /\ Only(s)
<1>1. Only(s)
  BY DEF Only, Moved
<1>2. ASSUME NEW p \in Scans, p # s
      PROVE  OnTrack(p)'
  <2>1. /\ pc'[p] = pc[p] /\ credit'[p] = credit[p] /\ fetches'[p] = fetches[p]
        /\ tries'[p] = tries[p]
    BY <1>2 DEF Moved
  <2> QED
    BY <2>1 DEF OnTrack, ScanOK
<1>3. \A p \in Scans : OnTrack(p)'
  BY <1>2
<1> QED
  BY <1>1, <1>3 DEF ScanOK, Moved

\* The provider begins its requests, prepaid or not.
LEMMA BeginFetchesOK ==
    ASSUME ScanOK, NEW s \in Scans, pc[s] # "idle", NEW d \in Nat, BeginFetches(s, d),
           credit' = credit
    PROVE  ScanOK' /\ Only(s) /\ pc'[s] = "do"
<1>1. Moved(s) /\ pc'[s] = "do"
  BY FirstLaneType DEF BeginFetches, Goto, Moved, ScanOK, Steps, Instant, Times
<1>2. OnTrack(s)'
  BY <1>1 DEF BeginFetches, OnTrack, ScanOK
<1> QED
  BY <1>1, <1>2, MoveOK

\* A prepaid lane's token has arrived.
LEMMA PaidOK ==
    ASSUME ScanOK, NEW s \in Scans, pc[s] \in {"prepay", "prepaying"}, Paid(s)
    PROVE  ScanOK' /\ Only(s) /\ pc'[s] \in {"do", "prepay"}
<1>1. credit[s] \in Nat /\ credit[s] < Prepaid /\ fetches[s] > 0
  BY Numbers DEF ScanOK, OnTrack
<1>2. CASE lane[s] = "background"
  <2>1. /\ pc' = [pc EXCEPT ![s] = "prepay"] /\ lane' = [lane EXCEPT ![s] = "host"]
        /\ actAt' = [actAt EXCEPT ![s] = -1] /\ deadline' = deadline /\ credit' = credit
        /\ tries' = tries /\ fetches' = fetches
    BY <1>2 DEF Paid, Goto
  <2>2. Moved(s) /\ pc'[s] = "prepay"
    BY <2>1 DEF Moved, ScanOK, Steps, Instant, Times, Lanes
  <2>3. OnTrack(s)'
    BY <1>1, <2>1, <2>2 DEF OnTrack
  <2> QED
    BY <2>2, <2>3, MoveOK
<1>3. CASE lane[s] # "background"
  <2> DEFINE done == credit[s] + 1 = Prepaid
  <2>1. /\ pc' = [pc EXCEPT ![s] = IF done THEN "do" ELSE "prepay"]
        /\ credit' = [credit EXCEPT ![s] = credit[s] + 1]
        /\ deadline' = [deadline EXCEPT ![s] = IF done THEN Timeout ELSE deadline[s]]
        /\ lane' = [lane EXCEPT ![s] = FirstLane(s)]
        /\ actAt' = [actAt EXCEPT ![s] = -1] /\ tries' = tries /\ fetches' = fetches
    BY <1>3 DEF Paid, Goto
  <2>2. credit[s] + 1 \in 0..Prepaid
    BY <1>1, Numbers
  <2>3. Moved(s) /\ pc'[s] = (IF done THEN "do" ELSE "prepay") /\ credit'[s] = credit[s] + 1
    BY <2>1, <2>2, Numbers, FirstLaneType DEF Moved, ScanOK, Steps, Instant, Times
  <2>4. OnTrack(s)'
    BY <1>1, <2>1, <2>2, <2>3, Numbers DEF OnTrack
  <2> QED
    BY <2>3, <2>4, MoveOK
<1> QED
  BY <1>2, <1>3

\* A lane's token has arrived.
LEMMA GrantedOK ==
    ASSUME ScanOK, NEW s \in Scans, pc[s] # "idle", Granted(s)
    PROVE  ScanOK' /\ Only(s) /\ pc'[s] \in {"send", "reserve"}
<1>1. Moved(s) /\ pc'[s] \in {"send", "reserve"}
  BY DEF Granted, Goto, Moved, ScanOK, Steps, Instant, Times, Lanes
<1>2. OnTrack(s)'
  BY <1>1 DEF Granted, OnTrack, ScanOK
<1> QED
  BY <1>1, <1>2, MoveOK

\* A scan that goes to wait for a token, or to sleep, or to send.
LEMMA GotoOK ==
    ASSUME ScanOK, NEW s \in Scans, pc[s] # "idle",
           NEW step \in Steps \ {"idle", "prepay"}, Goto(s, step),
           NEW t \in Times, actAt' = [actAt EXCEPT ![s] = t],
           step = "prepaying" => pc[s] = "prepay",
           step = "sleep" => tries[s] < MaxRetries,
           UNCHANGED <<lane, deadline, credit, tries, fetches>>
    PROVE  ScanOK' /\ Only(s) /\ pc'[s] = step /\ actAt'[s] = t /\ lane'[s] = lane[s]
<1>1. Moved(s) /\ pc'[s] = step /\ actAt'[s] = t
  BY DEF Goto, Moved, ScanOK
<1>2. OnTrack(s)'
  BY <1>1 DEF OnTrack, ScanOK
<1> QED
  BY <1>1, <1>2, MoveOK

\* An answer that may be retried.
LEMMA RetryOK ==
    ASSUME ScanOK, NEW s \in Scans, pc[s] # "idle", NEW d \in Nat, Retry(s, d)
    PROVE  ScanOK' /\ Only(s) /\ pc'[s] \notin Holding
<1>1. CASE tries[s] = MaxRetries
  BY <1>1, ReturnOK DEF Retry
<1>2. CASE tries[s] # MaxRetries
  <2>1. "sleep" \in Steps \ {"idle", "prepay"} /\ "sleep" \notin Holding
    BY DEF Steps, Holding
  <2>2. Backoff(s, d) \in Times
    BY Numbers DEF Backoff, Times
  <2>3. tries[s] < MaxRetries
    BY <1>2, Numbers DEF ScanOK
  <2>4. /\ Goto(s, "sleep") /\ actAt' = [actAt EXCEPT ![s] = Backoff(s, d)]
        /\ UNCHANGED <<lane, deadline, credit, tries, fetches>>
    BY <1>2 DEF Retry
  <2>5. ScanOK' /\ Only(s) /\ pc'[s] = "sleep"
    BY <2>1, <2>2, <2>3, <2>4, GotoOK
  <2> QED
    BY <2>1, <2>5
<1> QED
  BY <1>1, <1>2

-----------------------------------------------------------------------------
(* Every step keeps LimiterInv. *)

\* The deadlines the host itself gives are left alone.
Calm == sonatype' = sonatype /\ pause' = pause /\ standoff' = standoff

\* What LimiterInv says of a scan.
LEMMA ScanFacts ==
    ASSUME LimiterInv
    PROVE  ScanOK
BY DEF LimiterInv, TypeOK, ScanOK

\* LimiterInv of the next state from its parts.
LEMMA Joined ==
    ASSUME ScanOK', (sonatype \in BOOLEAN)', (pause \in 0..MaxPause)',
           (standoff \in 0..MaxStandoff)',
           tokens' \in [Lanes -> Int], lastEvent' \in [Lanes -> Times],
           meter' \in [Lanes -> Nat], \A l \in Lanes : Sound(l)'
    PROVE  LimiterInv'
BY DEF LimiterInv, TypeOK, ScanOK

\* A step that reserves nothing and gives nothing back.
LEMMA BucketsKept ==
    ASSUME LimiterInv, NEW s \in Scans, ScanOK', Only(s), pc'[s] \notin Holding,
           UNCHANGED bucket, sonatype' = sonatype,
           pause' \in 0..MaxPause, standoff' \in 0..MaxStandoff
    PROVE  LimiterInv'
<1>1. tokens' = tokens /\ lastEvent' = lastEvent /\ meter' = meter
  BY DEF bucket
<1>2. \A l \in Lanes : Sound(l)'
  BY <1>1, KeptBoth
<1>3. /\ tokens' \in [Lanes -> Int] /\ lastEvent' \in [Lanes -> Times]
      /\ meter' \in [Lanes -> Nat] /\ sonatype' \in BOOLEAN
  BY <1>1 DEF LimiterInv, TypeOK
<1> QED
  BY <1>2, <1>3, Joined

\* A step that reserves a token of the scan's lane.
LEMMA BucketReserved ==
    ASSUME LimiterInv, NEW s \in Scans, ScanOK', Only(s), pc[s] \notin Holding,
           ReserveAt(lane[s]), Calm,
           pc'[s] \in Holding => /\ lane'[s] = lane[s] /\ actAt'[s] = Delay(lane[s])
                                 /\ Delay(lane[s]) > 0
    PROVE  LimiterInv'
<1>1. lane[s] \in Lanes
  BY DEF LimiterInv, TypeOK
<1>2. \A l \in Lanes : Sound(l)'
  BY <1>1, Reserved
<1>3. /\ tokens[lane[s]] \in Int /\ meter[lane[s]] \in Nat /\ Cost(lane[s]) \in Nat
  BY <1>1, LaneFacts DEF LimiterInv, TypeOK
<1>4. Delay(lane[s]) \in Nat
  BY <1>3 DEF Delay, Larger
<1>5. /\ tokens' \in [Lanes -> Int] /\ lastEvent' \in [Lanes -> Times]
      /\ meter' \in [Lanes -> Nat]
  BY <1>1, <1>3, <1>4 DEF LimiterInv, TypeOK, ReserveAt, Times
<1>6. sonatype' \in BOOLEAN /\ pause' \in 0..MaxPause /\ standoff' \in 0..MaxStandoff
  BY DEF Calm, LimiterInv, TypeOK
<1> QED
  BY <1>2, <1>5, <1>6, Joined

\* A step that cancels the scan's reservation.
LEMMA BucketCancelled ==
    ASSUME LimiterInv, NEW s \in Scans, ScanOK', Only(s), pc[s] \in Holding,
           pc'[s] \notin Holding, CancelAt(s, lane[s]), Calm
    PROVE  LimiterInv'
<1>1. lane[s] \in Lanes
  BY DEF LimiterInv, TypeOK
<1>2. /\ tokens' \in [Lanes -> Int] /\ lastEvent' \in [Lanes -> Times]
      /\ meter' \in [Lanes -> Nat] /\ \A l \in Lanes : Sound(l)'
  BY <1>1, Cancelled
<1>3. sonatype' \in BOOLEAN /\ pause' \in 0..MaxPause /\ standoff' \in 0..MaxStandoff
  BY DEF Calm, LimiterInv, TypeOK
<1> QED
  BY <1>2, <1>3, Joined

\* A token that is used when its time has come was counted already.
LEMMA UsedInTime ==
    ASSUME LimiterInv, NEW s \in Scans, actAt[s] <= 0, Use(s)
    PROVE  UNCHANGED bucket
<1>1. ~(actAt[s] > 0) /\ meter \in [Lanes -> Nat] /\ lane[s] \in Lanes
  BY DEF LimiterInv, TypeOK, Times
<1>2. meter' = meter
  BY <1>1 DEF Use
<1> QED
  BY <1>2 DEF Use, bucket

\* A pause or stand-off that is extended stays within its limit.
LEMMA ExtendedType ==
    ASSUME NEW most \in Nat, NEW until \in 0..most, NEW d \in Nat,
           NEW unsaid \in Nat
    PROVE  Extended(until, d, unsaid, most) \in 0..most
BY Numbers DEF Extended, Larger, Smaller

\* A scan starts, with or without Prepay.
LEMMA StartOK ==
    ASSUME LimiterInv, NEW s \in Scans, Start(s)
    PROVE  LimiterInv'
<1>1. ScanOK /\ pc[s] = "idle"
  BY ScanFacts DEF Start
<1>2. /\ pc' \in [Scans -> Steps] /\ pc'[s] \in {"do", "prepay"} /\ deadline' \in [Scans -> Nat]
      /\ \A p \in Scans \ {s} : pc'[p] = pc[p]
      /\ pc'[s] = "prepay" => Prepaid > 0
  <2>1. CASE Goto(s, "prepay") /\ deadline' = [deadline EXCEPT ![s] = prepayWait(s)] /\ Prepaid > 0
    BY <1>1, <2>1, Numbers DEF Goto, ScanOK, Steps, Instant, prepayWait
  <2>2. CASE Goto(s, "do") /\ deadline' = [deadline EXCEPT ![s] = Timeout]
    BY <1>1, <2>2, Numbers DEF Goto, ScanOK, Steps, Instant
  <2> QED
    BY <2>1, <2>2 DEF Start
<1>3. /\ fetches' = [fetches EXCEPT ![s] = MaxFetches] /\ lane' = lane /\ actAt' = actAt
      /\ credit' = credit /\ tries' = tries /\ UNCHANGED bucket /\ Calm
  BY DEF Start, Calm
<1>4. Moved(s)
  BY <1>1, <1>2, <1>3, Numbers DEF Moved, ScanOK
<1>5. fetches'[s] > 0 /\ credit'[s] = 0
  BY <1>1, <1>3, Numbers DEF ScanOK, OnTrack
<1>6. OnTrack(s)'
  BY <1>2, <1>5 DEF OnTrack
<1>7. ScanOK' /\ Only(s) /\ pc'[s] \notin Holding
  BY <1>1, <1>2, <1>4, <1>6, MoveOK DEF Holding
<1> QED
  BY <1>3, <1>7, BucketsKept DEF Calm, LimiterInv, TypeOK

\* A scan reserves a prepaid token, or gives up prepaying.
LEMMA PrepayOK ==
    ASSUME LimiterInv, NEW s \in Scans, Prepay(s)
    PROVE  LimiterInv'
<1>1. ScanOK /\ pc[s] = "prepay" /\ Calm /\ pc[s] # "idle" /\ pc[s] \notin Holding
  BY ScanFacts DEF Prepay, Calm, Holding
<1>2. CASE BeginFetches(s, Timeout) /\ UNCHANGED <<bucket, credit>>
  <2>1. ScanOK' /\ Only(s) /\ pc'[s] = "do"
    BY <1>1, <1>2, BeginFetchesOK, Numbers
  <2> QED
    BY <1>1, <1>2, <2>1, BucketsKept DEF Calm, Holding, LimiterInv, TypeOK
<1>3. CASE ReserveAt(lane[s]) /\ Paid(s)
  <2>1. ScanOK' /\ Only(s) /\ pc'[s] \in {"do", "prepay"}
    BY <1>1, <1>3, PaidOK
  <2>2. pc'[s] \notin Holding
    BY <2>1 DEF Holding
  <2> QED
    BY <1>1, <1>3, <2>1, <2>2, BucketReserved
<1>4. CASE /\ ReserveAt(lane[s]) /\ Delay(lane[s]) # 0 /\ Goto(s, "prepaying")
           /\ actAt' = [actAt EXCEPT ![s] = Delay(lane[s])]
           /\ UNCHANGED <<lane, deadline, credit, tries, fetches>>
  <2>1. tokens[lane[s]] \in Int /\ Cost(lane[s]) \in Nat
    BY LaneFacts DEF LimiterInv, TypeOK
  <2>2. Delay(lane[s]) \in Nat /\ Delay(lane[s]) > 0
    BY <1>4, <2>1 DEF Delay, Larger
  <2>3. "prepaying" \in Steps \ {"idle", "prepay"} /\ Delay(lane[s]) \in Times
    BY <2>2 DEF Steps, Times
  <2>4. /\ ScanOK' /\ Only(s) /\ pc'[s] = "prepaying" /\ actAt'[s] = Delay(lane[s])
        /\ lane'[s] = lane[s]
    BY <1>1, <1>4, <2>3, GotoOK
  <2> QED
    BY <1>1, <1>4, <2>2, <2>4, BucketReserved
<1> QED
  BY <1>2, <1>3, <1>4 DEF Prepay

\* A prepaid token's time has come.
LEMMA PrepayTimerOK ==
    ASSUME LimiterInv, NEW s \in Scans, PrepayTimer(s)
    PROVE  LimiterInv'
<1>1. ScanOK /\ Calm /\ UNCHANGED bucket
  BY ScanFacts, UsedInTime DEF PrepayTimer, Calm
<1>2. ScanOK' /\ Only(s) /\ pc'[s] \in {"do", "prepay"}
  BY <1>1, PaidOK DEF PrepayTimer
<1> QED
  BY <1>1, <1>2, BucketsKept DEF Calm, Holding, LimiterInv, TypeOK

\* A prepaid token is given back: the wait is over, or the caller is gone.
LEMMA PrepayEndsOK ==
    ASSUME LimiterInv, NEW s \in Scans, PrepayTimesOut(s) \/ AbandonPrepay(s)
    PROVE  LimiterInv'
<1>1. /\ ScanOK /\ Calm /\ pc[s] = "prepaying" /\ CancelAt(s, lane[s]) /\ credit' = credit
      /\ BeginFetches(s, Timeout) \/ BeginFetches(s, 0)
  BY ScanFacts DEF PrepayTimesOut, AbandonPrepay, Calm
<1>2. ScanOK' /\ Only(s) /\ pc'[s] = "do"
  BY <1>1, BeginFetchesOK, Numbers
<1> QED
  BY <1>1, <1>2, BucketCancelled DEF Holding

\* An attempt begins.
LEMMA DoOK ==
    ASSUME LimiterInv, NEW s \in Scans, Do(s)
    PROVE  LimiterInv'
<1>1. ScanOK /\ pc[s] = "do" /\ Calm /\ UNCHANGED bucket
  BY ScanFacts DEF Do, Calm
<1>2. CASE Return(s)
  BY <1>1, <1>2, ReturnOK, BucketsKept DEF Calm, LimiterInv, TypeOK
<1>3. CASE /\ HasCredit(s) /\ Goto(s, "send") /\ Spend(s)
           /\ UNCHANGED <<lane, actAt, deadline, tries, fetches>>
  <2>1. Moved(s) /\ pc'[s] = "send"
    BY <1>1, <1>3, Numbers DEF HasCredit, Goto, Spend, Moved, ScanOK, Steps, Instant
  <2>2. OnTrack(s)'
    BY <1>1, <1>3, <2>1 DEF OnTrack, ScanOK
  <2>3. ScanOK' /\ Only(s) /\ pc'[s] \notin Holding
    BY <1>1, <2>1, <2>2, MoveOK DEF Holding
  <2> QED
    BY <1>1, <2>3, BucketsKept DEF Calm, LimiterInv, TypeOK
<1>4. CASE Goto(s, "reserve") /\ UNCHANGED <<lane, actAt, deadline, credit, tries, fetches>>
  <2>1. Moved(s) /\ pc'[s] = "reserve"
    BY <1>1, <1>4 DEF Goto, Moved, ScanOK, Steps, Instant
  <2>2. OnTrack(s)'
    BY <1>1, <1>4, <2>1 DEF OnTrack, ScanOK
  <2>3. ScanOK' /\ Only(s) /\ pc'[s] \notin Holding
    BY <1>1, <2>1, <2>2, MoveOK DEF Holding
  <2> QED
    BY <1>1, <2>3, BucketsKept DEF Calm, LimiterInv, TypeOK
<1> QED
  BY <1>2, <1>3, <1>4 DEF Do

\* A request reserves a token of its lane, or finds its deadline passed.
LEMMA ReserveOK ==
    ASSUME LimiterInv, NEW s \in Scans, Reserve(s)
    PROVE  LimiterInv'
<1>1. ScanOK /\ pc[s] = "reserve" /\ Calm /\ pc[s] # "idle" /\ pc[s] \notin Holding
  BY ScanFacts DEF Reserve, Calm, Holding
<1>2. CASE Return(s) /\ UNCHANGED bucket
  BY <1>1, <1>2, ReturnOK, BucketsKept DEF Calm, LimiterInv, TypeOK
<1>3. CASE ReserveAt(lane[s]) /\ Granted(s)
  <2>1. ScanOK' /\ Only(s) /\ pc'[s] \in {"send", "reserve"}
    BY <1>1, <1>3, GrantedOK
  <2>2. pc'[s] \notin Holding
    BY <2>1 DEF Holding
  <2> QED
    BY <1>1, <1>3, <2>1, <2>2, BucketReserved
<1>4. CASE /\ ReserveAt(lane[s]) /\ Delay(lane[s]) # 0
           /\ Goto(s, IF TooLate(s) THEN "refuse" ELSE "waiting")
           /\ actAt' = [actAt EXCEPT ![s] = Delay(lane[s])]
           /\ UNCHANGED <<lane, deadline, credit, tries, fetches>>
  <2> DEFINE step == IF TooLate(s) THEN "refuse" ELSE "waiting"
  <2>1. tokens[lane[s]] \in Int /\ Cost(lane[s]) \in Nat
    BY LaneFacts DEF LimiterInv, TypeOK
  <2>2. Delay(lane[s]) \in Nat /\ Delay(lane[s]) > 0
    BY <1>4, <2>1 DEF Delay, Larger
  <2>3. /\ step \in Steps \ {"idle", "prepay"} /\ step # "prepaying" /\ step # "sleep"
        /\ Delay(lane[s]) \in Times
    BY <2>2 DEF Steps, Instant, Times
  <2>4. Goto(s, step)
    BY <1>4
  <2> HIDE DEF step
  <2>5. ScanOK' /\ Only(s) /\ actAt'[s] = Delay(lane[s]) /\ lane'[s] = lane[s]
    BY <1>1, <1>4, <2>3, <2>4, GotoOK
  <2> QED
    BY <1>1, <1>4, <2>2, <2>5, BucketReserved
<1> QED
  BY <1>2, <1>3, <1>4 DEF Reserve

\* A reservation is given back: it came too late, or the context ended.
LEMMA RefuseOK ==
    ASSUME LimiterInv, NEW s \in Scans, Refuse(s) \/ WaitCut(s)
    PROVE  LimiterInv'
<1>1. /\ ScanOK /\ Calm /\ pc[s] \in {"refuse", "waiting"} /\ CancelAt(s, lane[s])
      /\ Return(s)
  BY ScanFacts DEF Refuse, WaitCut, Calm
<1>2. ScanOK' /\ Only(s) /\ pc'[s] \notin Holding
  BY <1>1, ReturnOK
<1> QED
  BY <1>1, <1>2, BucketCancelled DEF Holding

\* A request's token has arrived.
LEMMA WaitTimerOK ==
    ASSUME LimiterInv, NEW s \in Scans, WaitTimer(s)
    PROVE  LimiterInv'
<1>1. ScanOK /\ Calm /\ UNCHANGED bucket
  BY ScanFacts, UsedInTime DEF WaitTimer, Calm
<1>2. ScanOK' /\ Only(s) /\ pc'[s] \in {"send", "reserve"}
  BY <1>1, GrantedOK DEF WaitTimer
<1> QED
  BY <1>1, <1>2, BucketsKept DEF Calm, Holding, LimiterInv, TypeOK

\* The request goes out, or is answered on the spot.
LEMMA SendOK ==
    ASSUME LimiterInv, NEW s \in Scans, Send(s)
    PROVE  LimiterInv'
<1>1. ScanOK /\ pc[s] = "send" /\ Calm /\ UNCHANGED bucket /\ standoff + 1 \in Nat
  BY ScanFacts, Numbers DEF Send, Calm, LimiterInv, TypeOK
<1>2. CASE Retry(s, standoff + 1)
  BY <1>1, <1>2, RetryOK, BucketsKept DEF Calm, LimiterInv, TypeOK
<1>3. CASE Return(s)
  BY <1>1, <1>3, ReturnOK, BucketsKept DEF Calm, LimiterInv, TypeOK
<1>4. CASE Goto(s, "flight") /\ UNCHANGED <<lane, actAt, deadline, credit, tries, fetches>>
  <2>1. Moved(s) /\ pc'[s] = "flight"
    BY <1>1, <1>4 DEF Goto, Moved, ScanOK, Steps
  <2>2. OnTrack(s)'
    BY <1>1, <1>4, <2>1 DEF OnTrack, ScanOK
  <2>3. ScanOK' /\ Only(s) /\ pc'[s] \notin Holding
    BY <1>1, <2>1, <2>2, MoveOK DEF Holding
  <2> QED
    BY <1>1, <2>3, BucketsKept DEF Calm, LimiterInv, TypeOK
<1> QED
  BY <1>2, <1>3, <1>4 DEF Send

\* The upstream answers, or the context of the request ends.
LEMMA AnswerOK ==
    ASSUME LimiterInv, NEW s \in Scans,
           TooManyRequests(s) \/ ServerError(s) \/ Answered(s) \/ CtxDone(s)
    PROVE  LimiterInv'
<1>1. /\ ScanOK /\ pc[s] # "idle" /\ UNCHANGED bucket /\ sonatype' = sonatype
      /\ pause \in 0..MaxPause /\ standoff \in 0..MaxStandoff
  BY ScanFacts DEF TooManyRequests, ServerError, Answered, CtxDone, LimiterInv, TypeOK
<1>2. CASE TooManyRequests(s)
  <2>1. PICK d \in RetryAfters :
          /\ pause' = Extended(pause, d, DefaultPause, MaxPause)
          /\ \/ standoff' = Extended(standoff, d, DefaultStandoff, MaxStandoff) /\ Return(s)
             \/ standoff' = standoff /\ Retry(s, d)
    BY <1>2 DEF TooManyRequests
  <2>2. d \in Nat
    BY LimiterAssumption
  <2>3. pause' \in 0..MaxPause /\ standoff' \in 0..MaxStandoff
    <3>1. Extended(pause, d, DefaultPause, MaxPause) \in 0..MaxPause
      BY <1>1, <2>2, ExtendedType, Numbers
    <3>2. Extended(standoff, d, DefaultStandoff, MaxStandoff) \in 0..MaxStandoff
      BY <1>1, <2>2, ExtendedType, Numbers
    <3> QED
      BY <1>1, <2>1, <3>1, <3>2
  <2>4. ScanOK' /\ Only(s) /\ pc'[s] \notin Holding
    BY <1>1, <2>1, <2>2, ReturnOK, RetryOK
  <2> QED
    BY <1>1, <2>3, <2>4, BucketsKept
<1>3. CASE ServerError(s)
  <2>1. PICK d \in RetryAfters : Retry(s, d)
    BY <1>3 DEF ServerError
  <2>2. d \in Nat
    BY LimiterAssumption
  <2>3. ScanOK' /\ Only(s) /\ pc'[s] \notin Holding
    BY <1>1, <2>1, <2>2, RetryOK
  <2> QED
    BY <1>1, <1>3, <2>3, BucketsKept DEF ServerError
<1>4. CASE Answered(s) \/ CtxDone(s)
  <2>1. Return(s) /\ pause' = pause /\ standoff' = standoff
    BY <1>4 DEF Answered, CtxDone
  <2> QED
    BY <1>1, <2>1, ReturnOK, BucketsKept
<1> QED
  BY <1>2, <1>3, <1>4

\* The next attempt begins.
LEMMA WakeOK ==
    ASSUME LimiterInv, NEW s \in Scans, Wake(s)
    PROVE  LimiterInv'
<1>1. /\ ScanOK /\ pc[s] = "sleep" /\ Calm /\ UNCHANGED bucket
      /\ tries[s] \in 0..MaxRetries /\ tries[s] < MaxRetries
  BY ScanFacts DEF Wake, Calm, ScanOK, OnTrack
<1>2. tries[s] + 1 \in 0..MaxRetries
  BY <1>1, Numbers
<1>3. Moved(s) /\ pc'[s] = "do"
  BY <1>1, <1>2, FirstLaneType DEF Wake, Goto, Moved, ScanOK, Steps, Instant, Times
<1>4. OnTrack(s)'
  BY <1>1, <1>3 DEF Wake, OnTrack, ScanOK
<1>5. ScanOK' /\ Only(s) /\ pc'[s] \notin Holding
  BY <1>1, <1>3, <1>4, MoveOK DEF Holding
<1> QED
  BY <1>1, <1>5, BucketsKept DEF Calm, LimiterInv, TypeOK

\* The caller of a scan goes away.
LEMMA AbandonOK ==
    ASSUME LimiterInv, NEW s \in Scans, Abandon(s)
    PROVE  LimiterInv'
<1>1. /\ UNCHANGED <<bucket, pc, lane, actAt, credit, tries, fetches>> /\ Calm
      /\ tokens' = tokens /\ lastEvent' = lastEvent /\ meter' = meter
      /\ deadline' = [deadline EXCEPT ![s] = 0]
  BY DEF Abandon, Calm, bucket
<1>2. \A l \in Lanes : \A p \in Holders(l)' : p \in Holders(l) /\ actAt'[p] = actAt[p]
  BY <1>1 DEF Holders
<1>3. \A l \in Lanes : Sound(l)'
  BY <1>1, <1>2, Kept
<1>4. \A p \in Scans : OnTrack(p)'
  BY <1>1 DEF OnTrack, LimiterInv
<1>5. ScanOK'
  BY <1>1, <1>4 DEF ScanOK, LimiterInv, TypeOK
<1>6. /\ sonatype' \in BOOLEAN /\ pause' \in 0..MaxPause /\ standoff' \in 0..MaxStandoff
      /\ tokens' \in [Lanes -> Int] /\ lastEvent' \in [Lanes -> Times]
      /\ meter' \in [Lanes -> Nat]
  BY <1>1 DEF Calm, LimiterInv, TypeOK
<1> QED
  BY <1>3, <1>5, <1>6, Joined

\* An install of the proxy's is charged.
LEMMA ChargeOK ==
    ASSUME LimiterInv, Charge
    PROVE  LimiterInv'
<1>1. \A l \in Lanes : Sound(l)' /\ tokens'[l] \in Int /\ lastEvent'[l] \in Times
  BY ChargeSound
<1>2. /\ tokens' \in [Lanes -> Int] /\ lastEvent' \in [Lanes -> Times]
  <2>1. /\ tokens' = [l \in Lanes |-> tokens'[l]]
        /\ lastEvent' = [l \in Lanes |-> lastEvent'[l]]
    BY DEF Charge, LimiterInv, TypeOK
  <2> QED
    BY <1>1, <2>1
<1>3. /\ Calm /\ meter' = meter /\ pc' = pc /\ lane' = lane /\ actAt' = actAt
      /\ deadline' = deadline /\ credit' = credit /\ tries' = tries /\ fetches' = fetches
  BY DEF Charge, scan, Calm
<1>4. \A p \in Scans : OnTrack(p)'
  BY <1>3 DEF OnTrack, LimiterInv
<1>5. ScanOK'
  BY <1>3, <1>4 DEF ScanOK, LimiterInv, TypeOK
<1>6. /\ sonatype' \in BOOLEAN /\ pause' \in 0..MaxPause /\ standoff' \in 0..MaxStandoff
      /\ meter' \in [Lanes -> Nat]
  BY <1>3 DEF Calm, LimiterInv, TypeOK
<1> QED
  BY <1>1, <1>2, <1>5, <1>6, Joined

\* Time passes.
LEMMA TickOK ==
    ASSUME LimiterInv, Tick
    PROVE  LimiterInv'
<1>1. \A l \in Lanes : /\ Sound(l)' /\ tokens'[l] \in Int /\ lastEvent'[l] \in Times
                       /\ meter'[l] \in Nat
  BY TickSound
<1>2. /\ tokens' \in [Lanes -> Int] /\ lastEvent' \in [Lanes -> Times]
      /\ meter' \in [Lanes -> Nat]
  <2>1. /\ tokens' = [l \in Lanes |-> tokens'[l]] /\ meter' = [l \in Lanes |-> meter'[l]]
        /\ lastEvent' = [l \in Lanes |-> lastEvent'[l]]
    BY DEF Tick
  <2> QED
    BY <1>1, <2>1
<1>3. /\ pc' = pc /\ lane' = lane /\ credit' = credit /\ tries' = tries /\ fetches' = fetches
      /\ sonatype' = sonatype
  BY DEF Tick
<1>4. \A p \in Scans : OnTrack(p)'
  BY <1>3 DEF OnTrack, LimiterInv
<1>5. \A t \in Times : Sooner(t) \in Times
  BY DEF Sooner, Larger, Times
<1>6. \A t \in Nat : Less(t) \in Nat /\ Less(t) <= t
  BY DEF Less, Larger
<1>7. actAt' \in [Scans -> Times] /\ deadline' \in [Scans -> Nat]
  BY <1>5, <1>6 DEF Tick, LimiterInv, TypeOK
<1>8. ScanOK'
  BY <1>3, <1>4, <1>7 DEF ScanOK, LimiterInv, TypeOK
<1>9. sonatype' \in BOOLEAN /\ pause' \in 0..MaxPause /\ standoff' \in 0..MaxStandoff
  <2>1. pause \in 0..MaxPause /\ standoff \in 0..MaxStandoff /\ sonatype \in BOOLEAN
    BY DEF LimiterInv, TypeOK
  <2>2. pause' = Less(pause) /\ standoff' = Less(standoff)
    BY DEF Tick
  <2>3. pause' \in 0..MaxPause /\ standoff' \in 0..MaxStandoff
    BY <1>6, <2>1, <2>2, Numbers
  <2> QED
    BY <1>3, <2>1, <2>3
<1> QED
  BY <1>1, <1>2, <1>8, <1>9, Joined

\* Full buckets and idle scans.
LEMMA InitOK == Init => LimiterInv
<1> SUFFICES ASSUME Init
             PROVE  LimiterInv
  OBVIOUS
<1>1. \A l \in Lanes : Capacity(l) \in Nat /\ Holders(l) = {} /\ meter[l] = 0 /\ tokens[l] = Capacity(l)
  BY LaneFacts DEF Init, Holders, Holding
<1>2. \A l \in Lanes : Sound(l)
  BY <1>1 DEF Sound, Spaced, Covered
<1>3. \A s \in Scans : OnTrack(s)
  BY DEF Init, OnTrack
<1>4. TypeOK
  <2>1. tokens \in [Lanes -> Int] /\ lastEvent \in [Lanes -> Times] /\ meter \in [Lanes -> Nat]
    BY <1>1 DEF Init, Times
  <2>2. /\ pc \in [Scans -> Steps] /\ lane \in [Scans -> Lanes] /\ actAt \in [Scans -> Times]
        /\ deadline \in [Scans -> Nat] /\ credit \in [Scans -> 0..Prepaid]
        /\ tries \in [Scans -> 0..MaxRetries] /\ fetches \in [Scans -> 0..MaxFetches]
    BY FirstLaneType, Numbers DEF Init, Steps, Times
  <2>3. sonatype \in BOOLEAN /\ pause \in 0..MaxPause /\ standoff \in 0..MaxStandoff
    BY LimiterAssumption, Numbers DEF Init
  <2> QED
    BY <2>1, <2>2, <2>3 DEF TypeOK
<1> QED
  BY <1>2, <1>3, <1>4 DEF LimiterInv

\* Every step of the process, its callers and the upstream keeps LimiterInv.
LEMMA NextOK == LimiterInv /\ [Next]_vars => LimiterInv'
<1> SUFFICES ASSUME LimiterInv, [Next]_vars
             PROVE  LimiterInv'
  OBVIOUS
<1>1. ASSUME NEW s \in Scans, Proceed(s)
      PROVE  LimiterInv'
  BY <1>1, PrepayOK, PrepayTimerOK, PrepayEndsOK, DoOK, ReserveOK, RefuseOK, WaitTimerOK,
     SendOK, WakeOK, AnswerOK DEF Proceed
<1>2. ASSUME NEW s \in Scans, Start(s)
      PROVE  LimiterInv'
  BY <1>2, StartOK
<1>3. ASSUME NEW s \in Scans, Abandon(s) \/ AbandonPrepay(s)
      PROVE  LimiterInv'
  BY <1>3, AbandonOK, PrepayEndsOK
<1>4. ASSUME NEW s \in Scans, TooManyRequests(s) \/ ServerError(s) \/ Answered(s)
      PROVE  LimiterInv'
  BY <1>4, AnswerOK
<1>5. CASE Charge \/ Tick
  BY <1>5, ChargeOK, TickOK
<1>6. CASE UNCHANGED vars
  BY <1>6 DEF vars, LimiterInv, TypeOK, OnTrack, Sound, Spaced, Covered, Holders, Cost, Capacity
<1> QED
  BY <1>1, <1>2, <1>3, <1>4, <1>5, <1>6 DEF Next

\* Reservations stay whole tokens apart, a bucket's debt reaches exactly as
\* far as its last reservation, and what it granted and holds fits its burst.
THEOREM LimiterSound == Spec => []LimiterInv
BY InitOK, NextOK, PTL DEF Spec

\* The rate holds whatever is refused, cut short, overtaken or given back:
\* neither bucket ever grants more than its burst and its rate allow.
THEOREM RateIsHeld == Spec => []RateHolds
<1>1. LimiterInv => RateHolds
  BY DEF LimiterInv, Sound, RateHolds
<1> QED
  BY <1>1, LimiterSound, PTL

=============================================================================
