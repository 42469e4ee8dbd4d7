------------------------- MODULE ScanFlight_proofs -------------------------
(***************************************************************************)
(* ScanInv, AnswersAreCurrent, UploadsStayPrivate and RowsGoForward hold   *)
(* for every number of scans, replicas, keys and connections, every mix of *)
(* options and every choice of the replicas that may fail or crash.        *)
(*                                                                         *)
(* ScanInv is inductive.  Its part HandOver carries AnswersAreCurrent: what*)
(* a follower will read is fresh unless a lock went back with nothing      *)
(* stored.  Its part LeaderIsLatest carries RowsGoForward.                 *)
(***************************************************************************)
EXTENDS ScanFlight, TLAPS

\* A transaction that begins takes a connection nobody on its replica has.
LEMMA Pinned ==
    ASSUME NEW w \in Workers, Pin(w)
    PROVE  \E c \in Conns : /\ conn' = [conn EXCEPT ![w] = c]
                            /\ \A x \in Workers : Home[x] = Home[w] => conn[x] # c
<1> DEFINE c == CHOOSE c \in Free(Home[w]) : TRUE
<1>1. c \in Free(Home[w])
  BY DEF Pin
<1>2. c \in Conns /\ \A x \in Workers : Home[x] = Home[w] => conn[x] # c
  <2> HIDE DEF c
  <2> QED BY <1>1, ScanAssumption DEF Free
<1>3. conn' = [conn EXCEPT ![w] = c]
  BY DEF Pin
<1> HIDE DEF c
<1> QED BY <1>2, <1>3

\* Every step keeps the types.
LEMMA TypeStep ==
    ASSUME ScanInv, Next
    PROVE  TypeOK'
<1>0. TypeOK
  BY DEF ScanInv
<1>1. ASSUME NEW w \in Workers, Start(w) PROVE TypeOK'
  BY <1>0, <1>1 DEF TypeOK, Start, FanOut, Goto, Bypasses, Steps, Lapses,
     Following, Computing, store, scan
<1>2. ASSUME NEW w \in Workers, Hit(w) PROVE TypeOK'
  BY <1>0, <1>2 DEF TypeOK, Hit, Return, Goto, Servable, Fresh, Steps,
     Lapses, Following, Computing, store, scan
<1>3. ASSUME NEW w \in Workers, StaleHit(w) PROVE TypeOK'
  BY <1>0, <1>3 DEF TypeOK, StaleHit, Servable, Steps, Lapses, Following,
     Computing, store, scan
<1>4. ASSUME NEW w \in Workers, Miss(w) PROVE TypeOK'
  BY <1>0, <1>4 DEF TypeOK, Miss, Goto, Steps, Lapses, Following,
     Computing, store, scan
<1>5. ASSUME NEW w \in Workers, Lead(w) PROVE TypeOK'
  BY <1>0, <1>5, Pinned DEF TypeOK, Lead, Goto, Steps, Lapses, Following,
     Computing, store, scan
<1>6. ASSUME NEW w \in Workers, Yield(w) PROVE TypeOK'
  BY <1>0, <1>6 DEF TypeOK, Yield, Goto, Steps, Lapses, Following,
     Computing, store, scan
<1>7. ASSUME NEW w \in Workers, Direct(w) PROVE TypeOK'
  BY <1>0, <1>7 DEF TypeOK, Direct, Goto, Steps, Lapses, Following,
     Computing, store, scan
<1>8. ASSUME NEW w \in Workers, Queue(w) PROVE TypeOK'
  BY <1>0, <1>8, Pinned DEF TypeOK, Queue, Goto, Steps, Lapses, Following,
     Computing, store, scan
<1>9. ASSUME NEW w \in Workers, Granted(w) PROVE TypeOK'
  BY <1>0, <1>9 DEF TypeOK, Granted, Release, Goto, Steps, Lapses,
     Following, Computing, store, scan
<1>10. ASSUME NEW w \in Workers, Peek(w) PROVE TypeOK'
  BY <1>0, <1>10 DEF TypeOK, Peek, Return, Goto, Servable, Steps, Lapses,
     Following, Computing, store, scan
<1>11. ASSUME NEW w \in Workers, FollowFails(w) PROVE TypeOK'
  BY <1>0, <1>11 DEF TypeOK, FollowFails, Release, Return, Goto, Steps,
     Lapses, Following, Computing, store, scan
<1>12. ASSUME NEW w \in Workers, Join(w) PROVE TypeOK'
  BY <1>0, <1>12 DEF TypeOK, Join, Goto, Steps, Lapses, Following,
     Computing, store, scan
<1>13. ASSUME NEW w \in Workers, Fly(w) PROVE TypeOK'
  BY <1>0, <1>13 DEF TypeOK, Fly, FanOut, Goto, Steps, Lapses, Following,
     Computing, store, scan
<1>14. ASSUME NEW w \in Workers, Collected(w) PROVE TypeOK'
  BY <1>0, <1>14 DEF TypeOK, Collected, Return, Goto, Bypasses, Steps,
     Lapses, Following, Computing, store, scan
<1>15. ASSUME NEW w \in Workers, Upsert(w) PROVE TypeOK'
  BY <1>0, <1>15 DEF TypeOK, Upsert, Landed, Sharing, Steps, Lapses,
     Following, Computing, store, scan
<1>16. ASSUME NEW w \in Workers, UpsertFails(w) PROVE TypeOK'
  BY <1>0, <1>16 DEF TypeOK, UpsertFails, Landed, Sharing, Steps, Lapses,
     Following, Computing, store, scan
<1>17. ASSUME NEW w \in Workers, Commit(w) PROVE TypeOK'
  BY <1>0, <1>17 DEF TypeOK, Commit, Release, Return, Goto, Steps, Lapses,
     Following, Computing, store, scan
<1>18. ASSUME NEW w \in Workers, Deadline(w) PROVE TypeOK'
  BY <1>0, <1>18 DEF TypeOK, Deadline, RolledBack, Release, Steps, Lapses,
     Following, Computing, store, scan
<1>19. ASSUME NEW r \in Replicas, Crash(r) PROVE TypeOK'
  BY <1>0, <1>19 DEF TypeOK, Crash, Steps, Lapses, Following, Computing,
     store, scan
<1>20. ASSUME NEW k \in Keys, Age(k) PROVE TypeOK'
  BY <1>0, <1>20 DEF TypeOK, Age, Steps, Lapses, Following, Computing,
     store, scan
<1> QED BY <1>1, <1>2, <1>3, <1>4, <1>5, <1>6, <1>7, <1>8, <1>9, <1>10,
    <1>11, <1>12, <1>13, <1>14, <1>15, <1>16, <1>17, <1>18, <1>19, <1>20 DEF
    Next, Step

\* Every step keeps locks and connections exclusive.
LEMMA LocksStep ==
    ASSUME ScanInv, Next
    PROVE  LocksExclude'
<1>0. TypeOK /\ LocksExclude /\ TransactionsAreLive
  BY DEF ScanInv
<1>1. ASSUME NEW w \in Workers, Start(w) PROVE LocksExclude'
  BY <1>0, <1>1 DEF TypeOK, LocksExclude, TransactionsAreLive, Start,
     FanOut, Goto, Bypasses, Busy, store, scan
<1>2. ASSUME NEW w \in Workers, Hit(w) PROVE LocksExclude'
  BY <1>0, <1>2 DEF TypeOK, LocksExclude, TransactionsAreLive, Hit, Return,
     Goto, Servable, Fresh, Busy, store, scan
<1>3. ASSUME NEW w \in Workers, StaleHit(w) PROVE LocksExclude'
  BY <1>0, <1>3 DEF TypeOK, LocksExclude, TransactionsAreLive, StaleHit,
     Servable, Busy, store, scan
<1>4. ASSUME NEW w \in Workers, Miss(w) PROVE LocksExclude'
  BY <1>0, <1>4 DEF TypeOK, LocksExclude, TransactionsAreLive, Miss, Goto,
     Busy, store, scan
<1>5. ASSUME NEW w \in Workers, Lead(w) PROVE LocksExclude'
  BY <1>0, <1>5, Pinned DEF TypeOK, LocksExclude, TransactionsAreLive,
     Lead, Goto, Busy, store, scan
<1>6. ASSUME NEW w \in Workers, Yield(w) PROVE LocksExclude'
  BY <1>0, <1>6 DEF TypeOK, LocksExclude, TransactionsAreLive, Yield, Goto,
     Busy, store, scan
<1>7. ASSUME NEW w \in Workers, Direct(w) PROVE LocksExclude'
  BY <1>0, <1>7 DEF TypeOK, LocksExclude, TransactionsAreLive, Direct,
     Goto, Busy, store, scan
<1>8. ASSUME NEW w \in Workers, Queue(w) PROVE LocksExclude'
  BY <1>0, <1>8, Pinned DEF TypeOK, LocksExclude, TransactionsAreLive,
     Queue, Goto, Busy, store, scan
<1>9. ASSUME NEW w \in Workers, Granted(w) PROVE LocksExclude'
  BY <1>0, <1>9 DEF TypeOK, LocksExclude, TransactionsAreLive, Granted,
     Release, Goto, Busy, store, scan
<1>10. ASSUME NEW w \in Workers, Peek(w) PROVE LocksExclude'
  BY <1>0, <1>10 DEF TypeOK, LocksExclude, TransactionsAreLive, Peek,
     Return, Goto, Servable, Busy, store, scan
<1>11. ASSUME NEW w \in Workers, FollowFails(w) PROVE LocksExclude'
  BY <1>0, <1>11 DEF TypeOK, LocksExclude, TransactionsAreLive,
     FollowFails, Release, Return, Goto, Busy, store, scan
<1>12. ASSUME NEW w \in Workers, Join(w) PROVE LocksExclude'
  BY <1>0, <1>12 DEF TypeOK, LocksExclude, TransactionsAreLive, Join, Goto,
     Busy, store, scan
<1>13. ASSUME NEW w \in Workers, Fly(w) PROVE LocksExclude'
  BY <1>0, <1>13 DEF TypeOK, LocksExclude, TransactionsAreLive, Fly,
     FanOut, Goto, Busy, store, scan
<1>14. ASSUME NEW w \in Workers, Collected(w) PROVE LocksExclude'
  BY <1>0, <1>14 DEF TypeOK, LocksExclude, TransactionsAreLive, Collected,
     Return, Goto, Bypasses, Busy, store, scan
<1>15. ASSUME NEW w \in Workers, Upsert(w) PROVE LocksExclude'
  BY <1>0, <1>15 DEF TypeOK, LocksExclude, TransactionsAreLive, Upsert,
     Landed, Sharing, Busy, store, scan
<1>16. ASSUME NEW w \in Workers, UpsertFails(w) PROVE LocksExclude'
  BY <1>0, <1>16 DEF TypeOK, LocksExclude, TransactionsAreLive,
     UpsertFails, Landed, Sharing, Busy, store, scan
<1>17. ASSUME NEW w \in Workers, Commit(w) PROVE LocksExclude'
  BY <1>0, <1>17 DEF TypeOK, LocksExclude, TransactionsAreLive, Commit,
     Release, Return, Goto, Busy, store, scan
<1>18. ASSUME NEW w \in Workers, Deadline(w) PROVE LocksExclude'
  BY <1>0, <1>18 DEF TypeOK, LocksExclude, TransactionsAreLive, Deadline,
     RolledBack, Release, Busy, store, scan
<1>19. ASSUME NEW r \in Replicas, Crash(r) PROVE LocksExclude'
  BY <1>0, <1>19 DEF TypeOK, LocksExclude, TransactionsAreLive, Crash,
     Busy, store, scan
<1>20. ASSUME NEW k \in Keys, Age(k) PROVE LocksExclude'
  BY <1>0, <1>20 DEF TypeOK, LocksExclude, TransactionsAreLive, Age, Busy,
     store, scan
<1> QED BY <1>1, <1>2, <1>3, <1>4, <1>5, <1>6, <1>7, <1>8, <1>9, <1>10,
    <1>11, <1>12, <1>13, <1>14, <1>15, <1>16, <1>17, <1>18, <1>19, <1>20 DEF
    Next, Step

\* Every step keeps transactions where they belong.
LEMMA LiveStep ==
    ASSUME ScanInv, Next
    PROVE  TransactionsAreLive'
<1>0. TypeOK /\ LocksExclude /\ TransactionsAreLive /\ ReportsAreYoung
  BY DEF ScanInv
<1>1. ASSUME NEW w \in Workers, Start(w) PROVE TransactionsAreLive'
  BY <1>0, <1>1 DEF TypeOK, LocksExclude, TransactionsAreLive,
     ReportsAreYoung, Start, FanOut, Goto, Bypasses, Computing, Following,
     Steps, store, scan
<1>2. ASSUME NEW w \in Workers, Hit(w) PROVE TransactionsAreLive'
  BY <1>0, <1>2 DEF TypeOK, LocksExclude, TransactionsAreLive,
     ReportsAreYoung, Hit, Return, Goto, Servable, Fresh, Computing,
     Following, Steps, Bypasses, store, scan
<1>3. ASSUME NEW w \in Workers, StaleHit(w) PROVE TransactionsAreLive'
  BY <1>0, <1>3 DEF TypeOK, LocksExclude, TransactionsAreLive,
     ReportsAreYoung, StaleHit, Servable, Computing, Following, Steps,
     Bypasses, store, scan
<1>4. ASSUME NEW w \in Workers, Miss(w) PROVE TransactionsAreLive'
  BY <1>0, <1>4 DEF TypeOK, LocksExclude, TransactionsAreLive,
     ReportsAreYoung, Miss, Goto, Computing, Following, Steps, Bypasses,
     store, scan
<1>5. ASSUME NEW w \in Workers, Lead(w) PROVE TransactionsAreLive'
  BY <1>0, <1>5, Pinned DEF TypeOK, LocksExclude, TransactionsAreLive,
     ReportsAreYoung, Lead, Goto, Computing, Following, Steps, Bypasses,
     store, scan
<1>6. ASSUME NEW w \in Workers, Yield(w) PROVE TransactionsAreLive'
  BY <1>0, <1>6 DEF TypeOK, LocksExclude, TransactionsAreLive,
     ReportsAreYoung, Yield, Goto, Computing, Following, Steps, Bypasses,
     store, scan
<1>7. ASSUME NEW w \in Workers, Direct(w) PROVE TransactionsAreLive'
  BY <1>0, <1>7 DEF TypeOK, LocksExclude, TransactionsAreLive,
     ReportsAreYoung, Direct, Goto, Computing, Following, Steps, Bypasses,
     store, scan
<1>8. ASSUME NEW w \in Workers, Queue(w) PROVE TransactionsAreLive'
  BY <1>0, <1>8, Pinned DEF TypeOK, LocksExclude, TransactionsAreLive,
     ReportsAreYoung, Queue, Goto, Computing, Following, Steps, Bypasses,
     store, scan
<1>9. ASSUME NEW w \in Workers, Granted(w) PROVE TransactionsAreLive'
  BY <1>0, <1>9 DEF TypeOK, LocksExclude, TransactionsAreLive,
     ReportsAreYoung, Granted, Release, Goto, Computing, Following, Steps,
     Bypasses, store, scan
<1>10. ASSUME NEW w \in Workers, Peek(w) PROVE TransactionsAreLive'
  BY <1>0, <1>10 DEF TypeOK, LocksExclude, TransactionsAreLive,
     ReportsAreYoung, Peek, Return, Goto, Servable, Computing, Following,
     Steps, Bypasses, store, scan
<1>11. ASSUME NEW w \in Workers, FollowFails(w) PROVE TransactionsAreLive'
  BY <1>0, <1>11 DEF TypeOK, LocksExclude, TransactionsAreLive,
     ReportsAreYoung, FollowFails, Release, Return, Goto, Computing,
     Following, Steps, Bypasses, store, scan
<1>12. ASSUME NEW w \in Workers, Join(w) PROVE TransactionsAreLive'
  BY <1>0, <1>12 DEF TypeOK, LocksExclude, TransactionsAreLive,
     ReportsAreYoung, Join, Goto, Computing, Following, Steps, Bypasses,
     store, scan
<1>13. ASSUME NEW w \in Workers, Fly(w) PROVE TransactionsAreLive'
  BY <1>0, <1>13 DEF TypeOK, LocksExclude, TransactionsAreLive,
     ReportsAreYoung, Fly, FanOut, Goto, Computing, Following, Steps,
     Bypasses, store, scan
<1>14. ASSUME NEW w \in Workers, Collected(w) PROVE TransactionsAreLive'
  BY <1>0, <1>14 DEF TypeOK, LocksExclude, TransactionsAreLive,
     ReportsAreYoung, Collected, Return, Goto, Bypasses, Computing, Following,
     Steps, store, scan
<1>15. ASSUME NEW w \in Workers, Upsert(w) PROVE TransactionsAreLive'
  BY <1>0, <1>15 DEF TypeOK, LocksExclude, TransactionsAreLive,
     ReportsAreYoung, Upsert, Landed, Sharing, Computing, Following, Steps,
     Bypasses, store, scan
<1>16. ASSUME NEW w \in Workers, UpsertFails(w) PROVE TransactionsAreLive'
  BY <1>0, <1>16 DEF TypeOK, LocksExclude, TransactionsAreLive,
     ReportsAreYoung, UpsertFails, Landed, Sharing, Computing, Following,
     Steps, Bypasses, store, scan
<1>17. ASSUME NEW w \in Workers, Commit(w) PROVE TransactionsAreLive'
  BY <1>0, <1>17 DEF TypeOK, LocksExclude, TransactionsAreLive,
     ReportsAreYoung, Commit, Release, Return, Goto, Computing, Following,
     Steps, Bypasses, store, scan
<1>18. ASSUME NEW w \in Workers, Deadline(w) PROVE TransactionsAreLive'
  BY <1>0, <1>18 DEF TypeOK, LocksExclude, TransactionsAreLive,
     ReportsAreYoung, Deadline, RolledBack, Release, Computing, Following,
     Steps, Bypasses, store, scan
<1>19. ASSUME NEW r \in Replicas, Crash(r) PROVE TransactionsAreLive'
  BY <1>0, <1>19 DEF TypeOK, LocksExclude, TransactionsAreLive,
     ReportsAreYoung, Crash, Computing, Following, Steps, Bypasses, store,
     scan
<1>20. ASSUME NEW k \in Keys, Age(k) PROVE TransactionsAreLive'
  BY <1>0, <1>20 DEF TypeOK, LocksExclude, TransactionsAreLive,
     ReportsAreYoung, Age, Computing, Following, Steps, Bypasses, store, scan
<1> QED BY <1>1, <1>2, <1>3, <1>4, <1>5, <1>6, <1>7, <1>8, <1>9, <1>10,
    <1>11, <1>12, <1>13, <1>14, <1>15, <1>16, <1>17, <1>18, <1>19, <1>20 DEF
    Next, Step

\* Every step keeps reports young.
LEMMA YoungStep ==
    ASSUME ScanInv, Next
    PROVE  ReportsAreYoung'
<1>0. TypeOK /\ ReportsAreYoung
  BY DEF ScanInv
<1>1. ASSUME NEW w \in Workers, Start(w) PROVE ReportsAreYoung'
  <2>1. (\A j \in Keys : stale[j] =< started[j] /\ (row[j] \in Nat => row[j] =< started[j]))'
    BY <1>0, <1>1 DEF Start, FanOut, Goto, TypeOK, ReportsAreYoung, Active, Steps, Bypasses, store, scan
  <2>2. (\A x \in Workers : /\ report[x] \in Nat => report[x] =< started[key[x]]
                            /\ answer[x] \in Nat => answer[x] =< started[key[x]])'
    BY <1>0, <1>1 DEF Start, FanOut, Goto, TypeOK, ReportsAreYoung, Active, Steps, Bypasses, store, scan
  <2>3. (\A x \in Workers : pc[x] \in {"fanout", "upsert", "commit"} =>
                               report[x] \in Nat /\ report[x] > stale[key[x]])'
    BY <1>0, <1>1 DEF Start, FanOut, Goto, TypeOK, ReportsAreYoung, Active, Steps, Bypasses, store, scan
  <2>4. (\A x \in Workers : Active(x) => since[x] = stale[key[x]])'
    BY <1>0, <1>1 DEF Start, FanOut, Goto, TypeOK, ReportsAreYoung, Active, Steps, Bypasses, store, scan
  <2>5. (\A x \in Workers : /\ Bypasses(x) => pc[x] \in {"idle", "fanout", "done"}
                            /\ pc[x] = "idle" => answer[x] = None)'
    BY <1>0, <1>1 DEF Start, FanOut, Goto, TypeOK, ReportsAreYoung, Active, Steps, Bypasses, store, scan
  <2> QED BY <2>1, <2>2, <2>3, <2>4, <2>5 DEF ReportsAreYoung
<1>2. ASSUME NEW w \in Workers, Hit(w) PROVE ReportsAreYoung'
  BY <1>0, <1>2 DEF TypeOK, ReportsAreYoung, Hit, Return, Goto, Servable,
     Fresh, Active, Steps, Following, Bypasses, store, scan
<1>3. ASSUME NEW w \in Workers, StaleHit(w) PROVE ReportsAreYoung'
  BY <1>0, <1>3 DEF TypeOK, ReportsAreYoung, StaleHit, Servable, Active,
     Steps, Following, Bypasses, store, scan
<1>4. ASSUME NEW w \in Workers, Miss(w) PROVE ReportsAreYoung'
  BY <1>0, <1>4 DEF TypeOK, ReportsAreYoung, Miss, Goto, Active, Steps,
     Following, Bypasses, store, scan
<1>5. ASSUME NEW w \in Workers, Lead(w) PROVE ReportsAreYoung'
  BY <1>0, <1>5, Pinned DEF TypeOK, ReportsAreYoung, Lead, Goto, Active,
     Steps, Following, Bypasses, store, scan
<1>6. ASSUME NEW w \in Workers, Yield(w) PROVE ReportsAreYoung'
  BY <1>0, <1>6 DEF TypeOK, ReportsAreYoung, Yield, Goto, Active, Steps,
     Following, Bypasses, store, scan
<1>7. ASSUME NEW w \in Workers, Direct(w) PROVE ReportsAreYoung'
  BY <1>0, <1>7 DEF TypeOK, ReportsAreYoung, Direct, Goto, Active, Steps,
     Following, Bypasses, store, scan
<1>8. ASSUME NEW w \in Workers, Queue(w) PROVE ReportsAreYoung'
  BY <1>0, <1>8, Pinned DEF TypeOK, ReportsAreYoung, Queue, Goto, Active,
     Steps, Following, Bypasses, store, scan
<1>9. ASSUME NEW w \in Workers, Granted(w) PROVE ReportsAreYoung'
  BY <1>0, <1>9 DEF TypeOK, ReportsAreYoung, Granted, Release, Goto,
     Active, Steps, Following, Bypasses, store, scan
<1>10. ASSUME NEW w \in Workers, Peek(w) PROVE ReportsAreYoung'
  BY <1>0, <1>10 DEF TypeOK, ReportsAreYoung, Peek, Return, Goto, Servable,
     Active, Steps, Following, Bypasses, store, scan
<1>11. ASSUME NEW w \in Workers, FollowFails(w) PROVE ReportsAreYoung'
  BY <1>0, <1>11 DEF TypeOK, ReportsAreYoung, FollowFails, Release, Return,
     Goto, Active, Steps, Following, Bypasses, store, scan
<1>12. ASSUME NEW w \in Workers, Join(w) PROVE ReportsAreYoung'
  BY <1>0, <1>12 DEF TypeOK, ReportsAreYoung, Join, Goto, Active, Steps,
     Following, Bypasses, store, scan
<1>13. ASSUME NEW w \in Workers, Fly(w) PROVE ReportsAreYoung'
  BY <1>0, <1>13 DEF TypeOK, ReportsAreYoung, Fly, FanOut, Goto, Active,
     Steps, Following, Bypasses, store, scan
<1>14. ASSUME NEW w \in Workers, Collected(w) PROVE ReportsAreYoung'
  BY <1>0, <1>14 DEF TypeOK, ReportsAreYoung, Collected, Return, Goto,
     Bypasses, Active, Steps, Following, store, scan
<1>15. ASSUME NEW w \in Workers, Upsert(w) PROVE ReportsAreYoung'
  BY <1>0, <1>15 DEF TypeOK, ReportsAreYoung, Upsert, Landed, Sharing,
     Active, Steps, Following, Bypasses, store, scan
<1>16. ASSUME NEW w \in Workers, UpsertFails(w) PROVE ReportsAreYoung'
  BY <1>0, <1>16 DEF TypeOK, ReportsAreYoung, UpsertFails, Landed, Sharing,
     Active, Steps, Following, Bypasses, store, scan
<1>17. ASSUME NEW w \in Workers, Commit(w) PROVE ReportsAreYoung'
  <2>1. (\A j \in Keys : stale[j] =< started[j] /\ (row[j] \in Nat => row[j] =< started[j]))'
    BY <1>0, <1>17 DEF Commit, Release, Return, Goto, TypeOK, ReportsAreYoung, Active, Steps, Bypasses, store, scan
  <2>2. (\A x \in Workers : /\ report[x] \in Nat => report[x] =< started[key[x]]
                            /\ answer[x] \in Nat => answer[x] =< started[key[x]])'
    <3> SUFFICES ASSUME NEW x \in Workers
                 PROVE  (/\ report[x] \in Nat => report[x] =< started[key[x]]
                         /\ answer[x] \in Nat => answer[x] =< started[key[x]])'
      OBVIOUS
    <3>1. started' = started /\ key' = key
      BY <1>17 DEF Commit, store
    <3>2. report'[x] = report[x] \/ report'[x] = None
      BY <1>0, <1>17 DEF TypeOK, Commit, Release, Return, Goto
    <3>3. answer'[x] = answer[x] \/ answer'[x] = report[x]
      BY <1>0, <1>17 DEF TypeOK, Commit, Release, Return, Goto
    <3>4. /\ report[x] \in Nat => report[x] =< started[key[x]]
          /\ answer[x] \in Nat => answer[x] =< started[key[x]]
      BY <1>0 DEF ReportsAreYoung
    <3>5. None \notin Nat
      BY ScanAssumption
    <3> QED BY <3>1, <3>2, <3>3, <3>4, <3>5
  <2>3. (\A x \in Workers : pc[x] \in {"fanout", "upsert", "commit"} =>
                               report[x] \in Nat /\ report[x] > stale[key[x]])'
    BY <1>0, <1>17 DEF Commit, Release, Return, Goto, TypeOK, ReportsAreYoung, Active, Steps, Bypasses, store, scan
  <2>4. (\A x \in Workers : Active(x) => since[x] = stale[key[x]])'
    BY <1>0, <1>17 DEF Commit, Release, Return, Goto, TypeOK, ReportsAreYoung, Active, Steps, Bypasses, store, scan
  <2>5. (\A x \in Workers : /\ Bypasses(x) => pc[x] \in {"idle", "fanout", "done"}
                            /\ pc[x] = "idle" => answer[x] = None)'
    BY <1>0, <1>17 DEF Commit, Release, Return, Goto, TypeOK, ReportsAreYoung, Active, Steps, Bypasses, store, scan
  <2> QED BY <2>1, <2>2, <2>3, <2>4, <2>5 DEF ReportsAreYoung
<1>18. ASSUME NEW w \in Workers, Deadline(w) PROVE ReportsAreYoung'
  BY <1>0, <1>18 DEF TypeOK, ReportsAreYoung, Deadline, RolledBack,
     Release, Active, Steps, Following, Bypasses, store, scan
<1>19. ASSUME NEW r \in Replicas, Crash(r) PROVE ReportsAreYoung'
  <2>1. (\A j \in Keys : stale[j] =< started[j] /\ (row[j] \in Nat => row[j] =< started[j]))'
    BY <1>0, <1>19 DEF Crash, TypeOK, ReportsAreYoung, Active, Steps, Bypasses, store, scan
  <2>2. (\A x \in Workers : /\ report[x] \in Nat => report[x] =< started[key[x]]
                            /\ answer[x] \in Nat => answer[x] =< started[key[x]])'
    <3> SUFFICES ASSUME NEW x \in Workers
                 PROVE  (/\ report[x] \in Nat => report[x] =< started[key[x]]
                         /\ answer[x] \in Nat => answer[x] =< started[key[x]])'
      OBVIOUS
    <3>1. started' = started /\ key' = key
      BY <1>19 DEF Crash, store
    <3>2. report'[x] = report[x] \/ report'[x] = None
      BY <1>0, <1>19 DEF TypeOK, Crash
    <3>3. answer'[x] = answer[x] \/ answer'[x] = report[x]
      BY <1>0, <1>19 DEF TypeOK, Crash
    <3>4. /\ report[x] \in Nat => report[x] =< started[key[x]]
          /\ answer[x] \in Nat => answer[x] =< started[key[x]]
      BY <1>0 DEF ReportsAreYoung
    <3>5. None \notin Nat
      BY ScanAssumption
    <3> QED BY <3>1, <3>2, <3>3, <3>4, <3>5
  <2>3. (\A x \in Workers : pc[x] \in {"fanout", "upsert", "commit"} =>
                               report[x] \in Nat /\ report[x] > stale[key[x]])'
    BY <1>0, <1>19 DEF Crash, TypeOK, ReportsAreYoung, Active, Steps, Bypasses, store, scan
  <2>4. (\A x \in Workers : Active(x) => since[x] = stale[key[x]])'
    BY <1>0, <1>19 DEF Crash, TypeOK, ReportsAreYoung, Active, Steps, Bypasses, store, scan
  <2>5. (\A x \in Workers : /\ Bypasses(x) => pc[x] \in {"idle", "fanout", "done"}
                            /\ pc[x] = "idle" => answer[x] = None)'
    BY <1>0, <1>19 DEF Crash, TypeOK, ReportsAreYoung, Active, Steps, Bypasses, store, scan
  <2> QED BY <2>1, <2>2, <2>3, <2>4, <2>5 DEF ReportsAreYoung
<1>20. ASSUME NEW k \in Keys, Age(k) PROVE ReportsAreYoung'
  BY <1>0, <1>20 DEF TypeOK, ReportsAreYoung, Age, Active, Steps,
     Following, Bypasses, store, scan
<1> QED BY <1>1, <1>2, <1>3, <1>4, <1>5, <1>6, <1>7, <1>8, <1>9, <1>10,
    <1>11, <1>12, <1>13, <1>14, <1>15, <1>16, <1>17, <1>18, <1>19, <1>20 DEF
    Next, Step

\* Every step keeps the hand-over from leaders to followers.
LEMMA HandOverStep ==
    ASSUME ScanInv, Next
    PROVE  HandOver'
<1>0. TypeOK /\ TransactionsAreLive /\ ReportsAreYoung /\ HandOver
  BY DEF ScanInv
<1>1. ASSUME NEW w \in Workers, Start(w) PROVE HandOver'
  BY <1>0, <1>1 DEF TypeOK, TransactionsAreLive, ReportsAreYoung, HandOver,
     Start, FanOut, Goto, Bypasses, StoredFresh, Abandons, Computing,
     Following, Steps, Lapses, Busy, Locked, Active, store, scan
<1>2. ASSUME NEW w \in Workers, Hit(w) PROVE HandOver'
  BY <1>0, <1>2 DEF TypeOK, TransactionsAreLive, ReportsAreYoung, HandOver,
     Hit, Return, Goto, Servable, Fresh, StoredFresh, Abandons, Computing,
     Following, Steps, Lapses, Busy, Locked, Active, store, scan
<1>3. ASSUME NEW w \in Workers, StaleHit(w) PROVE HandOver'
  BY <1>0, <1>3 DEF TypeOK, TransactionsAreLive, ReportsAreYoung, HandOver,
     StaleHit, Servable, StoredFresh, Abandons, Computing, Following, Steps,
     Lapses, Busy, Locked, Active, store, scan
<1>4. ASSUME NEW w \in Workers, Miss(w) PROVE HandOver'
  BY <1>0, <1>4 DEF TypeOK, TransactionsAreLive, ReportsAreYoung, HandOver,
     Miss, Goto, StoredFresh, Abandons, Computing, Following, Steps, Lapses,
     Busy, Locked, Active, store, scan
<1>5. ASSUME NEW w \in Workers, Lead(w) PROVE HandOver'
  BY <1>0, <1>5, Pinned DEF TypeOK, TransactionsAreLive, ReportsAreYoung,
     HandOver, Lead, Goto, StoredFresh, Abandons, Computing, Following, Steps,
     Lapses, Busy, Locked, Active, store, scan
<1>6. ASSUME NEW w \in Workers, Yield(w) PROVE HandOver'
  BY <1>0, <1>6 DEF TypeOK, TransactionsAreLive, ReportsAreYoung, HandOver,
     Yield, Goto, StoredFresh, Abandons, Computing, Following, Steps, Lapses,
     Busy, Locked, Active, store, scan
<1>7. ASSUME NEW w \in Workers, Direct(w) PROVE HandOver'
  BY <1>0, <1>7 DEF TypeOK, TransactionsAreLive, ReportsAreYoung, HandOver,
     Direct, Goto, StoredFresh, Abandons, Computing, Following, Steps, Lapses,
     Busy, Locked, Active, store, scan
<1>8. ASSUME NEW w \in Workers, Queue(w) PROVE HandOver'
  BY <1>0, <1>8, Pinned DEF TypeOK, TransactionsAreLive, ReportsAreYoung,
     HandOver, Queue, Goto, StoredFresh, Abandons, Computing, Following,
     Steps, Lapses, Busy, Locked, Active, store, scan
<1>9. ASSUME NEW w \in Workers, Granted(w) PROVE HandOver'
  BY <1>0, <1>9 DEF TypeOK, TransactionsAreLive, ReportsAreYoung, HandOver,
     Granted, Release, Goto, StoredFresh, Abandons, Computing, Following,
     Steps, Lapses, Busy, Locked, Active, store, scan
<1>10. ASSUME NEW w \in Workers, Peek(w) PROVE HandOver'
  BY <1>0, <1>10 DEF TypeOK, TransactionsAreLive, ReportsAreYoung,
     HandOver, Peek, Return, Goto, Servable, StoredFresh, Abandons, Computing,
     Following, Steps, Lapses, Busy, Locked, Active, store, scan
<1>11. ASSUME NEW w \in Workers, FollowFails(w) PROVE HandOver'
  BY <1>0, <1>11 DEF TypeOK, TransactionsAreLive, ReportsAreYoung,
     HandOver, FollowFails, Release, Return, Goto, StoredFresh, Abandons,
     Computing, Following, Steps, Lapses, Busy, Locked, Active, store, scan
<1>12. ASSUME NEW w \in Workers, Join(w) PROVE HandOver'
  BY <1>0, <1>12 DEF TypeOK, TransactionsAreLive, ReportsAreYoung,
     HandOver, Join, Goto, StoredFresh, Abandons, Computing, Following, Steps,
     Lapses, Busy, Locked, Active, store, scan
<1>13. ASSUME NEW w \in Workers, Fly(w) PROVE HandOver'
  BY <1>0, <1>13 DEF TypeOK, TransactionsAreLive, ReportsAreYoung,
     HandOver, Fly, FanOut, Goto, StoredFresh, Abandons, Computing, Following,
     Steps, Lapses, Busy, Locked, Active, store, scan
<1>14. ASSUME NEW w \in Workers, Collected(w) PROVE HandOver'
  BY <1>0, <1>14 DEF TypeOK, TransactionsAreLive, ReportsAreYoung,
     HandOver, Collected, Return, Goto, Bypasses, StoredFresh, Abandons,
     Computing, Following, Steps, Lapses, Busy, Locked, Active, store, scan
<1>15. ASSUME NEW w \in Workers, Upsert(w) PROVE HandOver'
  BY <1>0, <1>15 DEF TypeOK, TransactionsAreLive, ReportsAreYoung,
     HandOver, Upsert, Landed, Sharing, StoredFresh, Abandons, Computing,
     Following, Steps, Lapses, Busy, Locked, Active, store, scan
<1>16. ASSUME NEW w \in Workers, UpsertFails(w) PROVE HandOver'
  BY <1>0, <1>16 DEF TypeOK, TransactionsAreLive, ReportsAreYoung,
     HandOver, UpsertFails, Landed, Sharing, StoredFresh, Abandons, Computing,
     Following, Steps, Lapses, Busy, Locked, Active, store, scan
<1>17. ASSUME NEW w \in Workers, Commit(w) PROVE HandOver'
  BY <1>0, <1>17 DEF TypeOK, TransactionsAreLive, ReportsAreYoung,
     HandOver, Commit, Release, Return, Goto, StoredFresh, Abandons,
     Computing, Following, Steps, Lapses, Busy, Locked, Active, store, scan
<1>18. ASSUME NEW w \in Workers, Deadline(w) PROVE HandOver'
  BY <1>0, <1>18 DEF TypeOK, TransactionsAreLive, ReportsAreYoung,
     HandOver, Deadline, RolledBack, Release, StoredFresh, Abandons,
     Computing, Following, Steps, Lapses, Busy, Locked, Active, store, scan
<1>19. ASSUME NEW r \in Replicas, Crash(r) PROVE HandOver'
  BY <1>0, <1>19 DEF TypeOK, TransactionsAreLive, ReportsAreYoung,
     HandOver, Crash, StoredFresh, Abandons, Computing, Following, Steps,
     Lapses, Busy, Locked, Active, store, scan
<1>20. ASSUME NEW k \in Keys, Age(k) PROVE HandOver'
  BY <1>0, <1>20 DEF TypeOK, TransactionsAreLive, ReportsAreYoung,
     HandOver, Age, StoredFresh, Abandons, Computing, Following, Steps,
     Lapses, Busy, Locked, Active, store, scan
<1> QED BY <1>1, <1>2, <1>3, <1>4, <1>5, <1>6, <1>7, <1>8, <1>9, <1>10,
    <1>11, <1>12, <1>13, <1>14, <1>15, <1>16, <1>17, <1>18, <1>19, <1>20 DEF
    Next, Step

\* Every step keeps the leader the latest.
LEMMA LatestStep ==
    ASSUME ScanInv, Next
    PROVE  LeaderIsLatest'
<1>0. TypeOK /\ LocksExclude /\ TransactionsAreLive /\ ReportsAreYoung /\ LeaderIsLatest
  BY DEF ScanInv
<1>1. ASSUME NEW w \in Workers, Start(w) PROVE LeaderIsLatest'
  BY <1>0, <1>1 DEF TypeOK, LocksExclude, TransactionsAreLive,
     ReportsAreYoung, LeaderIsLatest, Start, FanOut, Goto, Bypasses, Abandons,
     Computing, Following, Lapses, store, scan
<1>2. ASSUME NEW w \in Workers, Hit(w) PROVE LeaderIsLatest'
  BY <1>0, <1>2 DEF TypeOK, LocksExclude, TransactionsAreLive,
     ReportsAreYoung, LeaderIsLatest, Hit, Return, Goto, Servable, Fresh,
     Abandons, Computing, Following, Lapses, Bypasses, store, scan
<1>3. ASSUME NEW w \in Workers, StaleHit(w) PROVE LeaderIsLatest'
  BY <1>0, <1>3 DEF TypeOK, LocksExclude, TransactionsAreLive,
     ReportsAreYoung, LeaderIsLatest, StaleHit, Servable, Abandons, Computing,
     Following, Lapses, Bypasses, store, scan
<1>4. ASSUME NEW w \in Workers, Miss(w) PROVE LeaderIsLatest'
  BY <1>0, <1>4 DEF TypeOK, LocksExclude, TransactionsAreLive,
     ReportsAreYoung, LeaderIsLatest, Miss, Goto, Abandons, Computing,
     Following, Lapses, Bypasses, store, scan
<1>5. ASSUME NEW w \in Workers, Lead(w) PROVE LeaderIsLatest'
  BY <1>0, <1>5, Pinned DEF TypeOK, LocksExclude, TransactionsAreLive,
     ReportsAreYoung, LeaderIsLatest, Lead, Goto, Abandons, Computing,
     Following, Lapses, Bypasses, store, scan
<1>6. ASSUME NEW w \in Workers, Yield(w) PROVE LeaderIsLatest'
  BY <1>0, <1>6 DEF TypeOK, LocksExclude, TransactionsAreLive,
     ReportsAreYoung, LeaderIsLatest, Yield, Goto, Abandons, Computing,
     Following, Lapses, Bypasses, store, scan
<1>7. ASSUME NEW w \in Workers, Direct(w) PROVE LeaderIsLatest'
  BY <1>0, <1>7 DEF TypeOK, LocksExclude, TransactionsAreLive,
     ReportsAreYoung, LeaderIsLatest, Direct, Goto, Abandons, Computing,
     Following, Lapses, Bypasses, store, scan
<1>8. ASSUME NEW w \in Workers, Queue(w) PROVE LeaderIsLatest'
  BY <1>0, <1>8, Pinned DEF TypeOK, LocksExclude, TransactionsAreLive,
     ReportsAreYoung, LeaderIsLatest, Queue, Goto, Abandons, Computing,
     Following, Lapses, Bypasses, store, scan
<1>9. ASSUME NEW w \in Workers, Granted(w) PROVE LeaderIsLatest'
  BY <1>0, <1>9 DEF TypeOK, LocksExclude, TransactionsAreLive,
     ReportsAreYoung, LeaderIsLatest, Granted, Release, Goto, Abandons,
     Computing, Following, Lapses, Bypasses, store, scan
<1>10. ASSUME NEW w \in Workers, Peek(w) PROVE LeaderIsLatest'
  BY <1>0, <1>10 DEF TypeOK, LocksExclude, TransactionsAreLive,
     ReportsAreYoung, LeaderIsLatest, Peek, Return, Goto, Servable, Abandons,
     Computing, Following, Lapses, Bypasses, store, scan
<1>11. ASSUME NEW w \in Workers, FollowFails(w) PROVE LeaderIsLatest'
  BY <1>0, <1>11 DEF TypeOK, LocksExclude, TransactionsAreLive,
     ReportsAreYoung, LeaderIsLatest, FollowFails, Release, Return, Goto,
     Abandons, Computing, Following, Lapses, Bypasses, store, scan
<1>12. ASSUME NEW w \in Workers, Join(w) PROVE LeaderIsLatest'
  BY <1>0, <1>12 DEF TypeOK, LocksExclude, TransactionsAreLive,
     ReportsAreYoung, LeaderIsLatest, Join, Goto, Abandons, Computing,
     Following, Lapses, Bypasses, store, scan
<1>13. ASSUME NEW w \in Workers, Fly(w) PROVE LeaderIsLatest'
  BY <1>0, <1>13 DEF TypeOK, LocksExclude, TransactionsAreLive,
     ReportsAreYoung, LeaderIsLatest, Fly, FanOut, Goto, Abandons, Computing,
     Following, Lapses, Bypasses, store, scan
<1>14. ASSUME NEW w \in Workers, Collected(w) PROVE LeaderIsLatest'
  BY <1>0, <1>14 DEF TypeOK, LocksExclude, TransactionsAreLive,
     ReportsAreYoung, LeaderIsLatest, Collected, Return, Goto, Bypasses,
     Abandons, Computing, Following, Lapses, store, scan
<1>15. ASSUME NEW w \in Workers, Upsert(w) PROVE LeaderIsLatest'
  BY <1>0, <1>15 DEF TypeOK, LocksExclude, TransactionsAreLive,
     ReportsAreYoung, LeaderIsLatest, Upsert, Landed, Sharing, Abandons,
     Computing, Following, Lapses, Bypasses, store, scan
<1>16. ASSUME NEW w \in Workers, UpsertFails(w) PROVE LeaderIsLatest'
  BY <1>0, <1>16 DEF TypeOK, LocksExclude, TransactionsAreLive,
     ReportsAreYoung, LeaderIsLatest, UpsertFails, Landed, Sharing, Abandons,
     Computing, Following, Lapses, Bypasses, store, scan
<1>17. ASSUME NEW w \in Workers, Commit(w) PROVE LeaderIsLatest'
  BY <1>0, <1>17 DEF TypeOK, LocksExclude, TransactionsAreLive,
     ReportsAreYoung, LeaderIsLatest, Commit, Release, Return, Goto, Abandons,
     Computing, Following, Lapses, Bypasses, store, scan
<1>18. ASSUME NEW w \in Workers, Deadline(w) PROVE LeaderIsLatest'
  BY <1>0, <1>18 DEF TypeOK, LocksExclude, TransactionsAreLive,
     ReportsAreYoung, LeaderIsLatest, Deadline, RolledBack, Release, Abandons,
     Computing, Following, Lapses, Bypasses, store, scan
<1>19. ASSUME NEW r \in Replicas, Crash(r) PROVE LeaderIsLatest'
  BY <1>0, <1>19 DEF TypeOK, LocksExclude, TransactionsAreLive,
     ReportsAreYoung, LeaderIsLatest, Crash, Abandons, Computing, Following,
     Lapses, Bypasses, store, scan
<1>20. ASSUME NEW k \in Keys, Age(k) PROVE LeaderIsLatest'
  BY <1>0, <1>20 DEF TypeOK, LocksExclude, TransactionsAreLive,
     ReportsAreYoung, LeaderIsLatest, Age, Abandons, Computing, Following,
     Lapses, Bypasses, store, scan
<1> QED BY <1>1, <1>2, <1>3, <1>4, <1>5, <1>6, <1>7, <1>8, <1>9, <1>10,
    <1>11, <1>12, <1>13, <1>14, <1>15, <1>16, <1>17, <1>18, <1>19, <1>20 DEF
    Next, Step

\* Every step keeps ScanInv.
LEMMA InvStep ==
    ASSUME ScanInv, [Next]_vars
    PROVE  ScanInv'
<1>1. CASE Next
  BY <1>1, TypeStep, LocksStep, LiveStep, YoungStep, HandOverStep, LatestStep DEF ScanInv
<1>2. CASE UNCHANGED vars
  BY <1>2 DEF ScanInv, TypeOK, LocksExclude, TransactionsAreLive, ReportsAreYoung,
     HandOver, LeaderIsLatest, StoredFresh, Abandons, Active, Bypasses, vars, store, scan
<1> QED BY <1>1, <1>2

\* Initially ScanInv holds.
LEMMA InvInit == Init => ScanInv
BY ScanAssumption DEF Init, ScanInv, TypeOK, LocksExclude, TransactionsAreLive,
   ReportsAreYoung, HandOver, LeaderIsLatest, StoredFresh, Abandons, Active, Bypasses,
   Steps, Computing, Following, Lapses, Superseded

\* ScanInv is an invariant: the locks of the flight exclude, every transaction
\* is where the code holds one, and until the lock is lost, what followers
\* will read is fresh and what leaders will store is the latest.
THEOREM ScanInvariant == Spec => []ScanInv
<1>1. Init => ScanInv
  BY InvInit
<1>2. ScanInv /\ [Next]_vars => ScanInv'
  BY InvStep
<1> QED BY <1>1, <1>2, PTL DEF Spec

\* Every step keeps answers current.
LEMMA AnswerStep ==
    ASSUME ScanInv, AnswersAreCurrent, Next
    PROVE  AnswersAreCurrent'
<1>0. TypeOK /\ ReportsAreYoung /\ HandOver
  BY DEF ScanInv
<1>1. ASSUME NEW w \in Workers, Start(w) PROVE AnswersAreCurrent'
  BY <1>0, <1>1 DEF TypeOK, ReportsAreYoung, HandOver, AnswersAreCurrent,
     Start, FanOut, Goto, Bypasses, StoredFresh, Active, Superseded, store,
     scan
<1>2. ASSUME NEW w \in Workers, Hit(w) PROVE AnswersAreCurrent'
  BY <1>0, <1>2 DEF TypeOK, ReportsAreYoung, HandOver, AnswersAreCurrent,
     Hit, Return, Goto, Servable, Fresh, StoredFresh, Bypasses, Active,
     Superseded, store, scan
<1>3. ASSUME NEW w \in Workers, StaleHit(w) PROVE AnswersAreCurrent'
  BY <1>0, <1>3 DEF TypeOK, ReportsAreYoung, HandOver, AnswersAreCurrent,
     StaleHit, Servable, StoredFresh, Bypasses, Active, Superseded, store,
     scan
<1>4. ASSUME NEW w \in Workers, Miss(w) PROVE AnswersAreCurrent'
  BY <1>0, <1>4 DEF TypeOK, ReportsAreYoung, HandOver, AnswersAreCurrent,
     Miss, Goto, StoredFresh, Bypasses, Active, Superseded, store, scan
<1>5. ASSUME NEW w \in Workers, Lead(w) PROVE AnswersAreCurrent'
  BY <1>0, <1>5, Pinned DEF TypeOK, ReportsAreYoung, HandOver,
     AnswersAreCurrent, Lead, Goto, StoredFresh, Bypasses, Active, Superseded,
     store, scan
<1>6. ASSUME NEW w \in Workers, Yield(w) PROVE AnswersAreCurrent'
  BY <1>0, <1>6 DEF TypeOK, ReportsAreYoung, HandOver, AnswersAreCurrent,
     Yield, Goto, StoredFresh, Bypasses, Active, Superseded, store, scan
<1>7. ASSUME NEW w \in Workers, Direct(w) PROVE AnswersAreCurrent'
  BY <1>0, <1>7 DEF TypeOK, ReportsAreYoung, HandOver, AnswersAreCurrent,
     Direct, Goto, StoredFresh, Bypasses, Active, Superseded, store, scan
<1>8. ASSUME NEW w \in Workers, Queue(w) PROVE AnswersAreCurrent'
  BY <1>0, <1>8, Pinned DEF TypeOK, ReportsAreYoung, HandOver,
     AnswersAreCurrent, Queue, Goto, StoredFresh, Bypasses, Active,
     Superseded, store, scan
<1>9. ASSUME NEW w \in Workers, Granted(w) PROVE AnswersAreCurrent'
  BY <1>0, <1>9 DEF TypeOK, ReportsAreYoung, HandOver, AnswersAreCurrent,
     Granted, Release, Goto, StoredFresh, Bypasses, Active, Superseded, store,
     scan
<1>10. ASSUME NEW w \in Workers, Peek(w) PROVE AnswersAreCurrent'
  BY <1>0, <1>10 DEF TypeOK, ReportsAreYoung, HandOver, AnswersAreCurrent,
     Peek, Return, Goto, Servable, StoredFresh, Bypasses, Active, Superseded,
     store, scan
<1>11. ASSUME NEW w \in Workers, FollowFails(w) PROVE AnswersAreCurrent'
  BY <1>0, <1>11 DEF TypeOK, ReportsAreYoung, HandOver, AnswersAreCurrent,
     FollowFails, Release, Return, Goto, StoredFresh, Bypasses, Active,
     Superseded, store, scan
<1>12. ASSUME NEW w \in Workers, Join(w) PROVE AnswersAreCurrent'
  BY <1>0, <1>12 DEF TypeOK, ReportsAreYoung, HandOver, AnswersAreCurrent,
     Join, Goto, StoredFresh, Bypasses, Active, Superseded, store, scan
<1>13. ASSUME NEW w \in Workers, Fly(w) PROVE AnswersAreCurrent'
  BY <1>0, <1>13 DEF TypeOK, ReportsAreYoung, HandOver, AnswersAreCurrent,
     Fly, FanOut, Goto, StoredFresh, Bypasses, Active, Superseded, store, scan
<1>14. ASSUME NEW w \in Workers, Collected(w) PROVE AnswersAreCurrent'
  BY <1>0, <1>14 DEF TypeOK, ReportsAreYoung, HandOver, AnswersAreCurrent,
     Collected, Return, Goto, Bypasses, StoredFresh, Active, Superseded,
     store, scan
<1>15. ASSUME NEW w \in Workers, Upsert(w) PROVE AnswersAreCurrent'
  BY <1>0, <1>15 DEF TypeOK, ReportsAreYoung, HandOver, AnswersAreCurrent,
     Upsert, Landed, Sharing, StoredFresh, Bypasses, Active, Superseded,
     store, scan
<1>16. ASSUME NEW w \in Workers, UpsertFails(w) PROVE AnswersAreCurrent'
  BY <1>0, <1>16 DEF TypeOK, ReportsAreYoung, HandOver, AnswersAreCurrent,
     UpsertFails, Landed, Sharing, StoredFresh, Bypasses, Active, Superseded,
     store, scan
<1>17. ASSUME NEW w \in Workers, Commit(w) PROVE AnswersAreCurrent'
  BY <1>0, <1>17 DEF TypeOK, ReportsAreYoung, HandOver, AnswersAreCurrent,
     Commit, Release, Return, Goto, StoredFresh, Bypasses, Active, Superseded,
     store, scan
<1>18. ASSUME NEW w \in Workers, Deadline(w) PROVE AnswersAreCurrent'
  BY <1>0, <1>18 DEF TypeOK, ReportsAreYoung, HandOver, AnswersAreCurrent,
     Deadline, RolledBack, Release, StoredFresh, Bypasses, Active, Superseded,
     store, scan
<1>19. ASSUME NEW r \in Replicas, Crash(r) PROVE AnswersAreCurrent'
  BY <1>0, <1>19 DEF TypeOK, ReportsAreYoung, HandOver, AnswersAreCurrent,
     Crash, StoredFresh, Bypasses, Active, Superseded, store, scan
<1>20. ASSUME NEW k \in Keys, Age(k) PROVE AnswersAreCurrent'
  BY <1>0, <1>20 DEF TypeOK, ReportsAreYoung, HandOver, AnswersAreCurrent,
     Age, StoredFresh, Bypasses, Active, Superseded, store, scan
<1> QED BY <1>1, <1>2, <1>3, <1>4, <1>5, <1>6, <1>7, <1>8, <1>9, <1>10,
    <1>11, <1>12, <1>13, <1>14, <1>15, <1>16, <1>17, <1>18, <1>19, <1>20 DEF
    Next, Step

\* No scan is answered from a superseded matcher, and none is answered with a
\* stale report it did not allow unless a lock went back with nothing stored.
THEOREM AnswersStayCurrent == Spec => []AnswersAreCurrent
<1>1. Init => AnswersAreCurrent
  BY DEF Init, AnswersAreCurrent
<1>2. ScanInv /\ AnswersAreCurrent /\ [Next]_vars => AnswersAreCurrent'
  <2>1. ASSUME AnswersAreCurrent, UNCHANGED vars PROVE AnswersAreCurrent'
    BY <2>1 DEF AnswersAreCurrent, vars, scan, store
  <2> QED BY <2>1, AnswerStep
<1> QED BY <1>1, <1>2, ScanInvariant, PTL DEF Spec

\* Every step keeps uploads private.
LEMMA PrivateStep ==
    ASSUME ScanInv, UploadsStayPrivate, Next
    PROVE  UploadsStayPrivate'
<1>0. TypeOK /\ ReportsAreYoung
  BY DEF ScanInv
<1>1. ASSUME NEW w \in Workers, Start(w) PROVE UploadsStayPrivate'
  BY <1>0, <1>1 DEF TypeOK, ReportsAreYoung, UploadsStayPrivate, Start,
     FanOut, Goto, Bypasses, store, scan
<1>2. ASSUME NEW w \in Workers, Hit(w) PROVE UploadsStayPrivate'
  BY <1>0, <1>2 DEF TypeOK, ReportsAreYoung, UploadsStayPrivate, Hit,
     Return, Goto, Servable, Fresh, Bypasses, store, scan
<1>3. ASSUME NEW w \in Workers, StaleHit(w) PROVE UploadsStayPrivate'
  BY <1>0, <1>3 DEF TypeOK, ReportsAreYoung, UploadsStayPrivate, StaleHit,
     Servable, Bypasses, store, scan
<1>4. ASSUME NEW w \in Workers, Miss(w) PROVE UploadsStayPrivate'
  BY <1>0, <1>4 DEF TypeOK, ReportsAreYoung, UploadsStayPrivate, Miss,
     Goto, Bypasses, store, scan
<1>5. ASSUME NEW w \in Workers, Lead(w) PROVE UploadsStayPrivate'
  BY <1>0, <1>5, Pinned DEF TypeOK, ReportsAreYoung, UploadsStayPrivate,
     Lead, Goto, Bypasses, store, scan
<1>6. ASSUME NEW w \in Workers, Yield(w) PROVE UploadsStayPrivate'
  BY <1>0, <1>6 DEF TypeOK, ReportsAreYoung, UploadsStayPrivate, Yield,
     Goto, Bypasses, store, scan
<1>7. ASSUME NEW w \in Workers, Direct(w) PROVE UploadsStayPrivate'
  BY <1>0, <1>7 DEF TypeOK, ReportsAreYoung, UploadsStayPrivate, Direct,
     Goto, Bypasses, store, scan
<1>8. ASSUME NEW w \in Workers, Queue(w) PROVE UploadsStayPrivate'
  BY <1>0, <1>8, Pinned DEF TypeOK, ReportsAreYoung, UploadsStayPrivate,
     Queue, Goto, Bypasses, store, scan
<1>9. ASSUME NEW w \in Workers, Granted(w) PROVE UploadsStayPrivate'
  BY <1>0, <1>9 DEF TypeOK, ReportsAreYoung, UploadsStayPrivate, Granted,
     Release, Goto, Bypasses, store, scan
<1>10. ASSUME NEW w \in Workers, Peek(w) PROVE UploadsStayPrivate'
  BY <1>0, <1>10 DEF TypeOK, ReportsAreYoung, UploadsStayPrivate, Peek,
     Return, Goto, Servable, Bypasses, store, scan
<1>11. ASSUME NEW w \in Workers, FollowFails(w) PROVE UploadsStayPrivate'
  BY <1>0, <1>11 DEF TypeOK, ReportsAreYoung, UploadsStayPrivate,
     FollowFails, Release, Return, Goto, Bypasses, store, scan
<1>12. ASSUME NEW w \in Workers, Join(w) PROVE UploadsStayPrivate'
  BY <1>0, <1>12 DEF TypeOK, ReportsAreYoung, UploadsStayPrivate, Join,
     Goto, Bypasses, store, scan
<1>13. ASSUME NEW w \in Workers, Fly(w) PROVE UploadsStayPrivate'
  BY <1>0, <1>13 DEF TypeOK, ReportsAreYoung, UploadsStayPrivate, Fly,
     FanOut, Goto, Bypasses, store, scan
<1>14. ASSUME NEW w \in Workers, Collected(w) PROVE UploadsStayPrivate'
  BY <1>0, <1>14 DEF TypeOK, ReportsAreYoung, UploadsStayPrivate,
     Collected, Return, Goto, Bypasses, store, scan
<1>15. ASSUME NEW w \in Workers, Upsert(w) PROVE UploadsStayPrivate'
  BY <1>0, <1>15 DEF TypeOK, ReportsAreYoung, UploadsStayPrivate, Upsert,
     Landed, Sharing, Bypasses, store, scan
<1>16. ASSUME NEW w \in Workers, UpsertFails(w) PROVE UploadsStayPrivate'
  BY <1>0, <1>16 DEF TypeOK, ReportsAreYoung, UploadsStayPrivate,
     UpsertFails, Landed, Sharing, Bypasses, store, scan
<1>17. ASSUME NEW w \in Workers, Commit(w) PROVE UploadsStayPrivate'
  BY <1>0, <1>17 DEF TypeOK, ReportsAreYoung, UploadsStayPrivate, Commit,
     Release, Return, Goto, Bypasses, store, scan
<1>18. ASSUME NEW w \in Workers, Deadline(w) PROVE UploadsStayPrivate'
  BY <1>0, <1>18 DEF TypeOK, ReportsAreYoung, UploadsStayPrivate, Deadline,
     RolledBack, Release, Bypasses, store, scan
<1>19. ASSUME NEW r \in Replicas, Crash(r) PROVE UploadsStayPrivate'
  BY <1>0, <1>19 DEF TypeOK, ReportsAreYoung, UploadsStayPrivate, Crash,
     Bypasses, store, scan
<1>20. ASSUME NEW k \in Keys, Age(k) PROVE UploadsStayPrivate'
  BY <1>0, <1>20 DEF TypeOK, ReportsAreYoung, UploadsStayPrivate, Age,
     Bypasses, store, scan
<1> QED BY <1>1, <1>2, <1>3, <1>4, <1>5, <1>6, <1>7, <1>8, <1>9, <1>10,
    <1>11, <1>12, <1>13, <1>14, <1>15, <1>16, <1>17, <1>18, <1>19, <1>20 DEF
    Next, Step

\* The report of an upload is never stored and never answers another scan.
THEOREM UploadsArePrivate == Spec => []UploadsStayPrivate
<1>1. Init => UploadsStayPrivate
  BY DEF Init, UploadsStayPrivate
<1>2. ScanInv /\ UploadsStayPrivate /\ [Next]_vars => UploadsStayPrivate'
  <2>1. ASSUME UploadsStayPrivate, UNCHANGED vars PROVE UploadsStayPrivate'
    BY <2>1 DEF UploadsStayPrivate, vars, scan, store
  <2> QED BY <2>1, PrivateStep
<1> QED BY <1>1, <1>2, ScanInvariant, PTL DEF Spec

\* A stored report is replaced by an older one only once a fan-out ran outside
\* the lock: with the lock, reports are stored in the order of their fan-outs.
THEOREM RowsMoveForward == Spec => RowsGoForward
<1> DEFINE Forward == \A k \in Keys : row[k] \in Nat /\ row'[k] < row[k] =>
                        "unlocked" \in lapses[k]
<1>1. ASSUME ScanInv, [Next]_vars PROVE [Forward]_vars
  <2>0. TypeOK /\ ReportsAreYoung /\ LeaderIsLatest
    BY <1>1 DEF ScanInv
  <2>1. ASSUME NEW w \in Workers, Upsert(w) PROVE Forward
    BY <2>0, <2>1 DEF TypeOK, ReportsAreYoung, LeaderIsLatest, Upsert, Computing, Bypasses
  <2>2. CASE row' = row
    BY <2>0, <2>2 DEF TypeOK
  <2>3. CASE UNCHANGED vars
    BY <2>3
  <2>4. Next => row' = row \/ \E w \in Workers : Upsert(w)
    BY DEF Next, Step, Start, Hit, StaleHit, Miss, Lead, Yield, Direct, Queue, Granted,
       Peek, FollowFails, Join, Fly, Collected, UpsertFails, Commit, Deadline, Crash,
       Age, store
  <2> QED BY <1>1, <2>1, <2>2, <2>3, <2>4
<1>2. (ScanInv /\ [Next]_vars) => [Forward]_vars
  BY <1>1
<1> QED BY <1>2, ScanInvariant, PTL DEF Spec, RowsGoForward

=============================================================================
