------------------------------ MODULE ScanFlight ------------------------------
(***************************************************************************)
(* Scans of package versions by the replicas of one deployment.            *)
(*                                                                         *)
(* intelligence.DefaultService.Scan answers from the stored report when it *)
(* is fresh and otherwise computes one.  xreplicaflight.PGFlight elects one*)
(* scan per key to compute: the leader holds a Postgres advisory lock in a *)
(* transaction, and so a connection of its replica's pool, for the whole   *)
(* fan-out; followers wait for the lock and read what the leader stored.   *)
(* Storing needs a second connection of the same pool.  Every scan has a   *)
(* deadline, at which database/sql rolls its transaction back under it.    *)
(*                                                                         *)
(* A report is the number of the fan-out that collected it, so a larger    *)
(* number is a later report of its key.  Superseded is the number of every *)
(* report an earlier matcher made; reports up to stale[k] are older than   *)
(* the staleness window.  A worker runs one scan.                          *)
(***************************************************************************)
EXTENDS Naturals

CONSTANTS
    Workers,    \* scans
    Replicas,   \* processes sharing the database
    Home,       \* Home[w]: the replica a scan runs on
    Keys,       \* package versions
    Conns,      \* database connections
    Pool,       \* Pool[r]: those a replica may open
    Mixes,      \* the options the scans may come with, each a function
                \* to "strict", "allowStale" and "ephemeral"
    Flights,    \* which of "pg" and "noop" may be configured
    Failing,    \* replicas whose statements the database may fail
    Crashing,   \* replicas that may crash
    None        \* no report, no connection

ASSUME ScanAssumption ==
    /\ Home \in [Workers -> Replicas]
    /\ Pool \in [Replicas -> SUBSET Conns]
    /\ None \notin Nat
    /\ None \notin Conns
    /\ Mixes \subseteq [Workers -> {"strict", "allowStale", "ephemeral"}]
    /\ Flights \subseteq {"pg", "noop"}
    /\ Failing \cup Crashing \subseteq Replicas

VARIABLES
    flight,   \* the Flight installed by SetFlight
    row,      \* row[k]: the stored report, None when there is none
    started,  \* started[k]: number of the latest fan-out
    stale,    \* stale[k]: the latest report older than the staleness window
    pc,       \* pc[w]: its next step
    key,      \* key[w]: what it scans
    mode,     \* mode[w]: its options
    expired,  \* expired[w]: scanCtx is over
    tx,       \* tx[w]: what its flight transaction does with the lock
    conn,     \* conn[w]: the connection that transaction pins
    report,   \* report[w]: the report it collects or joins
    answer,   \* answer[w]: the report returned, None for none or an error
    since,    \* history: stale[key[w]] when the scan came in
    lapses    \* history, lapses[k]: "unstored" once the lock of k went back
              \* before a report was stored, "unlocked" once a fan-out of k
              \* ran without the lock

store == <<row, started, stale>>
scan == <<pc, key, mode, expired, tx, conn, report, answer, since>>
vars == <<flight, store, scan, lapses>>

Superseded == 0

Steps == {"idle", "lookup", "begin", "follow", "await", "peek",
          "fn", "join", "fanout", "upsert", "commit", "done"}
Computing == {"fn", "join", "fanout", "upsert"}
Following == {"follow", "await", "peek"}
Lapses == {"unstored", "unlocked"}

Active(w) == pc[w] \notin {"idle", "done"}

TypeOK ==
    /\ flight \in {"pg", "noop"}
    /\ row \in [Keys -> Nat \cup {None}]
    /\ started \in [Keys -> Nat]
    /\ stale \in [Keys -> Nat]
    /\ pc \in [Workers -> Steps]
    /\ key \in [Workers -> Keys]
    /\ mode \in [Workers -> {"strict", "allowStale", "ephemeral", "refresh"}]
    /\ expired \in [Workers -> BOOLEAN]
    /\ tx \in [Workers -> {"none", "lock", "queue"}]
    /\ conn \in [Workers -> Conns \cup {None}]
    /\ report \in [Workers -> Nat \cup {None}]
    /\ answer \in [Workers -> Nat \cup {None}]
    /\ since \in [Workers -> Nat]
    /\ lapses \in [Keys -> SUBSET Lapses]

\* Fan-out 1 stands for what the current matcher stored before.
Init ==
    /\ flight \in Flights
    /\ row \in [Keys -> {None, Superseded, 1}]
    /\ started = [k \in Keys |-> 1]
    /\ stale \in [Keys -> {0, 1}]
    /\ \A k \in Keys : stale[k] = 1 => row[k] = 1
    /\ pc = [w \in Workers |-> "idle"]
    /\ key \in [Workers -> Keys]
    /\ mode \in Mixes
    /\ expired = [w \in Workers |-> FALSE]
    /\ tx = [w \in Workers |-> "none"]
    /\ conn = [w \in Workers |-> None]
    /\ report = [w \in Workers |-> None]
    /\ answer = [w \in Workers |-> None]
    /\ since = [w \in Workers |-> 0]
    /\ lapses = [k \in Keys |-> {}]

-----------------------------------------------------------------------------
(* The pool of a replica and the advisory locks (external). *)

Free(r) == Pool[r] \ {conn[w] : w \in {x \in Workers : Home[x] = r}}

\* A statement outside a transaction reaches the database.
CanQuery(w) == ~expired[w] /\ Free(Home[w]) # {}

\* ... or the driver reports an error.
CanFail(w) == expired[w] \/ Home[w] \in Failing

\* A transaction begins: it keeps one of the free connections.
Pin(w) ==
    /\ Free(Home[w]) # {}
    /\ conn' = [conn EXCEPT ![w] = CHOOSE c \in Free(Home[w]) : TRUE]

Locked(k) == \E w \in Workers : key[w] = k /\ tx[w] = "lock"

\* A fault: the try lock looks at nothing.
NeverBusy(k) == FALSE

\* pg_try_advisory_xact_lock fails behind the holder and behind its queue.
Busy(k) == \E w \in Workers : key[w] = k /\ tx[w] # "none"

\* The lock goes back before what was computed under it is stored.
Abandons(w) == tx[w] = "lock" /\ pc[w] \in Computing

Goto(w, step) == pc' = [pc EXCEPT ![w] = step]

\* The scan returns to its caller; scanCtx goes with it.
Return(w) ==
    /\ Goto(w, "done")
    /\ expired' = [expired EXCEPT ![w] = FALSE]

-----------------------------------------------------------------------------
(* scanFederated *)

\* A fault: only the absence of a row is checked.
AnyRow(n) == n # None

\* MatcherSupersededForRecompute is false.
Servable(n) == n # None /\ n # Superseded

\* age < freshFor(maxStale); refreshAsync asks for a window nothing fits.
Fresh(w) == mode[w] # "refresh" /\ row[key[w]] > stale[key[w]]

\* A fault: uploads go the way of every other scan.
UploadsAreShared(w) == FALSE

\* An upload's scan neither reads nor writes what others share.
Bypasses(w) == mode[w] = "ephemeral"

\* runFanout begins: it stamps the report with the time.
FanOut(w) ==
    /\ started' = [started EXCEPT ![key[w]] = @ + 1]
    /\ report' = [report EXCEPT ![w] = started[key[w]] + 1]

Start(w) ==
    /\ pc[w] = "idle"
    /\ since' = [since EXCEPT ![w] = stale[key[w]]]
    /\ IF Bypasses(w)
       THEN Goto(w, "fanout") /\ FanOut(w)
       ELSE Goto(w, "lookup") /\ UNCHANGED <<started, report>>
    /\ UNCHANGED <<flight, row, stale, key, mode, expired, tx, conn, answer, lapses>>

\* The cache-first read finds a report it may serve ...
Hit(w) ==
    /\ pc[w] = "lookup" /\ CanQuery(w)
    /\ Servable(row[key[w]]) /\ Fresh(w)
    /\ answer' = [answer EXCEPT ![w] = row[key[w]]]
    /\ Return(w)
    /\ UNCHANGED <<flight, store, key, mode, tx, conn, report, since, lapses>>

\* ... or an old one that will do, and goes on as refreshAsync ...
StaleHit(w) ==
    /\ pc[w] = "lookup" /\ CanQuery(w)
    /\ Servable(row[key[w]]) /\ ~Fresh(w) /\ mode[w] = "allowStale"
    /\ answer' = [answer EXCEPT ![w] = row[key[w]]]
    /\ mode' = [mode EXCEPT ![w] = "refresh"]
    /\ UNCHANGED <<flight, store, pc, key, expired, tx, conn, report, since, lapses>>

\* ... or none, or fails.
Miss(w) ==
    /\ pc[w] = "lookup"
    /\ \/ /\ CanQuery(w)
          /\ ~(Servable(row[key[w]]) /\ (Fresh(w) \/ mode[w] = "allowStale"))
       \/ CanFail(w)
    /\ Goto(w, "begin")
    /\ UNCHANGED <<flight, store, key, mode, expired, tx, conn, report, answer, since, lapses>>

-----------------------------------------------------------------------------
(* PGFlight.Do *)

\* The lock is free: the scan leads, and its transaction keeps a connection.
Lead(w) ==
    /\ pc[w] = "begin" /\ flight = "pg" /\ ~expired[w] /\ ~Busy(key[w])
    /\ Pin(w)
    /\ tx' = [tx EXCEPT ![w] = "lock"]
    /\ Goto(w, "fn")
    /\ UNCHANGED <<flight, store, key, mode, expired, report, answer, since, lapses>>

\* A fault: a scan that does not get the lock computes all the same.
RunsAnyway(w) ==
    /\ pc[w] = "begin" /\ flight = "pg" /\ CanQuery(w) /\ Busy(key[w])
    /\ Goto(w, "fn")
    /\ UNCHANGED <<flight, store, key, mode, expired, tx, conn, report, answer, since, lapses>>

\* It is not: the transaction is rolled back and the scan follows.
Yield(w) ==
    /\ pc[w] = "begin" /\ flight = "pg" /\ CanQuery(w) /\ Busy(key[w])
    /\ Goto(w, "follow")
    /\ UNCHANGED <<flight, store, key, mode, expired, tx, conn, report, answer, since, lapses>>

\* NoopFlight, or no transaction to try the lock in: fn runs uncoordinated.
Direct(w) ==
    /\ pc[w] = "begin"
    /\ flight = "noop" \/ CanFail(w)
    /\ Goto(w, "fn")
    /\ lapses' = [lapses EXCEPT ![key[w]] = @ \cup {"unlocked"}]
    /\ UNCHANGED <<flight, store, key, mode, expired, tx, conn, report, answer, since>>

-----------------------------------------------------------------------------
(* waitAndPeek *)

\* A new transaction queues for the lock.
Queue(w) ==
    /\ pc[w] = "follow" /\ ~expired[w]
    /\ Pin(w)
    /\ tx' = [tx EXCEPT ![w] = "queue"]
    /\ Goto(w, "await")
    /\ UNCHANGED <<flight, store, key, mode, expired, report, answer, since, lapses>>

\* What a transaction that ends gives back.
Release(w) ==
    /\ tx' = [tx EXCEPT ![w] = "none"]
    /\ conn' = [conn EXCEPT ![w] = None]

\* The lock comes free; the follower commits at once.
Granted(w) ==
    /\ pc[w] = "await" /\ tx[w] = "queue" /\ ~Locked(key[w])
    /\ Release(w)
    /\ Goto(w, "peek")
    /\ UNCHANGED <<flight, store, key, mode, expired, report, answer, since, lapses>>

Peek(w) ==
    /\ pc[w] = "peek" /\ CanQuery(w)
    /\ answer' = IF Servable(row[key[w]]) /\ mode[w] # "refresh"
                 THEN [answer EXCEPT ![w] = row[key[w]]] ELSE answer
    /\ Return(w)
    /\ UNCHANGED <<flight, store, key, mode, tx, conn, report, since, lapses>>

\* The statement timeout, the deadline or the database ends the wait.
FollowFails(w) ==
    /\ pc[w] \in Following
    /\ CanFail(w)
    /\ Release(w)
    /\ Return(w)
    /\ UNCHANGED <<flight, store, key, mode, report, answer, since, lapses>>

-----------------------------------------------------------------------------
(* The leader closure. *)

\* The scans of w's in-process flight other than w.
Flying(w) == {x \in Workers : /\ Home[x] = Home[w] /\ key[x] = key[w]
                              /\ ~Bypasses(x)
                              /\ pc[x] \in {"fanout", "upsert"}}

Join(w) ==
    /\ pc[w] = "fn" /\ Flying(w) # {}
    /\ Goto(w, "join")
    /\ UNCHANGED <<flight, store, key, mode, expired, tx, conn, report, answer, since, lapses>>

Fly(w) ==
    /\ pc[w] = "fn" /\ Flying(w) = {}
    /\ Goto(w, "fanout") /\ FanOut(w)
    /\ UNCHANGED <<flight, row, stale, key, mode, expired, tx, conn, answer, since, lapses>>

\* Every provider answered or was cut off at the deadline.
Collected(w) ==
    /\ pc[w] = "fanout"
    /\ IF Bypasses(w)
       THEN /\ answer' = [answer EXCEPT ![w] = report[w]]
            /\ Return(w)
       ELSE Goto(w, "upsert") /\ UNCHANGED <<expired, answer>>
    /\ UNCHANGED <<flight, store, key, mode, tx, conn, report, since, lapses>>

\* Those that wait for w's call of sf.Do, and w.
Sharing(w) == {w} \cup {x \in Workers : /\ Home[x] = Home[w] /\ key[x] = key[w]
                                        /\ pc[x] = "join"}

\* sf.Do returns to all of them.
Landed(w) ==
    /\ pc' = [x \in Workers |-> IF x \in Sharing(w) THEN "commit" ELSE pc[x]]
    /\ report' = [x \in Workers |-> IF x \in Sharing(w) THEN report[w] ELSE report[x]]

\* store.Upsert, under the caller's context and not scanCtx.
Upsert(w) ==
    /\ pc[w] = "upsert" /\ Free(Home[w]) # {}
    /\ row' = [row EXCEPT ![key[w]] = report[w]]
    /\ Landed(w)
    /\ UNCHANGED <<flight, started, stale, key, mode, expired, tx, conn, answer, since, lapses>>

\* Its error is dropped.
UpsertFails(w) ==
    /\ pc[w] = "upsert" /\ Home[w] \in Failing
    /\ Landed(w)
    /\ lapses' = [lapses EXCEPT ![key[w]] =
                    IF \E x \in Sharing(w) : tx[x] = "lock"
                    THEN @ \cup {"unstored"} ELSE @]
    /\ UNCHANGED <<flight, store, key, mode, expired, tx, conn, answer, since>>

\* tx.Commit releases the lock, unless the transaction is gone already.
Commit(w) ==
    /\ pc[w] = "commit"
    /\ Release(w)
    /\ answer' = IF mode[w] = "refresh" THEN answer
                 ELSE [answer EXCEPT ![w] = report[w]]
    /\ report' = [report EXCEPT ![w] = None]
    /\ Return(w)
    /\ UNCHANGED <<flight, store, key, mode, since, lapses>>

-----------------------------------------------------------------------------
(* Time and crashes. *)

\* A fault: the transaction is begun under a context without a deadline.
KeepsTx(w) == UNCHANGED <<tx, conn>>

\* scanCtx ends: database/sql rolls back the transaction begun under it.
RolledBack(w) == Release(w)

Deadline(w) ==
    /\ Active(w) /\ ~expired[w]
    /\ expired' = [expired EXCEPT ![w] = TRUE]
    /\ RolledBack(w)
    /\ lapses' = [lapses EXCEPT ![key[w]] =
                    IF Abandons(w) THEN Lapses ELSE @]
    /\ UNCHANGED <<flight, store, pc, key, mode, report, answer, since>>

\* A replica dies; Postgres ends its sessions.
Crash(r) ==
    LET dead == {w \in Workers : Home[w] = r /\ Active(w)} IN
    /\ r \in Crashing /\ dead # {}
    /\ pc' = [w \in Workers |-> IF w \in dead THEN "done" ELSE pc[w]]
    /\ tx' = [w \in Workers |-> IF w \in dead THEN "none" ELSE tx[w]]
    /\ conn' = [w \in Workers |-> IF w \in dead THEN None ELSE conn[w]]
    /\ report' = [w \in Workers |-> IF w \in dead THEN None ELSE report[w]]
    /\ expired' = [w \in Workers |-> expired[w] /\ w \notin dead]
    /\ lapses' = [k \in Keys |->
                    IF \E w \in dead : key[w] = k /\ Abandons(w)
                    THEN lapses[k] \cup {"unstored"} ELSE lapses[k]]
    /\ UNCHANGED <<flight, store, key, mode, answer, since>>

\* A day passes, which no scan outlasts.
Age(k) ==
    /\ \A w \in Workers : key[w] = k => ~Active(w)
    /\ stale[k] < started[k]
    /\ stale' = [stale EXCEPT ![k] = started[k]]
    /\ UNCHANGED <<flight, row, started, scan, lapses>>

Step(w) ==
    \/ Hit(w) \/ StaleHit(w) \/ Miss(w)
    \/ Lead(w) \/ Yield(w) \/ Direct(w)
    \/ Queue(w) \/ Granted(w) \/ Peek(w) \/ FollowFails(w)
    \/ Join(w) \/ Fly(w) \/ Collected(w)
    \/ Upsert(w) \/ UpsertFails(w) \/ Commit(w)

Next ==
    \/ \E w \in Workers : Start(w) \/ Step(w) \/ Deadline(w)
    \/ \E r \in Replicas : Crash(r)
    \/ \E k \in Keys : Age(k)

Fairness == \A w \in Workers : WF_vars(Step(w)) /\ WF_vars(Deadline(w))

Spec == Init /\ [][Next]_vars /\ Fairness

-----------------------------------------------------------------------------
(* Properties. *)

\* Two scans of a key never hold its advisory lock together, and two
\* transactions of a replica never share a connection.
LocksExclude ==
    \A v, w \in Workers : v # w =>
        /\ ~(key[v] = key[w] /\ tx[v] = "lock" /\ tx[w] = "lock")
        /\ ~(Home[v] = Home[w] /\ conn[v] = conn[w] /\ conn[v] # None)

\* A lock is held only by a scan that computes or commits, a place in its
\* queue only by one that waits, and each by a live transaction on a
\* connection that the deadline takes away.
TransactionsAreLive ==
    \A w \in Workers :
        /\ (tx[w] = "none") <=> (conn[w] = None)
        /\ tx[w] = "lock" => pc[w] \in Computing \cup {"commit"}
        /\ tx[w] = "queue" => pc[w] = "await"
        /\ expired[w] \/ Bypasses(w) => tx[w] = "none"

\* The report stored for k is within the staleness window.
StoredFresh(k) == row[k] \in Nat /\ row[k] > stale[k]

\* Reports are numbered by the fan-outs begun so far; one on its way to
\* the store is within the staleness window, which no scan outlasts.
ReportsAreYoung ==
    /\ \A k \in Keys : stale[k] =< started[k]
    /\ \A k \in Keys : row[k] \in Nat => row[k] =< started[k]
    /\ \A w \in Workers :
        /\ report[w] \in Nat => report[w] =< started[key[w]]
        /\ answer[w] \in Nat => answer[w] =< started[key[w]]
        /\ pc[w] \in {"fanout", "upsert", "commit"} =>
             report[w] \in Nat /\ report[w] > stale[key[w]]
        /\ Active(w) => since[w] = stale[key[w]]
        /\ Bypasses(w) => pc[w] \in {"idle", "fanout", "done"}
        /\ pc[w] = "idle" => answer[w] = None

\* Until a lock goes back with nothing stored, a follower waits for a leader
\* that is still to store a fresh report or finds one stored.
HandOver ==
    \A w \in Workers : "unstored" \notin lapses[key[w]] =>
        /\ pc[w] \in {"follow", "await"} =>
             \/ StoredFresh(key[w])
             \/ \E x \in Workers : key[x] = key[w] /\ Abandons(x)
        /\ pc[w] = "peek" => StoredFresh(key[w])
        /\ pc[w] = "commit" /\ tx[w] = "lock" => StoredFresh(key[w])

\* Until a fan-out runs without the lock, whoever computes for the store
\* holds it, and collects a later report than the one stored.
LeaderIsLatest ==
    \A w \in Workers :
        "unlocked" \notin lapses[key[w]] /\ ~Bypasses(w) /\ pc[w] \in Computing =>
            /\ tx[w] = "lock"
            /\ pc[w] \in {"fanout", "upsert"} /\ row[key[w]] \in Nat =>
                 row[key[w]] < report[w]

ScanInv ==
    /\ TypeOK /\ LocksExclude /\ TransactionsAreLive
    /\ ReportsAreYoung /\ HandOver /\ LeaderIsLatest

\* An answer never comes from a superseded matcher; and a scan that did not
\* allow a stale report gets one only after the lock of its key went back
\* without a report stored: at a deadline, a crash or a failed Upsert.
\* (MatcherSupersededForRecompute at both reads; followers peek only after
\* the leader released the lock, and the leader stores before it commits.)
AnswersAreCurrent ==
    \A w \in Workers : answer[w] # None =>
        /\ answer[w] # Superseded
        /\ mode[w] \in {"strict", "ephemeral"} =>
             \/ answer[w] > since[w]
             \/ "unstored" \in lapses[key[w]]

\* The report of an upload's scan is stored for nobody and answers nobody
\* else (the ephemeral path of scanFederated).
UploadsStayPrivate ==
    \A v, w \in Workers :
        v # w /\ key[v] = key[w] /\ mode[v] = "ephemeral" /\ report[v] # None =>
            /\ row[key[v]] # report[v]
            /\ report[w] # report[v]
            /\ answer[w] # report[v]

\* Upsert has no guard against older reports: a stored report is replaced
\* by an older one only if a fan-out ran outside the lock, because a leader
\* lost it at its deadline or a scan never had it.
RowsGoForward ==
    [][\A k \in Keys :
        row[k] \in Nat /\ row'[k] < row[k] =>
            "unlocked" \in lapses[k]]_vars

\* Every scan returns, also when the leaders of a replica pin every
\* connection their Upserts wait for: the deadline gives them back.
EveryScanReturns == \A w \in Workers : pc[w] = "lookup" ~> pc[w] = "done"

=============================================================================
