------------------------------- MODULE DiskTier -------------------------------
(***************************************************************************)
(* storage.DiskTier: the local-disk cache in front of the blob store.      *)
(*                                                                         *)
(* The files of the tier and the index of them, entries, change in         *)
(* separate steps: a commit renames a file into place and indexes it       *)
(* later, an open looks for the file first and at the index afterwards,    *)
(* drop collects names under the lock and removes the files after it.  Only*)
(* what runs under the mutex is one step.  Evictions keep the indexed      *)
(* bytes within a cap; a restart indexes what it finds on disk.            *)
(*                                                                         *)
(* A file name stands for a blob key and a digest, so all copies under a   *)
(* name have one size and the same bytes, unless the disk damaged them.    *)
(***************************************************************************)
EXTENDS Integers, FiniteSets

CONSTANTS
    Threads,    \* readers and writers of the process
    Names,      \* file names
    BlobKeys,   \* blob keys
    KeyOf,      \* KeyOf[n]: the blob key a name belongs to
    Size,       \* Size[n]: bytes
    MaxBytes,   \* DiskTier.maxBytes
    None,       \* no name
    Faults,     \* which of "full", "damage", "restart" may happen
    MaxFills,   \* bound: commits
    MaxDrops,   \* bound: drops
    MaxFaults   \* bound: damaged files and restarts

ASSUME TierAssumption ==
    /\ IsFiniteSet(Names)
    /\ KeyOf \in [Names -> BlobKeys]
    /\ Size \in [Names -> Nat]
    /\ MaxBytes \in Nat
    /\ None \notin Names
    /\ Faults \subseteq {"full", "damage", "restart"}
    /\ MaxFills \in Nat /\ MaxDrops \in Nat /\ MaxFaults \in Nat

VARIABLES
    file,     \* file[n]: "absent", "good" or "damaged"
    entries,  \* DiskTier.entries: the names in the index
    older,    \* <<m, n>>: both indexed, and m's tierEntry.used is before n's
    total,    \* DiskTier.total
    owed,     \* history: names indexed since evictLocked last looked
    pc,       \* pc[t]: its next step
    name,     \* name[t]: the file it works on
    fd,       \* fd[t]: what the file it opened holds
    todo,     \* todo[t]: names it has left to remove
    target,   \* target[t]: the blob key its drop is about, or None
    spared,   \* history: names its drop could not know of
    fills,    \* commits so far
    drops,    \* drops so far
    faults    \* damaged files and restarts so far

index == <<entries, older, total, owed>>
removal == <<todo, target, spared>>
thread == <<pc, name, fd, removal>>
bounds == <<fills, drops, faults>>
vars == <<file, index, thread, bounds>>

Steps == {"idle", "miss", "touch", "touchAt", "reindex", "read",
          "index", "evict", "drop", "unlink"}
Contents == {"absent", "good", "damaged"}

\* The bytes of the files S, each one by its file and its place in it.
BytesOf(S) == UNION {{n} \X (1..Size[n]) : n \in S}

Bytes(S) == Cardinality(BytesOf(S))

\* The orders in which the names S may have been used.
Orders(S) ==
    {R \in SUBSET (S \X S) :
        /\ \A m \in S : <<m, m>> \notin R
        /\ \A m, n \in S : m # n => (<<m, n>> \in R <=> <<n, m>> \notin R)
        /\ \A l, m, n \in S : <<l, m>> \in R /\ <<m, n>> \in R => <<l, n>> \in R}

TypeOK ==
    /\ file \in [Names -> Contents]
    /\ pc \in [Threads -> Steps]
    /\ name \in [Threads -> Names \cup {None}]
    /\ fd \in [Threads -> Contents]
    /\ todo \in [Threads -> SUBSET Names]
    /\ target \in [Threads -> BlobKeys \cup {None}]
    /\ spared \in [Threads -> SUBSET Names]

Init ==
    /\ file = [n \in Names |-> "absent"]
    /\ entries = {} /\ older = {} /\ total = 0 /\ owed = {}
    /\ pc = [t \in Threads |-> "idle"]
    /\ name = [t \in Threads |-> None]
    /\ fd = [t \in Threads |-> "absent"]
    /\ todo = [t \in Threads |-> {}]
    /\ target = [t \in Threads |-> None]
    /\ spared = [t \in Threads |-> {}]
    /\ fills = 0 /\ drops = 0 /\ faults = 0

-----------------------------------------------------------------------------
(* The index, under the mutex. *)

\* The order of the names S, and the same with n as the latest used.
Within(S) == older \cap (S \X S)
UsedNow(n) == Within(entries \ {n}) \cup ((entries \ {n}) \X {n})

\* A fault: a name that is indexed again is counted again.
CountedAgain(n) ==
    /\ entries' = entries \cup {n}
    /\ older' = UsedNow(n)
    /\ total' = total + Size[n]
    /\ owed' = owed \cup {n}

\* DiskTier.index: the entry is made or made anew, as the latest used.
Indexed(n) ==
    /\ entries' = entries \cup {n}
    /\ older' = UsedNow(n)
    /\ total' = (IF n \in entries THEN total - Size[n] ELSE total) + Size[n]
    /\ owed' = owed \cup {n}

\* DiskTier.forgetLocked
Forgotten(n) ==
    /\ entries' = entries \ {n}
    /\ older' = Within(entries \ {n})
    /\ total' = IF n \in entries THEN total - Size[n] ELSE total
    /\ owed' = owed \ {n}

\* evictLocked: which of the entries S, used in the order R, it removes: always
\* the oldest.  Over the cap it goes on until a tenth is free; under the
\* free-space floor, which it reads again before every file, until some later
\* point or the end.
Evictions(S, R, bytes) ==
    LET oldest == {T \in SUBSET S : \A m \in S, n \in T : <<m, n>> \in R => m \in T}
        enough == {T \in oldest : bytes - Bytes(T) =< (MaxBytes * 9) \div 10}
        fewest == {T \in enough : \A U \in enough : T \subseteq U}
    IN (IF bytes =< MaxBytes THEN {{}} ELSE fewest)
         \cup (IF "full" \in Faults THEN enough ELSE {})

\* The index of S and the files without T.
EvictFrom(S, R, bytes, T) ==
    /\ entries' = S \ T
    /\ older' = R \cap ((S \ T) \X (S \ T))
    /\ total' = bytes - Bytes(T)
    /\ file' = [n \in Names |-> IF n \in T THEN "absent" ELSE file[n]]
    /\ owed' = {}

Goto(t, step) == pc' = [pc EXCEPT ![t] = step]

\* The call returns; its variables go with it.
Return(t) ==
    /\ Goto(t, "idle")
    /\ name' = [name EXCEPT ![t] = None]
    /\ fd' = [fd EXCEPT ![t] = "absent"]

-----------------------------------------------------------------------------
(* open, openAt and the reader open returns. *)

\* os.Open; the index has not been looked at yet.
Open(t, n) ==
    /\ pc[t] = "idle"
    /\ name' = [name EXCEPT ![t] = n]
    /\ fd' = [fd EXCEPT ![t] = file[n]]
    /\ Goto(t, IF file[n] = "absent" THEN "miss" ELSE "touch")
    /\ UNCHANGED <<file, index, removal, bounds>>

\* openAt finds the file; without one it touches nothing.
OpenAt(t, n) ==
    /\ pc[t] = "idle" /\ file[n] # "absent"
    /\ name' = [name EXCEPT ![t] = n]
    /\ Goto(t, "touchAt")
    /\ UNCHANGED <<file, index, fd, removal, bounds>>

\* A fault: the entry stays.
MissOnly(t) ==
    /\ pc[t] = "miss"
    /\ Return(t)
    /\ UNCHANGED <<file, index, removal, bounds>>

\* The file was not there, so its entry is wrong.
Miss(t) ==
    /\ pc[t] = "miss"
    /\ Forgotten(name[t])
    /\ Return(t)
    /\ UNCHANGED <<file, removal, bounds>>

\* The file was there: it is the latest used now, if the index has it.
Touch(t) ==
    /\ pc[t] \in {"touch", "touchAt"}
    /\ older' = IF name[t] \in entries THEN UsedNow(name[t]) ELSE older
    /\ IF pc[t] = "touchAt" THEN Return(t)
       ELSE /\ Goto(t, IF name[t] \in entries THEN "read" ELSE "reindex")
            /\ UNCHANGED <<name, fd>>
    /\ UNCHANGED <<file, entries, total, owed, removal, bounds>>

\* A file the index does not have is indexed, after the mutex was let go.
Reindex(t) ==
    /\ pc[t] = "reindex"
    /\ Indexed(name[t])
    /\ Goto(t, "read")
    /\ UNCHANGED <<file, name, fd, removal, bounds>>

\* verifyingReader at EOF: the caller has all of the bytes, or an error and
\* the file is removed.
ReadEnd(t) ==
    /\ pc[t] = "read"
    /\ IF fd[t] = "good"
       THEN Return(t) /\ UNCHANGED removal
       ELSE /\ Goto(t, "drop")
            /\ todo' = [todo EXCEPT ![t] = {name[t]}]
            /\ UNCHANGED <<name, fd, target, spared>>
    /\ UNCHANGED <<file, index, bounds>>

\* The caller closes it before that.
Close(t) ==
    /\ pc[t] = "read"
    /\ Return(t)
    /\ UNCHANGED <<file, index, removal, bounds>>

-----------------------------------------------------------------------------
(* tierWriter.commit, after fill or learn spooled bytes that hash to n. *)

Rename(t, n) ==
    /\ pc[t] = "idle" /\ fills < MaxFills
    /\ file' = [file EXCEPT ![n] = "good"]
    /\ name' = [name EXCEPT ![t] = n]
    /\ spared' = [x \in Threads |-> IF target[x] # None THEN spared[x] \cup {n}
                                    ELSE spared[x]]
    /\ fills' = fills + 1
    /\ Goto(t, "index")
    /\ UNCHANGED <<index, fd, todo, target, drops, faults>>

Index(t) ==
    /\ pc[t] = "index"
    /\ Indexed(name[t])
    /\ Goto(t, "evict")
    /\ UNCHANGED <<file, name, fd, removal, bounds>>

Evict(t) ==
    /\ pc[t] = "evict"
    /\ \E T \in Evictions(entries, older, total) : EvictFrom(entries, older, total, T)
    /\ Return(t)
    /\ UNCHANGED <<removal, bounds>>

-----------------------------------------------------------------------------
(* drop and remove. *)

\* drop collects the names byKey has for k ...
Drop(t, k) ==
    LET known == {n \in Names : n \in entries /\ KeyOf[n] = k} IN
    /\ pc[t] = "idle" /\ drops < MaxDrops
    /\ todo' = [todo EXCEPT ![t] = known]
    /\ target' = [target EXCEPT ![t] = k]
    /\ spared' = [spared EXCEPT ![t] = Names \ known]
    /\ drops' = drops + 1
    /\ Goto(t, "drop")
    /\ UNCHANGED <<file, index, name, fd, fills, faults>>

\* A fault: remove forgets and leaves the file to the next eviction.
ForgetOnly(t) ==
    /\ pc[t] = "drop"
    /\ \E n \in todo[t] :
        /\ Forgotten(n)
        /\ name' = [name EXCEPT ![t] = n]
        /\ todo' = [todo EXCEPT ![t] = @ \ {n}]
    /\ UNCHANGED <<file, pc, fd, target, spared, bounds>>

\* ... and removes one after the other: the entry ...
Forget(t) ==
    /\ pc[t] = "drop"
    /\ \E n \in todo[t] :
        /\ Forgotten(n)
        /\ name' = [name EXCEPT ![t] = n]
        /\ todo' = [todo EXCEPT ![t] = @ \ {n}]
    /\ Goto(t, "unlink")
    /\ UNCHANGED <<file, fd, target, spared, bounds>>

\* ... then the file.
Unlink(t) ==
    /\ pc[t] = "unlink"
    /\ file' = [file EXCEPT ![name[t]] = "absent"]
    /\ Goto(t, "drop")
    /\ UNCHANGED <<index, name, fd, removal, bounds>>

DropEnd(t) ==
    /\ pc[t] = "drop" /\ todo[t] = {}
    /\ target' = [target EXCEPT ![t] = None]
    /\ spared' = [spared EXCEPT ![t] = {}]
    /\ Return(t)
    /\ UNCHANGED <<file, index, todo, bounds>>

-----------------------------------------------------------------------------
(* Faults. *)

Damage(n) ==
    /\ "damage" \in Faults /\ faults < MaxFaults
    /\ file[n] = "good"
    /\ file' = [file EXCEPT ![n] = "damaged"]
    /\ faults' = faults + 1
    /\ UNCHANGED <<index, thread, fills, drops>>

\* The process ends and NewDiskTier indexes the files it left, ordered by
\* the times they were written.
Restart ==
    /\ "restart" \in Faults /\ faults < MaxFaults
    /\ LET found == {n \in Names : file[n] # "absent"} IN
       \E R \in Orders(found) : \E T \in Evictions(found, R, Bytes(found)) :
           EvictFrom(found, R, Bytes(found), T)
    /\ pc' = [t \in Threads |-> "idle"]
    /\ name' = [t \in Threads |-> None]
    /\ fd' = [t \in Threads |-> "absent"]
    /\ todo' = [t \in Threads |-> {}]
    /\ target' = [t \in Threads |-> None]
    /\ spared' = [t \in Threads |-> {}]
    /\ faults' = faults + 1
    /\ UNCHANGED <<fills, drops>>

Step(t) ==
    \/ Miss(t) \/ Touch(t) \/ Reindex(t) \/ ReadEnd(t) \/ Close(t)
    \/ Index(t) \/ Evict(t) \/ Forget(t) \/ Unlink(t) \/ DropEnd(t)

Next ==
    \/ \E t \in Threads :
        \/ \E n \in Names : Open(t, n) \/ OpenAt(t, n) \/ Rename(t, n)
        \/ \E k \in BlobKeys : Drop(t, k)
        \/ Step(t)
    \/ \E n \in Names : Damage(n)
    \/ Restart

Spec == Init /\ [][Next]_vars /\ \A t \in Threads : WF_vars(Step(t))

-----------------------------------------------------------------------------
(* Properties. *)

\* The byte counter agrees with the index, whose entries are in one order of
\* use, after any interleaving of commits, opens, removals and evictions; and
\* what was indexed before the last eviction fits the cap (evictLocked): over
\* it are only files whose eviction is still to come, or that an open indexed.
CapHolds ==
    /\ entries \subseteq Names /\ older \in Orders(entries)
    /\ total = Bytes(entries)
    /\ Bytes(entries \ owed) =< MaxBytes

\* A thread between two steps of a call knows the file it works on, and
\* only a drop has a blob key to go through.
ThreadsKnowTheirFile ==
    \A t \in Threads :
        /\ pc[t] \notin {"idle", "drop"} => name[t] \in Names
        /\ target[t] # None => pc[t] \in {"drop", "unlink"}

\* While drop goes on, and so when it returns, a file of its blob key that it
\* will not remove is one it could not know of: it was not indexed when drop
\* collected the names, or was committed since.
DropRemovesTheIndexed ==
    \A t \in Threads : target[t] # None =>
        \A n \in Names : KeyOf[n] = target[t] /\ file[n] # "absent" =>
            \/ n \in todo[t] \cup spared[t]
            \/ pc[t] = "unlink" /\ n = name[t]

\* The types, and what drop (and so Remove of a package version) promises:
\* every copy of the blob key the tier knew of is gone when it returns, in
\* spite of the commits, opens and evictions meanwhile.
TierInv == TypeOK /\ ThreadsKnowTheirFile /\ DropRemovesTheIndexed

EndOfRead(n) == \E t \in Threads : name[t] = n /\ (ReadEnd(t) \/ Miss(t))

Settled(n) == file[n] # "damaged" /\ (file[n] = "absent" <=> n \notin entries)

\* The races between files and index leave entries without a file, files
\* without an entry and damaged copies behind.  None of them stays for a name
\* that is read to its end again and again (open's forget and index, the
\* verifying reader's remove).
HealsWhenRead == \A n \in Names : []<><<EndOfRead(n)>>_vars => <>[]Settled(n)

=============================================================================
