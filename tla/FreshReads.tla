----------------------------- MODULE FreshReads -----------------------------
(***************************************************************************)
(* What a replicated read cache with explicit invalidation promises, with  *)
(* no word on how: a read may return any version committed by the time it  *)
(* is answered, but none older than what its replica had invalidated when  *)
(* the read began.  Several reads may be answered by one load.             *)
(***************************************************************************)
EXTENDS Integers

CONSTANTS Replicas, Slots, None

Readers == Replicas \X Slots

VARIABLES
    latest,    \* versions committed so far
    flushed,   \* flushed[r]: latest when r last invalidated
    phase,     \* phase[w]: "idle", "asked" or "told"
    floor,     \* floor[w]: flushed of its replica when w asked
    answer     \* answer[w]: the version w was told

vars == <<latest, flushed, phase, floor, answer>>

Init ==
    /\ latest = 0
    /\ flushed = [r \in Replicas |-> 0]
    /\ phase = [w \in Readers |-> "idle"]
    /\ floor = [w \in Readers |-> 0]
    /\ answer = [w \in Readers |-> None]

Commit ==
    /\ latest' = latest + 1
    /\ UNCHANGED <<flushed, phase, floor, answer>>

Flush(r) ==
    /\ flushed' = [flushed EXCEPT ![r] = latest]
    /\ UNCHANGED <<latest, phase, floor, answer>>

Ask(w) ==
    /\ phase[w] = "idle"
    /\ phase' = [phase EXCEPT ![w] = "asked"]
    /\ floor' = [floor EXCEPT ![w] = flushed[w[1]]]
    /\ UNCHANGED <<latest, flushed, answer>>

\* One version for all of S.
Tell(S, v) ==
    /\ v <= latest
    /\ \A w \in S : phase[w] = "asked" /\ floor[w] <= v
    /\ phase' = [w \in Readers |-> IF w \in S THEN "told" ELSE phase[w]]
    /\ answer' = [w \in Readers |-> IF w \in S THEN v ELSE answer[w]]
    /\ UNCHANGED <<latest, flushed, floor>>

\* Reads end, answered or failed.
End(S) ==
    /\ phase' = [w \in Readers |-> IF w \in S THEN "idle" ELSE phase[w]]
    /\ floor' = [w \in Readers |-> IF w \in S THEN 0 ELSE floor[w]]
    /\ answer' = [w \in Readers |-> IF w \in S THEN None ELSE answer[w]]
    /\ UNCHANGED <<latest, flushed>>

Next ==
    \/ Commit
    \/ \E r \in Replicas : Flush(r)
    \/ \E w \in Readers : Ask(w)
    \/ \E S \in SUBSET Readers : End(S) \/ \E v \in 0..latest : Tell(S, v)

Spec == Init /\ [][Next]_vars

=============================================================================
