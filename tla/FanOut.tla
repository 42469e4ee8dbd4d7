-------------------------------- MODULE FanOut --------------------------------
(***************************************************************************)
(* The scans of one package version that overlap: what they learn, what   *)
(* they decide and what they store.                                        *)
(*                                                                         *)
(* intelligence.DefaultService.runFanout asks its providers in stages,     *)
(* each in a goroutine that sends one message, merges what they send,      *)
(* revives facts of the stored row that nobody looked at this time,        *)
(* evaluates the result and hands it to Store.Upsert, which revives them   *)
(* again under the row's lock, if there is a row to lock.  Scans of two    *)
(* tenants, or of two replicas, share the row, and so does the coverage    *)
(* sweep of the refresher.                                                 *)
(*                                                                         *)
(* Each provider answers for one fact of the report.  A fact is what was   *)
(* seen and the number of the scan that saw it; scans are numbered in the  *)
(* order they begin.  The evaluation is a function of the facts, so a      *)
(* verdict is represented by what the facts were when it was computed.     *)
(***************************************************************************)
EXTENDS Naturals

CONSTANTS
    MaxScans,    \* bound: scans in a behaviour
    MaxSweeps,   \* bound: coverage sweeps that write
    Providers,
    Stage,       \* Stage[p]: 1 for Tier 1 and 2, then one stage per tier
    LastStage,
    Sticky,      \* facts revived before the evaluation and by the store
    Evidenced,   \* facts of these whose "flag" is revived with evidence only
    Cacheable,   \* analyzers of the artifact that declare a version
    NeedBytes,   \* providers that read the artifact
    Malware,     \* the provider of MalwareStatus
    Exempt,      \* providers the short-circuit leaves alone
    Outcomes,    \* Outcomes[p]: what p may see when it is not interrupted
    Flaky,       \* providers that may fail by themselves
    Requests,    \* records of signals, digest and ephemeral
    Mixes,       \* the requests the scans may come with
    Stored,      \* what the row may hold before
    Digests,     \* artifacts
    Truncated,   \* artifacts beyond the caps of the archive walk
    Content,     \* Content[d]: what a whole walk of d finds
    Failing,     \* the statements that may fail: "lookup", "prior", "save",
                 \* "upsert"
    None

Scans == 1..MaxScans

\* "bare" is a flag without the evidence that justified it: rows that
\* earlier releases stored may hold one.
Values == {"silent", "clear", "flag", "bare"}
Silence == [val |-> "silent", obs |-> 0]
Bare == [val |-> "bare", obs |-> 0]
Facts == {Silence, Bare} \cup [val : {"clear", "flag"}, obs : 0..MaxScans]
Report == [Providers -> Facts]
Blank == [p \in Providers |-> Silence]
Rows == [facts : Report, verdict : [Providers -> Values], malicious : BOOLEAN]
Messages == [from : Providers, val : {"silent", "clear", "flag"}, err : BOOLEAN]

ASSUME FanOutAssumption ==
    /\ MaxScans \in Nat /\ MaxSweeps \in Nat
    /\ LastStage \in Nat \ {0}
    /\ Stage \in [Providers -> 1..LastStage]
    /\ Sticky \subseteq Providers /\ Evidenced \subseteq Sticky
    /\ NeedBytes \subseteq Providers
    /\ Cacheable \subseteq {p \in NeedBytes : Stage[p] = 1}
    /\ Malware \in Sticky \ Evidenced
    /\ Requests \subseteq [signals : SUBSET Providers, ephemeral : BOOLEAN,
                           digest : Digests \cup {None}]
    /\ Mixes \subseteq [Scans -> Requests]
    /\ \A old \in Stored :
         /\ old \in [Providers -> Values]
         /\ \A p \in Providers : old[p] = "bare" => p \in Evidenced
    /\ Outcomes \in [Providers -> SUBSET {"silent", "clear", "flag"}]
    /\ Content \in [Digests -> {"clear", "flag"}]
    /\ \A d \in Digests : d # None
    /\ None \notin Nat \cup {"clear", "flag"}
    /\ None \notin Report /\ None \notin Rows
    /\ Failing \subseteq {"lookup", "prior", "save", "upsert"}

\* What the risk engine computes from a report.
Evaluation(facts) == [p \in Providers |-> facts[p].val]

VARIABLES
    row,       \* the stored report with its columns, or None
    analyses,  \* analyses[d][p]: the stored analysis, or None
    pc,        \* pc[s]: the next step of a scan
    req,       \* req[s]: its request
    stage,     \* stage[s]: the stage it runs
    todo,      \* todo[s]: providers that have not returned
    chan,      \* chan[s]: messages sent and not merged
    tripped,   \* tripped[s]: fanoutCtx was cancelled
    expired,   \* expired[s]: ctx is over
    prior,     \* prior[s]: the facts of the row it read, or None
    facts,     \* facts[s]: its report
    verdict,   \* verdict[s]: the evaluation of its report
    sweep,     \* the report the coverage sweep works on, or None
    writes,    \* history: number of writes to the row
    sweeps,    \* history: number of those by sweeps
    readAt,    \* history: writes when it read the row, None if it did not
    sweptAt,   \* history: writes when the sweep read the row
    found,     \* history: providers that returned facts to the scan
    lapses     \* history: what went wrong under the latest write:
               \* "raced", "blind", "unlocked"

scan == <<pc, req, stage, todo, chan, tripped, expired, prior, facts, verdict>>
past == <<readAt, found>>
stored == <<row, writes, lapses>>
sweeping == <<sweep, sweeps, sweptAt>>
vars == <<row, analyses, pc, req, stage, todo, chan, tripped, expired,
          prior, facts, verdict, sweep, writes, sweeps, readAt, sweptAt,
          found, lapses>>

Steps == {"idle", "reuse", "prior", "run", "save", "next", "evaluate",
          "upsert", "insert", "done"}

TypeOK ==
    /\ row \in Rows \cup {None}
    /\ analyses \in [Digests -> [Cacheable -> {"clear", "flag", None}]]
    /\ pc \in [Scans -> Steps]
    /\ req \in [Scans -> Requests]
    /\ stage \in [Scans -> 1..LastStage]
    /\ todo \in [Scans -> SUBSET Providers]
    /\ chan \in [Scans -> SUBSET Messages]
    /\ tripped \in [Scans -> BOOLEAN]
    /\ expired \in [Scans -> BOOLEAN]
    /\ prior \in [Scans -> Report \cup {None}]
    /\ facts \in [Scans -> Report]
    /\ verdict \in [Scans -> [Providers -> Values]]
    /\ sweep \in Report \cup {None}
    /\ writes \in Nat /\ sweeps \in Nat
    /\ readAt \in [Scans -> Nat \cup {None}]
    /\ sweptAt \in Nat
    /\ found \in [Scans -> SUBSET Providers]
    /\ lapses \in SUBSET {"raced", "blind", "unlocked"}

\* A coordinate that was never scanned, or one that scan 0 and earlier
\* releases have stored.
Init ==
    /\ \/ row = None
       \/ \E old \in Stored :
               row = [facts |-> [p \in Providers |-> [val |-> old[p], obs |-> 0]],
                      verdict |-> old,
                      malicious |-> old[Malware] = "flag"]
    /\ analyses = [d \in Digests |-> [p \in Cacheable |-> None]]
    /\ pc = [s \in Scans |-> "idle"]
    /\ req \in Mixes
    /\ stage = [s \in Scans |-> 1]
    /\ todo = [s \in Scans |-> {}]
    /\ chan = [s \in Scans |-> {}]
    /\ tripped = [s \in Scans |-> FALSE]
    /\ expired = [s \in Scans |-> FALSE]
    /\ prior = [s \in Scans |-> None]
    /\ facts = [s \in Scans |-> Blank]
    /\ verdict = [s \in Scans |-> Evaluation(Blank)]
    /\ sweep = None
    /\ writes = 0 /\ sweeps = 0 /\ sweptAt = 0
    /\ readAt = [s \in Scans |-> None]
    /\ found = [s \in Scans |-> {}]
    /\ lapses = {}

-----------------------------------------------------------------------------
(* Reviving facts, and the write every report goes through. *)

\* A fault: what an earlier scan saw replaces what this one saw.
OlderFactWins(p, next, old) == IF old.val # "silent" THEN old ELSE next

\* applyStickySupplyChain, applyStickyScan and the rules of
\* mergeReportPayload: silence takes the stored fact.
Carry(p, next, old) ==
    IF next.val = "silent" /\ ~(p \in Evidenced /\ old.val = "bare")
    THEN old ELSE next

\* A fault: the store trusts the report it is given.
NothingRevived(next) == next

\* mergeReportPayload, on the row locked by SELECT ... FOR UPDATE.
Merged(next) == [p \in Providers |-> Carry(p, next[p], row.facts[p])]

\* A fault: the revival happens in the store only.
EvaluatedAsSeen(s) == facts[s]

\* The revival before the evaluation, from the row read earlier.
Revived(s) ==
    IF prior[s] = None THEN facts[s]
    ELSE [p \in Providers |->
            IF p \in Sticky THEN Carry(p, facts[s][p], prior[s][p])
            ELSE facts[s][p]]

\* The statement that writes the row, and the commit.  The columns come from
\* the report as it was given.
Write(payload, next, v, wrong) ==
    /\ row' = [facts |-> payload, verdict |-> v,
               malicious |-> next[Malware].val = "flag"]
    /\ writes' = writes + 1
    /\ lapses' = wrong

\* Store.Upsert of a row it can lock.
Upsert(next, v, wrong) ==
    /\ row # None
    /\ Write(Merged(next), next, v, wrong)

-----------------------------------------------------------------------------
(* A scan. *)

Goto(s, step) == pc' = [pc EXCEPT ![s] = step]

\* The providers of the running stage that the request selects.
Selected(s, n) ==
    {p \in req[s].signals : /\ Stage[p] = n
                            /\ p \in NeedBytes => req[s].digest # None}

\* runFanout starts; scans are numbered in this order.
Begin(s) ==
    /\ pc[s] = "idle"
    /\ \A t \in Scans : t < s => pc[t] # "idle"
    /\ Goto(s, "reuse")
    /\ todo' = [todo EXCEPT ![s] = Selected(s, 1)]
    /\ UNCHANGED <<stored, sweeping, analyses, req, stage, chan, tripped,
                   expired, prior, facts, verdict, readAt, found>>

\* planArtifactAnalyses: uploads and scans without bytes have no plan.
Planned(s) == req[s].digest # None /\ ~req[s].ephemeral

\* LoadArtifactAnalyses for these bytes.
Hits(s) ==
    IF Planned(s)
    THEN {p \in todo[s] \cap Cacheable : analyses[req[s].digest][p] # None}
    ELSE {}

\* reuseArtifactAnalyses: stored analyses are merged and their providers do
\* not run.  A failed lookup reuses nothing.
Reuse(s) ==
    /\ pc[s] = "reuse"
    /\ \E hits \in {Hits(s)} \cup (IF "lookup" \in Failing THEN {{}} ELSE {}) :
         /\ facts' = [facts EXCEPT ![s] =
                [p \in Providers |->
                    IF p \in hits
                    THEN [val |-> analyses[req[s].digest][p], obs |-> s]
                    ELSE facts[s][p]]]
         /\ todo' = [todo EXCEPT ![s] = @ \ hits]
    /\ Goto(s, IF req[s].ephemeral THEN "run" ELSE "prior")
    /\ UNCHANGED <<stored, sweeping, past, analyses, req, stage, chan, tripped,
                   expired, prior, verdict>>

\* The one read of the stored row, on a context of its own.
ReadPrior(s) ==
    /\ pc[s] = "prior"
    /\ \/ /\ prior' = [prior EXCEPT ![s] = IF row = None THEN None ELSE row.facts]
          /\ readAt' = [readAt EXCEPT ![s] = writes]
       \/ /\ "prior" \in Failing
          /\ UNCHANGED <<prior, readAt>>
    /\ Goto(s, "run")
    /\ UNCHANGED <<stored, sweeping, analyses, req, stage, todo, chan, tripped,
                   expired, facts, verdict, found>>

\* The provider's context is over.
Interrupted(s, p) ==
    expired[s] \/ (stage[s] = 1 /\ tripped[s] /\ p \notin Exempt)

\* What a provider that completes may return.
Sees(s, p) ==
    IF p \notin NeedBytes THEN Outcomes[p]
    ELSE IF req[s].digest \in Truncated THEN {"clear", "flag"}
    ELSE {Content[req[s].digest]}

\* What Run may return; an interrupted walk of the artifact has seen part
\* of it.  A panic in Run is an error; after Run it loses the message,
\* which merges like an empty one.
Results(s, p) ==
    [from : {p}, val : Sees(s, p), err : {FALSE}]
        \cup IF p \in Flaky \/ Interrupted(s, p)
             THEN [from : {p}, err : {TRUE},
                   val : {"silent"} \cup IF p \in NeedBytes THEN {"clear"} ELSE {}]
             ELSE {}

\* A fault: select on the send and on fanoutCtx.Done().
SendOrDrop(s, m) ==
    \/ chan' = [chan EXCEPT ![s] = @ \cup {m}]
    \/ tripped[s] /\ chan' = chan

\* The unconditional send: the channel holds a message of everyone who runs.
Send(s, m) == chan' = [chan EXCEPT ![s] = @ \cup {m}]

\* partialIsBlocking, in the first stage only.
Decisive(s, m) ==
    stage[s] = 1 /\ m.from = Malware /\ m.val = "flag" /\ ~m.err

\* A provider's goroutine: Run, the send, then the short-circuit.
Return(s, p) ==
    /\ pc[s] = "run"
    /\ p \in todo[s]
    /\ \E m \in Results(s, p) :
         /\ Send(s, m)
         /\ tripped' = [tripped EXCEPT ![s] = @ \/ Decisive(s, m)]
         /\ found' = [found EXCEPT ![s] =
                        @ \cup {q \in {p} : m.val # "silent"}]
    /\ todo' = [todo EXCEPT ![s] = @ \ {p}]
    /\ UNCHANGED <<stored, sweeping, analyses, pc, req, stage, expired, prior,
                   facts, verdict, readAt>>

\* What the messages say of a fact.
Heard(s, p) == {m.val : m \in {n \in chan[s] : n.from = p}} \ {"silent"}

\* wg.Wait returned: mergePartial for every message, with or without error.
Merge(s) ==
    /\ pc[s] = "run"
    /\ todo[s] = {}
    /\ facts' = [facts EXCEPT ![s] =
            [p \in Providers |->
                IF Heard(s, p) = {} THEN facts[s][p]
                ELSE [val |-> CHOOSE v \in Heard(s, p) : TRUE, obs |-> s]]]
    /\ Goto(s, IF stage[s] = 1 THEN "save" ELSE "next")
    /\ UNCHANGED <<stored, sweeping, past, analyses, req, stage, todo, chan,
                   tripped, expired, prior, verdict>>

\* A fault: what a cut-off walk found is kept as well.
AllRan(s) == {m \in chan[s] : m.from \in Cacheable /\ m.val # "silent" /\ Planned(s)}

\* persistArtifactAnalyses: neither errors nor truncated walks.
Complete(s) ==
    {m \in chan[s] : /\ Planned(s)
                     /\ m.from \in Cacheable
                     /\ ~m.err
                     /\ req[s].digest \notin Truncated}

\* The analyses are saved one by one, each of which may fail.
Save(s) ==
    /\ pc[s] = "save"
    /\ \E saved \in SUBSET Complete(s) :
         /\ "save" \notin Failing => saved = Complete(s)
         /\ analyses' = [d \in Digests |->
                [p \in Cacheable |->
                    IF \E m \in saved : m.from = p /\ req[s].digest = d
                    THEN (CHOOSE m \in saved : m.from = p).val
                    ELSE analyses[d][p]]]
    /\ Goto(s, "next")
    /\ UNCHANGED <<stored, sweeping, past, req, stage, todo, chan, tripped,
                   expired, prior, facts, verdict>>

\* The next tier starts against the merged report, unless ctx is over.
NextStage(s) ==
    /\ pc[s] = "next"
    /\ chan' = [chan EXCEPT ![s] = {}]
    /\ IF expired[s] \/ stage[s] = LastStage
       THEN Goto(s, "evaluate") /\ UNCHANGED <<stage, todo>>
       ELSE /\ Goto(s, "run")
            /\ stage' = [stage EXCEPT ![s] = @ + 1]
            /\ todo' = [todo EXCEPT ![s] = Selected(s, stage[s] + 1)]
    /\ UNCHANGED <<stored, sweeping, past, analyses, req, tripped, expired,
                   prior, facts, verdict>>

\* The sticky revival and ComputeTrustScore.  Nothing reads the prior row
\* past here.
Evaluate(s) ==
    /\ pc[s] = "evaluate"
    /\ facts' = [facts EXCEPT ![s] = Revived(s)]
    /\ verdict' = [verdict EXCEPT ![s] = Evaluation(Revived(s))]
    /\ prior' = [prior EXCEPT ![s] = None]
    /\ Goto(s, "upsert")
    /\ UNCHANGED <<stored, sweeping, past, analyses, req, stage, todo, chan,
                   tripped, expired>>

\* What the writer of a report missed.
Lapses(read) ==
    {l \in {"raced", "blind"} :
        IF l = "blind" THEN read = None ELSE read \notin {None, writes}}

\* The scan returns its report and forgets what it was made of.
Done(s) ==
    /\ Goto(s, "done")
    /\ facts' = [facts EXCEPT ![s] = Blank]
    /\ verdict' = [verdict EXCEPT ![s] = Evaluation(Blank)]
    /\ found' = [found EXCEPT ![s] = {}]
    /\ readAt' = [readAt EXCEPT ![s] = None]
    /\ stage' = [stage EXCEPT ![s] = 1]
    /\ tripped' = [tripped EXCEPT ![s] = FALSE]
    /\ expired' = [expired EXCEPT ![s] = FALSE]
    /\ UNCHANGED <<req, todo, chan, prior>>

\* The leader stores its report over the row it locks, on the caller's context,
\* and ignores an error.  An upload is not stored.
Persist(s) ==
    /\ pc[s] = "upsert"
    /\ \/ /\ ~req[s].ephemeral
          /\ Upsert(facts[s], verdict[s], Lapses(readAt[s]))
       \/ ("upsert" \in Failing \/ req[s].ephemeral) /\ UNCHANGED stored
    /\ Done(s)
    /\ UNCHANGED <<sweeping, analyses>>

\* SELECT ... FOR UPDATE finds no row and therefore locks nothing.
FindNoRow(s) ==
    /\ pc[s] = "upsert"
    /\ ~req[s].ephemeral
    /\ row = None
    /\ Goto(s, "insert")
    /\ UNCHANGED <<stored, sweeping, past, analyses, req, stage, todo, chan,
                   tripped, expired, prior, facts, verdict>>

\* INSERT ... ON CONFLICT DO UPDATE writes the report that was merged with
\* nothing, also over a row that another transaction has inserted since.
Insert(s) ==
    /\ pc[s] = "insert"
    /\ \/ Write(facts[s], facts[s], verdict[s],
                Lapses(readAt[s]) \cup {l \in {"unlocked"} : row # None})
       \/ "upsert" \in Failing /\ UNCHANGED stored
    /\ Done(s)
    /\ UNCHANGED <<sweeping, analyses>>

\* The deadline of the scan passes.  Running providers and the next stage are
\* what notices.
Deadline(s) ==
    /\ pc[s] \in {"run", "next"}
    /\ ~expired[s]
    /\ expired' = [expired EXCEPT ![s] = TRUE]
    /\ UNCHANGED <<stored, sweeping, past, analyses, pc, req, stage, todo, chan,
                   tripped, prior, facts, verdict>>

-----------------------------------------------------------------------------
(* The coverage sweep: recomputeCoverageRow reads the row, evaluates it    *)
(* again and stores it if its dependency closure grew.                     *)

SweepRead ==
    /\ sweep = None
    /\ sweeps < MaxSweeps
    /\ row # None
    /\ sweep' = row.facts
    /\ sweptAt' = writes
    /\ UNCHANGED <<stored, analyses, scan, past, sweeps>>

SweepWrite ==
    /\ sweep # None
    /\ \/ /\ Upsert(sweep, Evaluation(sweep), Lapses(sweptAt))
          /\ sweeps' = sweeps + 1
       \/ UNCHANGED <<stored, sweeps>>
    /\ sweep' = None
    /\ UNCHANGED <<analyses, scan, past, sweptAt>>

-----------------------------------------------------------------------------
Step(s) ==
    \/ Reuse(s) \/ ReadPrior(s) \/ Merge(s) \/ Save(s) \/ NextStage(s)
    \/ Evaluate(s) \/ Persist(s) \/ FindNoRow(s) \/ Insert(s)
    \/ \E p \in Providers : Return(s, p)

Next ==
    \/ \E s \in Scans : Begin(s) \/ Step(s) \/ Deadline(s)
    \/ SweepRead \/ SweepWrite

Spec == Init /\ [][Next]_vars

-----------------------------------------------------------------------------
(* Properties *)

Reading == {"run", "save", "next", "evaluate"}
Storing == {"upsert", "insert"}
Merging == {"save", "next", "evaluate"} \cup Storing

\* What a scan or the sweep read is the row, unless it was written since.
ReadsAreRow ==
    /\ \A s \in Scans :
         /\ readAt[s] # None =>
              readAt[s] <= writes /\ pc[s] \in Reading \cup Storing
         /\ pc[s] \in Reading /\ readAt[s] = writes =>
              prior[s] = IF row = None THEN None ELSE row.facts
    /\ sweptAt <= writes
    /\ sweep # None /\ sweptAt = writes => row # None /\ sweep = row.facts

\* A report to be stored was evaluated as it is, and nothing of the row it was
\* completed with is left to revive.
ReportIsRevived ==
    \A s \in Scans : pc[s] \in Storing =>
        /\ verdict[s] = Evaluation(facts[s])
        /\ readAt[s] = writes /\ row # None =>
             \A p \in Sticky :
                 Carry(p, facts[s][p], row.facts[p]) = facts[s][p]

\* What a provider found is on its way to the report or in it.
FoundIsKept ==
    \A s \in Scans : \A p \in found[s] :
        \/ facts[s][p].obs = s
        \/ pc[s] = "run" /\ \E m \in chan[s] : m.from = p /\ m.val # "silent"

\* Analyzers run on bytes, and what they send without an error is what whole
\* bytes hold.
WalksAreWhole ==
    \A s \in Scans :
        /\ todo[s] \cap NeedBytes # {} => req[s].digest # None
        /\ \A m \in chan[s] :
             m.from \in NeedBytes => req[s].digest # None
        /\ \A m \in chan[s] :
             m.from \in NeedBytes /\ ~m.err /\ req[s].digest \notin Truncated =>
                 m.val = Content[req[s].digest]

\* Why a provider of the first stage may have nothing to say.
Excused(s, p) ==
    \/ "silent" \in Outcomes[p]
    \/ expired[s] \/ p \in Flaky
    \/ tripped[s] /\ p \notin Exempt

\* A provider of the first stage runs, has spoken or is excused.
Accounted ==
    \A s \in Scans :
        /\ pc[s] \in Merging => todo[s] = {}
        /\ pc[s] \notin {"idle", "done"} =>
             \A p \in Selected(s, 1) :
                 \/ p \in todo[s] \cup found[s]
                 \/ facts[s][p].val # "silent"
                 \/ Excused(s, p)

\* The report, the evaluation and the is_malicious column of a row describe
\* the same facts (P8-71), unless its writer could not read the row it was
\* about to replace or another writer replaced it meanwhile.
ColumnsAgree ==
    row # None /\ lapses = {} =>
        /\ \A p \in Sticky : row.facts[p].val = row.verdict[p]
        /\ row.malicious <=> row.facts[Malware].val = "flag"

\* The inductive invariant behind the properties.
FanOutInv ==
    /\ TypeOK
    /\ ReadsAreRow
    /\ ReportIsRevived
    /\ FoundIsKept
    /\ WalksAreWhole
    /\ Accounted

\* "Every row in this table is a complete analysis" (analysis_reuse.go): a
\* stored analysis is what a whole walk of those bytes finds, although walks
\* are interrupted, fail half way and run into their caps.
AnalysesAreComplete ==
    \A d \in Digests, p \in Cacheable :
        analyses[d][p] \in {None, Content[d]}

\* What a provider found is in the report, although another one's verdict
\* ended the stage meanwhile; and a provider that is missing was stopped by
\* the deadline, by its own failure or, when it is not exempt, by that verdict.
WorkIsKept ==
    \A s \in Scans : pc[s] \in Merging =>
        \A p \in Selected(s, 1) :
            \/ facts[s][p].val # "silent"
            \/ /\ p \notin found[s]
               /\ Excused(s, p)

\* "Silence is not a withdrawal" (sticky.go): no write, by a scan that did not
\* look or that read the row before the fact was there, makes a stored fact
\* disappear.  Flags without evidence are dropped on purpose.  What is excepted
\* is the INSERT of a scan that found no row over the row of another one.
SilenceErasesNothing ==
    [][row # None /\ "unlocked" \notin lapses' =>
        \A p \in Providers :
            row.facts[p].val \notin {"silent", "bare"} =>
                row'.facts[p].val # "silent"]_row

\* "An incoming field that is explicitly set IS an observation and wins"
\* (sticky.go): once a scan has stored its report, the row says of each fact
\* what the scan's providers saw, whatever the row it read and the row it
\* replaces said, so a package that returns to clean is stored as clean.
SeenIsStored ==
    [][\A s \in Scans :
        pc[s] \in Storing /\ pc'[s] = "done" /\ writes' # writes =>
            \A p \in found[s] : row'.facts[p].obs = s]_vars
=============================================================================
