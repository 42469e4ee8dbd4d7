---------------------------- MODULE FanOut_proofs ----------------------------
(* Theorems about FanOut, for any providers, requests, bounds and faults. *)
EXTENDS FanOut, TLAPS

USE FanOutAssumption

-----------------------------------------------------------------------------
(* Facts *)

\* A fact some scan saw is neither silent nor bare.
LEMMA SeenHasValue ==
    ASSUME NEW f \in Facts, NEW s \in Scans, f.obs = s
    PROVE  f.val \in {"clear", "flag"}
BY DEF Facts, Silence, Bare, Scans

\* Silence is the only silent fact.
LEMMA SilentIsSilence ==
    ASSUME NEW f \in Facts
    PROVE  /\ f.val \in Values
           /\ f.val = "silent" => f = Silence
           /\ f.val = "bare" => f = Bare
BY DEF Facts, Silence, Bare, Values

LEMMA CarryType ==
    ASSUME NEW p, NEW f \in Facts, NEW g \in Facts
    PROVE  /\ Carry(p, f, g) \in Facts
           /\ f.val # "silent" => Carry(p, f, g) = f
           /\ f.val = "silent" /\ g.val \notin {"silent", "bare"} => Carry(p, f, g) = g
BY DEF Carry

\* Reviving twice from the same row is reviving once (the reason both call
\* sites of applyStickySupplyChain may keep calling it).
LEMMA CarryIdempotent ==
    ASSUME NEW p, NEW f \in Facts, NEW g \in Facts
    PROVE  Carry(p, Carry(p, f, g), g) = Carry(p, f, g)
BY DEF Carry

LEMMA MergedType ==
    ASSUME TypeOK, row # None, NEW next \in Report
    PROVE  Merged(next) \in Report
<1>1. row.facts \in Report
  BY DEF TypeOK, Rows
<1>2. \A p \in Providers : next[p] \in Facts /\ row.facts[p] \in Facts
  BY <1>1 DEF Report
<1>3. \A p \in Providers : Carry(p, next[p], row.facts[p]) \in Facts
  BY <1>2, CarryType
<1> QED
  BY <1>3 DEF Merged, Report

LEMMA RevivedType ==
    ASSUME TypeOK, NEW s \in Scans
    PROVE  Revived(s) \in Report
<1>1. facts[s] \in Report
  BY DEF TypeOK
<1>2. CASE prior[s] = None
  BY <1>1, <1>2 DEF Revived
<1>3. CASE prior[s] # None
  <2>1. prior[s] \in Report
    BY <1>3 DEF TypeOK
  <2>2. \A p \in Providers : facts[s][p] \in Facts /\ prior[s][p] \in Facts
    BY <1>1, <2>1 DEF Report
  <2>3. \A p \in Providers :
          (IF p \in Sticky THEN Carry(p, facts[s][p], prior[s][p])
           ELSE facts[s][p]) \in Facts
    BY <2>2, CarryType
  <2> QED
    BY <1>3, <2>3 DEF Revived, Report
<1> QED
  BY <1>2, <1>3

LEMMA EvaluationType ==
    ASSUME NEW f \in Report
    PROVE  Evaluation(f) \in [Providers -> Values]
BY SilentIsSilence DEF Evaluation, Report

LEMMA BlankType == Blank \in Report
BY DEF Blank, Report, Facts

-----------------------------------------------------------------------------
(* The inductive invariant *)

LEMMA InitInv == Init => FanOutInv
<1> SUFFICES ASSUME Init PROVE FanOutInv
  OBVIOUS
<1>1. row \in Rows \cup {None}
  <2>1. CASE row = None
    BY <2>1
  <2>2. ASSUME NEW old \in Stored,
               row = [facts |-> [p \in Providers |-> [val |-> old[p], obs |-> 0]],
                      verdict |-> old, malicious |-> old[Malware] = "flag"]
        PROVE  row \in Rows
    <3>1. old \in [Providers -> Values]
      OBVIOUS
    <3>2. ASSUME NEW p \in Providers PROVE [val |-> old[p], obs |-> 0] \in Facts
      BY <3>1 DEF Facts, Silence, Bare, Values
    <3> QED
      BY <2>2, <3>1, <3>2 DEF Rows, Report
  <2> QED
    BY <2>1, <2>2 DEF Init
<1>2. Evaluation(Blank) \in [Providers -> Values]
  BY BlankType, EvaluationType
<1>3. TypeOK
  BY <1>1, <1>2, BlankType DEF Init, TypeOK, Steps, Messages
<1>4. ReadsAreRow /\ ReportIsRevived /\ FoundIsKept /\ WalksAreWhole /\ Accounted
  BY DEF Init, ReadsAreRow, ReportIsRevived, FoundIsKept, WalksAreWhole, Accounted,
         Reading, Merging, Storing
<1> QED
  BY <1>3, <1>4 DEF FanOutInv

LEMMA BeginInv ==
    ASSUME FanOutInv, NEW s \in Scans, Begin(s)
    PROVE  FanOutInv'
<1> USE DEF FanOutInv
<1>1. TypeOK'
  BY DEF Begin, Goto, TypeOK, Selected, stored, sweeping, Steps
<1>2. ReadsAreRow' /\ ReportIsRevived' /\ FoundIsKept'
  BY DEF Begin, Goto, TypeOK, stored, sweeping, ReadsAreRow, ReportIsRevived,
         FoundIsKept, Reading, Storing, Steps
<1>3. WalksAreWhole'
  BY DEF Begin, TypeOK, WalksAreWhole, Selected
<1>4. Accounted'
  BY DEF Begin, Goto, TypeOK, Accounted, Merging,
         Storing, Selected, Excused
<1> QED
  BY <1>1, <1>2, <1>3, <1>4

LEMMA ReuseInv ==
    ASSUME FanOutInv, NEW s \in Scans, Reuse(s)
    PROVE  FanOutInv'
<1> USE DEF FanOutInv
<1>1. PICK hits \in {Hits(s)} \cup (IF "lookup" \in Failing THEN {{}} ELSE {}) :
        /\ facts' = [facts EXCEPT ![s] =
                [p \in Providers |->
                    IF p \in hits
                    THEN [val |-> analyses[req[s].digest][p], obs |-> s]
                    ELSE facts[s][p]]]
        /\ todo' = [todo EXCEPT ![s] = @ \ hits]
  BY DEF Reuse
<1>2. ASSUME NEW p \in hits
      PROVE  /\ p \in Providers
             /\ analyses[req[s].digest][p] \in {"clear", "flag"}
             /\ [val |-> analyses[req[s].digest][p], obs |-> s] \in Facts
  <2>1. /\ Planned(s)
        /\ p \in Cacheable
        /\ analyses[req[s].digest][p] # None
    BY DEF Hits
  <2>2. req[s].digest \in Digests
    BY <2>1 DEF Planned, TypeOK
  <2>3. analyses[req[s].digest][p] \in {"clear", "flag"}
    BY <2>1, <2>2 DEF TypeOK
  <2> QED
    BY <2>1, <2>3 DEF Facts, Scans
<1>3. facts'[s] \in Report
  BY <1>1, <1>2 DEF TypeOK, Report
<1>4. TypeOK'
  BY <1>1, <1>3 DEF Reuse, Goto, TypeOK, stored, sweeping, past, Steps
<1>5. ReadsAreRow' /\ ReportIsRevived'
  BY <1>1 DEF Reuse, Goto, TypeOK, stored, sweeping, past, ReadsAreRow,
              ReportIsRevived, Reading, Storing, Steps
<1>6. FoundIsKept'
  BY <1>1 DEF Reuse, Goto, TypeOK, past, FoundIsKept
<1>7. WalksAreWhole'
  BY <1>1 DEF Reuse, TypeOK, WalksAreWhole
<1>8. Accounted'
  <2>1. \A p \in hits : facts'[s][p].val # "silent"
    BY <1>1, <1>2 DEF TypeOK
  <2>2. \A p \in Providers : p \notin hits => facts'[s][p] = facts[s][p]
    BY <1>1 DEF TypeOK
  <2>3. \A t \in Scans : t # s => facts'[t] = facts[t] /\ todo'[t] = todo[t]
    BY <1>1 DEF TypeOK
  <2>4. \A t \in Scans : Selected(t, 1)' = Selected(t, 1) /\ Selected(t, 1) \subseteq Providers
    BY DEF Reuse, Selected, TypeOK
  <2>5. todo'[s] = todo[s] \ hits /\ pc'[s] \in {"run", "prior"}
    BY <1>1 DEF Reuse, Goto, TypeOK
  <2>6. \A t \in Scans : t # s => pc'[t] = pc[t]
    BY DEF Reuse, Goto, TypeOK
  <2>7. \A t \in Scans, p \in Providers : Excused(t, p)' = Excused(t, p)
    BY DEF Reuse, Excused
  <2>8. found' = found /\ pc[s] = "reuse"
    BY DEF Reuse, past
  <2> QED
    BY <2>1, <2>2, <2>3, <2>4, <2>5, <2>6, <2>7, <2>8 DEF Accounted, Merging, Storing
<1> QED
  BY <1>4, <1>5, <1>6, <1>7, <1>8

LEMMA ReadPriorInv ==
    ASSUME FanOutInv, NEW s \in Scans, ReadPrior(s)
    PROVE  FanOutInv'
<1> USE DEF FanOutInv
<1> DEFINE r == IF row = None THEN None ELSE row.facts
<1>0. r \in Report \cup {None}
  BY DEF TypeOK, Rows
<1>1. TypeOK'
  <2>1. prior' \in [Scans -> Report \cup {None}] /\ readAt' \in [Scans -> Nat \cup {None}]
    <3>1. CASE prior' = [prior EXCEPT ![s] = r] /\ readAt' = [readAt EXCEPT ![s] = writes]
      <4> HIDE DEF r
      <4> QED
        BY <1>0, <3>1 DEF TypeOK
    <3>2. CASE UNCHANGED <<prior, readAt>>
      BY <3>2 DEF TypeOK
    <3> QED
      BY <3>1, <3>2 DEF ReadPrior
  <2> HIDE DEF r
  <2> QED
    BY <2>1 DEF ReadPrior, Goto, TypeOK, stored, sweeping, Steps
<1>2. ReadsAreRow'
  BY DEF ReadPrior, Goto, TypeOK, stored, sweeping, ReadsAreRow, Reading, Storing, Steps
<1>3. ReportIsRevived' /\ FoundIsKept' /\ WalksAreWhole'
  BY DEF ReadPrior, Goto, TypeOK, stored, sweeping, ReportIsRevived, FoundIsKept,
         WalksAreWhole, Storing, Steps
<1>4. Accounted'
  BY DEF ReadPrior, Goto, TypeOK, Accounted, Merging,
         Storing, Selected, Excused
<1> QED
  BY <1>1, <1>2, <1>3, <1>4

LEMMA ReturnInv ==
    ASSUME FanOutInv, NEW s \in Scans, NEW p \in Providers, Return(s, p)
    PROVE  FanOutInv'
<1> USE DEF FanOutInv
<1>1. PICK m \in Results(s, p) :
        /\ chan' = [chan EXCEPT ![s] = @ \cup {m}]
        /\ tripped' = [tripped EXCEPT ![s] = @ \/ Decisive(s, m)]
        /\ found' = [found EXCEPT ![s] = @ \cup {q \in {p} : m.val # "silent"}]
  BY DEF Return, Send
<1>2. p \in NeedBytes => req[s].digest \in Digests
  BY DEF Return, WalksAreWhole, TypeOK
<1>3. Sees(s, p) \subseteq {"silent", "clear", "flag"}
  BY <1>2 DEF Sees
<1>4. m \in Messages /\ m.from = p
  BY <1>3 DEF Results, Messages
<1>5. TypeOK'
  BY <1>1, <1>4 DEF Return, TypeOK, stored, sweeping, Decisive
<1>6. ReadsAreRow' /\ ReportIsRevived'
  BY DEF Return, TypeOK, stored, sweeping, ReadsAreRow, ReportIsRevived, Reading, Storing
<1>7. FoundIsKept'
  BY <1>1, <1>4 DEF Return, TypeOK, FoundIsKept
<1>8. WalksAreWhole'
  <2>1. p \in NeedBytes /\ ~m.err /\ req[s].digest \notin Truncated =>
          m.val = Content[req[s].digest]
    BY DEF Results, Sees
  <2> QED
    BY <1>1, <1>2, <1>4, <2>1 DEF Return, TypeOK, WalksAreWhole
<1>9. Accounted'
  <2>1. m.val = "silent" => Excused(s, p)
    <3>1. Interrupted(s, p) => Excused(s, p)
      BY DEF Interrupted, Excused
    <3>2. CASE m.err
      BY <3>1, <3>2 DEF Results, Excused
    <3>3. CASE ~m.err
      BY <1>2, <3>3 DEF Results, Sees, Excused
    <3> QED
      BY <3>2, <3>3
  <2>2. \A t \in Scans, q \in Providers : Excused(t, q) => Excused(t, q)'
    BY <1>1 DEF Return, TypeOK, Excused
  <2>3. m.val # "silent" => p \in found'[s]
    BY <1>1 DEF TypeOK
  <2>4. \A t \in Scans : found[t] \subseteq found'[t]
    BY <1>1 DEF TypeOK
  <2>5. \A t \in Scans : Selected(t, 1)' = Selected(t, 1) /\ Selected(t, 1) \subseteq Providers
    BY DEF Return, Selected, TypeOK
  <2> QED
    BY <2>1, <2>2, <2>3, <2>4, <2>5 DEF Return, TypeOK, Accounted, Merging, Storing
<1> QED
  BY <1>5, <1>6, <1>7, <1>8, <1>9

LEMMA MergeInv ==
    ASSUME FanOutInv, NEW s \in Scans, Merge(s)
    PROVE  FanOutInv'
<1> USE DEF FanOutInv
<1>1. \A p \in Providers : Heard(s, p) \subseteq {"clear", "flag"}
  BY DEF Heard, TypeOK, Messages
<1>2. \A p \in Providers :
        Heard(s, p) # {} => (CHOOSE v \in Heard(s, p) : TRUE) \in {"clear", "flag"}
  BY <1>1
<1>3. \A p \in Providers :
        /\ Heard(s, p) = {} => facts'[s][p] = facts[s][p]
        /\ Heard(s, p) # {} =>
             /\ facts'[s][p] \in [val : {"clear", "flag"}, obs : {s}]
             /\ facts'[s][p].obs = s
             /\ facts'[s][p].val # "silent"
  BY <1>2 DEF Merge, TypeOK
<1>4. facts'[s] \in Report
  <2>1. \A p \in Providers : facts'[s][p] \in Facts
    <3>1. [val : {"clear", "flag"}, obs : {s}] \subseteq Facts
      BY DEF Facts, Scans
    <3>2. \A p \in Providers : facts[s][p] \in Facts
      BY DEF TypeOK, Report
    <3> QED
      BY <1>3, <3>1, <3>2
  <2> QED
    BY <2>1 DEF Merge, TypeOK, Report
<1>5. TypeOK'
  BY <1>4 DEF Merge, Goto, TypeOK, stored, sweeping, past, Steps
<1>6. ReadsAreRow' /\ ReportIsRevived'
  BY DEF Merge, Goto, TypeOK, stored, sweeping, past, ReadsAreRow, ReportIsRevived,
         Reading, Storing, Steps
<1>7. FoundIsKept'
  <2>1. ASSUME NEW p \in found[s]
        PROVE  facts'[s][p].obs = s
    <3>1. p \in Providers
      BY DEF TypeOK
    <3>2. CASE facts[s][p].obs = s
      BY <1>3, <3>1, <3>2
    <3>3. CASE \E m \in chan[s] : m.from = p /\ m.val # "silent"
      BY <1>3, <3>1, <3>3 DEF Heard
    <3> QED
      BY <3>2, <3>3 DEF FoundIsKept
  <2>2. ASSUME NEW t \in Scans, t # s
        PROVE  facts'[t] = facts[t] /\ pc'[t] = pc[t]
    BY <2>2 DEF Merge, Goto, TypeOK
  <2>3. found' = found /\ chan' = chan
    BY DEF Merge, past
  <2> QED
    BY <2>1, <2>2, <2>3 DEF FoundIsKept
<1>8. WalksAreWhole'
  BY DEF Merge, TypeOK, WalksAreWhole
<1>9. Accounted'
  <2>1. \A p \in Providers : facts[s][p].val # "silent" => facts'[s][p].val # "silent"
    BY <1>3
  <2>2. \A t \in Scans : Selected(t, 1)' = Selected(t, 1) /\ Selected(t, 1) \subseteq Providers
    BY DEF Merge, Selected, TypeOK
  <2> QED
    BY <2>1, <2>2 DEF Merge, Goto, TypeOK, past, Accounted, Merging, Storing, Excused
<1> QED
  BY <1>5, <1>6, <1>7, <1>8, <1>9

\* What Save stores is what a whole walk finds.
LEMMA SavedIsContent ==
    ASSUME FanOutInv, NEW s \in Scans, Save(s)
    PROVE  /\ analyses' = [d \in Digests |-> [p \in Cacheable |-> analyses'[d][p]]]
           /\ \A d \in Digests, p \in Cacheable :
                analyses'[d][p] \in {analyses[d][p], Content[d]}
<1> USE DEF FanOutInv
<1>1. PICK saved \in SUBSET Complete(s) :
        analyses' = [d \in Digests |->
            [p \in Cacheable |->
                IF \E m \in saved : m.from = p /\ req[s].digest = d
                THEN (CHOOSE m \in saved : m.from = p).val
                ELSE analyses[d][p]]]
  BY DEF Save
<1>2. ASSUME NEW d \in Digests, NEW p \in Cacheable
      PROVE  analyses'[d][p] \in {analyses[d][p], Content[d]}
  <2>1. CASE \E m \in saved : m.from = p /\ req[s].digest = d
    <3> DEFINE n == CHOOSE m \in saved : m.from = p
    <3>1. n \in saved /\ n.from = p
      BY <2>1
    <3>2. /\ n \in chan[s]
          /\ ~n.err
          /\ n.from \in NeedBytes
          /\ req[s].digest \notin Truncated
      BY <3>1 DEF Complete
    <3>3. n.val = Content[d]
      BY <2>1, <3>2 DEF WalksAreWhole
    <3> QED
      BY <1>1, <2>1, <3>3
  <2>2. CASE ~ \E m \in saved : m.from = p /\ req[s].digest = d
    BY <1>1, <2>2
  <2> QED
    BY <2>1, <2>2
<1> QED
  BY <1>1, <1>2

LEMMA SaveInv ==
    ASSUME FanOutInv, NEW s \in Scans, Save(s)
    PROVE  FanOutInv'
<1> USE DEF FanOutInv
<1>1. analyses' \in [Digests -> [Cacheable -> {"clear", "flag", None}]]
  <2>1. ASSUME NEW d \in Digests, NEW p \in Cacheable
        PROVE  analyses'[d][p] \in {"clear", "flag", None}
    <3>1. Content[d] \in {"clear", "flag"}
      OBVIOUS
    <3>2. analyses[d][p] \in {"clear", "flag", None}
      BY DEF TypeOK
    <3> QED
      BY <3>1, <3>2, SavedIsContent
  <2>2. analyses' = [d \in Digests |-> [p \in Cacheable |-> analyses'[d][p]]]
    BY SavedIsContent
  <2> QED
    BY <2>1, <2>2
<1>2. TypeOK'
  BY <1>1 DEF Save, Goto, TypeOK, stored, sweeping, past, Steps
<1>3. ReadsAreRow' /\ ReportIsRevived' /\ FoundIsKept' /\ WalksAreWhole'
  BY DEF Save, Goto, TypeOK, stored, sweeping, past, ReadsAreRow, ReportIsRevived,
         FoundIsKept, WalksAreWhole, Reading, Storing, Steps
<1>4. Accounted'
  BY DEF Save, Goto, TypeOK, past, Accounted, Merging,
         Storing, Selected, Excused
<1> QED
  BY <1>2, <1>3, <1>4

LEMMA NextStageInv ==
    ASSUME FanOutInv, NEW s \in Scans, NextStage(s)
    PROVE  FanOutInv'
<1> USE DEF FanOutInv
<1>1. TypeOK'
  <2> DEFINE Typed == /\ stage' \in [Scans -> 1..LastStage]
                      /\ todo' \in [Scans -> SUBSET Providers]
  <2>1. ASSUME UNCHANGED <<stage, todo>> PROVE Typed
    BY <2>1 DEF TypeOK
  <2>2. ASSUME /\ stage[s] # LastStage
               /\ stage' = [stage EXCEPT ![s] = @ + 1]
               /\ todo' = [todo EXCEPT ![s] = Selected(s, stage[s] + 1)]
        PROVE  Typed
    <3>1. Selected(s, stage[s] + 1) \subseteq Providers
      BY DEF Selected, TypeOK
    <3>2. stage[s] + 1 \in 1..LastStage
      <4>1. stage[s] \in 1..LastStage /\ LastStage \in Nat
        BY DEF TypeOK
      <4> QED
        BY <2>2, <4>1
    <3>3. stage \in [Scans -> 1..LastStage] /\ todo \in [Scans -> SUBSET Providers]
      BY DEF TypeOK
    <3> QED
      BY <2>2, <3>1, <3>2, <3>3
  <2>4. Typed
    <3> HIDE DEF Typed
    <3> QED
      BY <2>1, <2>2 DEF NextStage
  <2>3. chan' \in [Scans -> SUBSET Messages] /\ pc' \in [Scans -> Steps]
    BY DEF NextStage, Goto, TypeOK, Steps
  <2> QED
    BY <2>3, <2>4 DEF NextStage, TypeOK, stored, sweeping, past
<1>2. ReadsAreRow' /\ ReportIsRevived'
  BY DEF NextStage, Goto, TypeOK, stored, sweeping, past, ReadsAreRow,
         ReportIsRevived, Reading, Storing, Steps
<1>3. FoundIsKept'
  <2>1. facts' = facts /\ found' = found /\ pc[s] = "next"
    BY DEF NextStage, past
  <2>2. \A t \in Scans : t # s => pc'[t] = pc[t] /\ chan'[t] = chan[t]
    BY DEF NextStage, Goto, TypeOK
  <2> QED
    BY <2>1, <2>2 DEF FoundIsKept
<1>4. WalksAreWhole'
  BY DEF NextStage, TypeOK, WalksAreWhole, Selected
<1>5. Accounted'
  <2>1. /\ facts' = facts /\ found' = found
        /\ pc[s] = "next" /\ pc'[s] \in {"evaluate", "run"}
        /\ pc'[s] = "evaluate" => todo'[s] = todo[s]
    BY DEF NextStage, Goto, TypeOK, past
  <2>2. \A t \in Scans : t # s => pc'[t] = pc[t] /\ todo'[t] = todo[t]
    BY DEF NextStage, Goto, TypeOK
  <2>3. \A t \in Scans, p \in Providers : Excused(t, p)' = Excused(t, p)
    BY DEF NextStage, Excused
  <2>4. \A t \in Scans : Selected(t, 1)' = Selected(t, 1) /\ Selected(t, 1) \subseteq Providers
    BY DEF NextStage, Selected, TypeOK
  <2> QED
    BY <2>1, <2>2, <2>3, <2>4 DEF Accounted, Merging, Storing
<1> QED
  BY <1>1, <1>2, <1>3, <1>4, <1>5

LEMMA EvaluateInv ==
    ASSUME FanOutInv, NEW s \in Scans, Evaluate(s)
    PROVE  FanOutInv'
<1> USE DEF FanOutInv
<1>1. /\ facts'[s] = Revived(s) /\ facts'[s] \in Report
      /\ verdict'[s] = Evaluation(Revived(s))
      /\ pc[s] = "evaluate" /\ pc'[s] = "upsert"
  BY RevivedType DEF Evaluate, Goto, TypeOK
<1>2. \A t \in Scans : t # s =>
        facts'[t] = facts[t] /\ verdict'[t] = verdict[t] /\ pc'[t] = pc[t] /\ prior'[t] = prior[t]
  BY DEF Evaluate, Goto, TypeOK
<1>3. TypeOK'
  <2>1. Evaluation(Revived(s)) \in [Providers -> Values]
    BY RevivedType, EvaluationType
  <2>2. facts' \in [Scans -> Report] /\ verdict' \in [Scans -> [Providers -> Values]]
    BY <2>1, RevivedType DEF Evaluate, TypeOK
  <2> QED
    BY <2>2 DEF Evaluate, Goto, TypeOK, stored, sweeping, past, Steps
<1>4. ReadsAreRow'
  BY <1>1, <1>2 DEF Evaluate, stored, sweeping, past, ReadsAreRow, Reading, Storing
<1>5. \A p \in Providers : facts[s][p].val # "silent" => facts'[s][p] = facts[s][p]
  <2>1. ASSUME NEW p \in Providers, facts[s][p].val # "silent", prior[s] # None
        PROVE  Revived(s)[p] = facts[s][p]
    <3>1. facts[s][p] \in Facts /\ prior[s][p] \in Facts
      BY <2>1 DEF TypeOK, Report
    <3> QED
      BY <2>1, <3>1, CarryType DEF Revived
  <2> QED
    BY <1>1, <2>1 DEF Revived
<1>6. ReportIsRevived'
  <2>1. verdict'[s] = Evaluation(facts'[s])
    BY <1>1
  <2>2. ASSUME readAt[s] = writes, row # None, NEW p \in Sticky
        PROVE  Carry(p, facts'[s][p], row.facts[p]) = facts'[s][p]
    <3>1. prior[s] = row.facts /\ prior[s] # None
      BY <1>1, <2>2 DEF ReadsAreRow, Reading, Storing, TypeOK, Rows
    <3>2. facts'[s][p] = Carry(p, facts[s][p], row.facts[p])
      BY <1>1, <3>1 DEF Revived
    <3>3. facts[s][p] \in Facts /\ row.facts[p] \in Facts
      BY <2>2, <3>1 DEF TypeOK, Report, Rows
    <3> QED
      BY <3>2, <3>3, CarryIdempotent
  <2>3. row' = row /\ readAt' = readAt /\ writes' = writes
    BY DEF Evaluate, stored, past
  <2>4. ASSUME NEW t \in Scans, pc'[t] \in Storing
        PROVE  /\ verdict'[t] = Evaluation(facts'[t])
               /\ readAt[t] = writes /\ row # None =>
                    \A p \in Sticky :
                        Carry(p, facts'[t][p], row.facts[p]) = facts'[t][p]
    <3>1. CASE t = s
      BY <2>1, <2>2, <3>1
    <3>2. CASE t # s
      BY <1>2, <2>4, <3>2 DEF ReportIsRevived
    <3> QED
      BY <3>1, <3>2
  <2> QED
    BY <2>3, <2>4 DEF ReportIsRevived, Evaluation, Carry
<1>7. FoundIsKept'
  <2>1. ASSUME NEW p \in found[s] PROVE facts'[s][p].obs = s
    <3>1. p \in Providers /\ facts[s][p] \in Facts
      BY DEF TypeOK, Report
    <3>2. facts[s][p].obs = s
      BY <1>1 DEF FoundIsKept
    <3> QED
      BY <1>5, <3>1, <3>2, SeenHasValue
  <2>2. found' = found /\ chan' = chan
    BY DEF Evaluate, past
  <2> QED
    BY <1>1, <1>2, <2>1, <2>2 DEF FoundIsKept
<1>8. WalksAreWhole'
  BY DEF Evaluate, WalksAreWhole
<1>9. Accounted'
  <2>1. todo' = todo /\ found' = found
    BY DEF Evaluate, past
  <2>2. \A t \in Scans, p \in Providers : Excused(t, p)' = Excused(t, p)
    BY DEF Evaluate, Excused
  <2>3. \A t \in Scans : Selected(t, 1)' = Selected(t, 1) /\ Selected(t, 1) \subseteq Providers
    BY DEF Evaluate, Selected, TypeOK
  <2> QED
    BY <1>1, <1>2, <1>5, <2>1, <2>2, <2>3 DEF Accounted, Merging, Storing
<1> QED
  BY <1>3, <1>4, <1>6, <1>7, <1>8, <1>9

\* Storing a report that was completed with this row and evaluated leaves the
\* columns and the report of the row in agreement.
LEMMA UpsertAgrees ==
    ASSUME NEW next \in Report,
           \A p \in Sticky : Carry(p, next[p], row.facts[p]) = next[p]
    PROVE  \A p \in Sticky : Merged(next)[p] = next[p]
BY DEF Merged

\* A write makes the row newer than everything that was read before it.
LEMMA DoneInv ==
    ASSUME FanOutInv, NEW s \in Scans, pc[s] \in Storing, Done(s),
           UNCHANGED <<sweeping, analyses>>,
           row' \in Rows \cup {None},
           lapses' \in SUBSET {"raced", "blind", "unlocked"},
           \/ writes' = writes + 1
           \/ row' = row /\ writes' = writes
    PROVE  FanOutInv'
<1> USE DEF FanOutInv
<1>1. /\ writes' \in Nat
      /\ writes' = writes => row' = row
      /\ writes <= writes'
  BY DEF TypeOK
<1>2. /\ pc'[s] = "done" /\ facts'[s] = Blank /\ found'[s] = {} /\ readAt'[s] = None
      /\ \A t \in Scans : t # s =>
            /\ pc'[t] = pc[t] /\ facts'[t] = facts[t] /\ verdict'[t] = verdict[t]
            /\ found'[t] = found[t] /\ readAt'[t] = readAt[t]
            /\ tripped'[t] = tripped[t] /\ expired'[t] = expired[t]
      /\ UNCHANGED <<req, todo, chan, prior, sweep, sweeps, sweptAt, analyses>>
  BY DEF Done, Goto, TypeOK, sweeping
<1>3. TypeOK'
  <2>1. Evaluation(Blank) \in [Providers -> Values]
    BY BlankType, EvaluationType
  <2>2. facts' \in [Scans -> Report] /\ verdict' \in [Scans -> [Providers -> Values]]
    BY <2>1, BlankType DEF Done, TypeOK
  <2>3. /\ pc' \in [Scans -> Steps] /\ found' \in [Scans -> SUBSET Providers]
        /\ readAt' \in [Scans -> Nat \cup {None}]
        /\ stage' \in [Scans -> 1..LastStage]
        /\ tripped' \in [Scans -> BOOLEAN] /\ expired' \in [Scans -> BOOLEAN]
    BY DEF Done, Goto, TypeOK, Steps
  <2> QED
    BY <1>1, <1>2, <2>2, <2>3 DEF TypeOK
<1>4. ReadsAreRow'
  <2>1. ASSUME NEW t \in Scans, readAt'[t] # None
        PROVE  readAt'[t] <= writes' /\ pc'[t] \in Reading \cup Storing
    <3>1. t # s /\ readAt'[t] = readAt[t] /\ pc'[t] = pc[t]
      BY <1>2, <2>1
    <3>2. /\ readAt[t] <= writes /\ pc[t] \in Reading \cup Storing
          /\ readAt[t] \in Nat /\ writes \in Nat
      BY <2>1, <3>1 DEF ReadsAreRow, TypeOK
    <3> QED
      BY <1>1, <3>1, <3>2
  <2>2. ASSUME NEW t \in Scans, pc'[t] \in Reading, readAt'[t] = writes'
        PROVE  prior'[t] = IF row' = None THEN None ELSE row'.facts
    <3>1. t # s
      BY <1>2, <2>2 DEF Reading
    <3>2. readAt[t] = writes' /\ readAt[t] # None
      BY <1>1, <1>2, <2>2, <3>1
    <3>3. readAt[t] <= writes /\ writes \in Nat
      BY <3>2 DEF ReadsAreRow, TypeOK
    <3>4. row' = row /\ writes' = writes
      BY <1>1, <3>2, <3>3
    <3> QED
      BY <1>2, <2>2, <3>1, <3>4 DEF ReadsAreRow
  <2>3. sweptAt' <= writes'
    BY <1>1, <1>2 DEF ReadsAreRow, TypeOK
  <2>4. ASSUME sweep' # None, sweptAt' = writes'
        PROVE  row' # None /\ sweep' = row'.facts
    <3>1. sweptAt <= writes /\ writes \in Nat /\ sweptAt = writes'
      BY <1>2, <2>4 DEF ReadsAreRow, TypeOK
    <3>2. row' = row /\ writes' = writes
      BY <1>1, <3>1
    <3> QED
      BY <1>2, <2>4, <3>2 DEF ReadsAreRow
  <2> QED
    BY <2>1, <2>2, <2>3, <2>4 DEF ReadsAreRow
<1>5. ReportIsRevived'
  <2>1. ASSUME NEW t \in Scans, pc'[t] \in Storing
        PROVE  /\ verdict'[t] = Evaluation(facts'[t])
               /\ readAt'[t] = writes' /\ row' # None =>
                    \A p \in Sticky :
                        Carry(p, facts'[t][p], row'.facts[p]) = facts'[t][p]
    <3>1. t # s
      BY <1>2, <2>1 DEF Storing
    <3>2. readAt'[t] = writes' => row' = row /\ writes' = writes
      <4>1. writes \in Nat /\ (readAt[t] # None => readAt[t] <= writes)
        BY DEF ReadsAreRow, TypeOK
      <4>2. readAt[t] = writes' => writes' = writes
        BY <1>1, <4>1
      <4> QED
        BY <1>1, <1>2, <3>1, <4>2
    <3> QED
      BY <1>2, <2>1, <3>1, <3>2 DEF ReportIsRevived
  <2> QED
    BY <2>1 DEF ReportIsRevived, Evaluation, Carry
<1>6. FoundIsKept' /\ WalksAreWhole'
  BY <1>2 DEF FoundIsKept, WalksAreWhole, Storing
<1>7. Accounted'
  <2>1. \A t \in Scans : Selected(t, 1)' = Selected(t, 1)
    BY <1>2 DEF Selected
  <2>2. \A t \in Scans, p \in Providers : t # s => Excused(t, p)' = Excused(t, p)
    BY <1>2 DEF Excused
  <2>3. \A t \in Scans : Selected(t, 1) \subseteq Providers
    BY DEF Selected, TypeOK
  <2> QED
    BY <1>2, <2>1, <2>2, <2>3 DEF Accounted, Merging, Storing
<1> QED
  BY <1>3, <1>4, <1>5, <1>6, <1>7

LEMMA PersistInv ==
    ASSUME FanOutInv, NEW s \in Scans, Persist(s)
    PROVE  FanOutInv'
<1>1. /\ TypeOK /\ pc[s] \in Storing /\ Done(s) /\ UNCHANGED <<sweeping, analyses>>
      /\ facts[s] \in Report /\ verdict[s] \in [Providers -> Values]
  BY DEF FanOutInv, TypeOK, Persist, Storing
<1>2. CASE Upsert(facts[s], verdict[s], Lapses(readAt[s]))
  <2>1. Merged(facts[s]) \in Report
    BY <1>1, <1>2, MergedType DEF Upsert
  <2>2. (facts[s][Malware].val = "flag") \in BOOLEAN
    OBVIOUS
  <2>3. row' \in Rows
    BY <1>1, <1>2, <2>1, <2>2 DEF Upsert, Write, Rows
  <2>4. writes' = writes + 1 /\ lapses' \in SUBSET {"raced", "blind", "unlocked"}
    BY <1>2 DEF Upsert, Write, Lapses
  <2> QED
    BY <1>1, <2>3, <2>4, DoneInv
<1>3. CASE UNCHANGED stored
  BY <1>1, <1>3, DoneInv DEF stored, TypeOK
<1> QED
  BY <1>2, <1>3 DEF Persist

LEMMA FindNoRowInv ==
    ASSUME FanOutInv, NEW s \in Scans, FindNoRow(s)
    PROVE  FanOutInv'
<1> USE DEF FanOutInv
<1>1. TypeOK'
  BY DEF FindNoRow, Goto, TypeOK, stored, sweeping, past, Steps
<1>2. ReadsAreRow' /\ FoundIsKept' /\ WalksAreWhole'
  BY DEF FindNoRow, Goto, TypeOK, stored, sweeping, past, ReadsAreRow, FoundIsKept,
         WalksAreWhole, Reading, Storing
<1>3. ReportIsRevived'
  BY DEF FindNoRow, Goto, TypeOK, stored, sweeping, past, ReportIsRevived, Storing,
         Evaluation, Carry
<1>4. Accounted'
  BY DEF FindNoRow, Goto, TypeOK, past, Accounted, Merging, Storing, Selected,
         Excused
<1> QED
  BY <1>1, <1>2, <1>3, <1>4

LEMMA InsertInv ==
    ASSUME FanOutInv, NEW s \in Scans, Insert(s)
    PROVE  FanOutInv'
<1>1. /\ TypeOK /\ pc[s] \in Storing /\ Done(s) /\ UNCHANGED <<sweeping, analyses>>
      /\ facts[s] \in Report /\ verdict[s] \in [Providers -> Values]
  BY DEF FanOutInv, TypeOK, Insert, Storing
<1>2. CASE Write(facts[s], facts[s], verdict[s],
                 Lapses(readAt[s]) \cup {l \in {"unlocked"} : row # None})
  <2>1. (facts[s][Malware].val = "flag") \in BOOLEAN
    OBVIOUS
  <2>2. row' \in Rows
    BY <1>1, <1>2, <2>1 DEF Write, Rows
  <2>3. writes' = writes + 1 /\ lapses' \in SUBSET {"raced", "blind", "unlocked"}
    BY <1>2 DEF Write, Lapses
  <2> QED
    BY <1>1, <2>2, <2>3, DoneInv
<1>3. CASE UNCHANGED stored
  BY <1>1, <1>3, DoneInv DEF stored, TypeOK
<1> QED
  BY <1>2, <1>3 DEF Insert

LEMMA DeadlineInv ==
    ASSUME FanOutInv, NEW s \in Scans, Deadline(s)
    PROVE  FanOutInv'
<1> USE DEF FanOutInv
<1>1. TypeOK'
  BY DEF Deadline, TypeOK, stored, sweeping, past
<1>2. ReadsAreRow' /\ ReportIsRevived' /\ FoundIsKept' /\ WalksAreWhole'
  BY DEF Deadline, stored, sweeping, past, ReadsAreRow, ReportIsRevived,
         FoundIsKept, WalksAreWhole, Evaluation, Carry
<1>3. Accounted'
  <2>1. \A t \in Scans, p \in Providers : Excused(t, p) => Excused(t, p)'
    BY DEF Deadline, TypeOK, Excused
  <2>2. \A t \in Scans : Selected(t, 1)' = Selected(t, 1) /\ Selected(t, 1) \subseteq Providers
    BY DEF Deadline, Selected, TypeOK
  <2> QED
    BY <2>1, <2>2 DEF Deadline, past, Accounted, Merging, Storing
<1> QED
  BY <1>1, <1>2, <1>3

LEMMA SweepReadInv ==
    ASSUME FanOutInv, SweepRead
    PROVE  FanOutInv'
<1> USE DEF FanOutInv
<1>1. TypeOK'
  BY DEF SweepRead, TypeOK, stored, scan, past, Rows
<1>2. ReadsAreRow' /\ ReportIsRevived' /\ FoundIsKept' /\ WalksAreWhole'
  BY DEF SweepRead, TypeOK, stored, scan, past, ReadsAreRow, ReportIsRevived,
         FoundIsKept, WalksAreWhole, Evaluation, Carry
<1>3. Accounted'
  BY DEF SweepRead, scan, past, Accounted, Merging,
         Storing, Selected, Excused
<1> QED
  BY <1>1, <1>2, <1>3

LEMMA SweepWriteInv ==
    ASSUME FanOutInv, SweepWrite
    PROVE  FanOutInv'
<1> USE DEF FanOutInv
<1>0. sweep \in Report /\ sweep' = None
  BY DEF TypeOK, SweepWrite
<1>1. /\ row' \in Rows \cup {None}
      /\ lapses' \in SUBSET {"raced", "blind", "unlocked"}
      /\ writes' \in Nat /\ sweeps' \in Nat
      /\ writes <= writes'
      /\ (row' = row /\ writes' = writes) \/ writes' = writes + 1
  <2>1. CASE Upsert(sweep, Evaluation(sweep), Lapses(sweptAt)) /\ sweeps' = sweeps + 1
    <3>1. Merged(sweep) \in Report
      BY <1>0, <2>1, MergedType DEF Upsert
    <3>2. Evaluation(sweep) \in [Providers -> Values]
      BY <1>0, EvaluationType
    <3>3. (sweep[Malware].val = "flag") \in BOOLEAN
      OBVIOUS
    <3>4. row' \in Rows
      BY <2>1, <3>1, <3>2, <3>3 DEF Upsert, Write, Rows
    <3>5. writes \in Nat /\ writes' = writes + 1 /\ sweeps' \in Nat
      BY <2>1 DEF Upsert, Write, TypeOK
    <3> QED
      BY <2>1, <3>4, <3>5 DEF Upsert, Write, Lapses
  <2>2. CASE UNCHANGED <<stored, sweeps>>
    BY <2>2 DEF stored, TypeOK
  <2> QED
    BY <2>1, <2>2 DEF SweepWrite
<1>2. TypeOK'
  BY <1>0, <1>1 DEF SweepWrite, scan, past, TypeOK
<1>3. /\ UNCHANGED <<pc, req, todo, chan, tripped, expired, prior, facts, verdict,
                     readAt, found, sweptAt>>
  BY DEF SweepWrite, scan, past
<1>4. ASSUME NEW t \in Scans, readAt[t] = writes' PROVE row' = row /\ writes' = writes
  <2>1. writes \in Nat /\ (readAt[t] # None => readAt[t] <= writes)
    BY DEF ReadsAreRow, TypeOK
  <2> QED
    BY <1>1, <1>4, <2>1
<1>5. ReadsAreRow'
  <2>1. \A t \in Scans : readAt[t] # None =>
          readAt[t] <= writes' /\ pc[t] \in Reading \cup Storing
    BY <1>1 DEF ReadsAreRow, TypeOK
  <2>2. sweptAt <= writes'
    BY <1>1 DEF ReadsAreRow, TypeOK
  <2> QED
    BY <1>0, <1>3, <1>4, <2>1, <2>2 DEF ReadsAreRow
<1>6. ReportIsRevived'
  <2>1. ASSUME NEW t \in Scans, pc[t] \in Storing, readAt[t] = writes', row' # None,
               NEW p \in Sticky
        PROVE  Carry(p, facts[t][p], row'.facts[p]) = facts[t][p]
    BY <1>4, <2>1 DEF ReportIsRevived
  <2>2. \A t \in Scans : pc[t] \in Storing => verdict[t] = Evaluation(facts[t])
    BY DEF ReportIsRevived
  <2> QED
    BY <1>3, <2>1, <2>2 DEF ReportIsRevived, Evaluation, Carry
<1>7. FoundIsKept' /\ WalksAreWhole'
  BY <1>3 DEF FoundIsKept, WalksAreWhole
<1>8. Accounted'
  BY <1>3 DEF Accounted, Merging,
         Storing, Selected, Excused
<1> QED
  BY <1>2, <1>5, <1>6, <1>7, <1>8

LEMMA NextInv == FanOutInv /\ [Next]_vars => FanOutInv'
<1> SUFFICES ASSUME FanOutInv, [Next]_vars PROVE FanOutInv'
  OBVIOUS
<1>1. ASSUME NEW s \in Scans, Begin(s) PROVE FanOutInv'
  BY <1>1, BeginInv
<1>2. ASSUME NEW s \in Scans, Step(s) PROVE FanOutInv'
  BY <1>2, ReuseInv, ReadPriorInv, MergeInv, SaveInv, NextStageInv, EvaluateInv,
     PersistInv, FindNoRowInv, InsertInv, ReturnInv DEF Step
<1>3. ASSUME NEW s \in Scans, Deadline(s) PROVE FanOutInv'
  BY <1>3, DeadlineInv
<1>4. CASE SweepRead
  BY <1>4, SweepReadInv
<1>5. CASE SweepWrite
  BY <1>5, SweepWriteInv
<1>6. CASE UNCHANGED vars
  BY <1>6 DEF vars, FanOutInv, TypeOK, ReadsAreRow, ReportIsRevived, FoundIsKept,
              WalksAreWhole, Accounted, Merging,
         Storing, Selected, Excused, Evaluation, Carry
<1> QED
  BY <1>1, <1>2, <1>3, <1>4, <1>5, <1>6 DEF Next

-----------------------------------------------------------------------------
(* The theorems *)

\* The bookkeeping of overlapping scans is consistent in every reachable state:
\* types, what was read against what is stored, and what providers returned.
THEOREM Invariant == Spec => []FanOutInv
BY InitInv, NextInv, PTL DEF Spec

\* A step writes the row for a scan, for the sweep or not at all.
LEMMA WhoWrites ==
    ASSUME FanOutInv, [Next]_vars
    PROVE  \/ UNCHANGED stored
           \/ \E s \in Scans :
                /\ Persist(s)
                /\ Upsert(facts[s], verdict[s], Lapses(readAt[s]))
           \/ \E s \in Scans :
                /\ Insert(s)
                /\ Write(facts[s], facts[s], verdict[s],
                         Lapses(readAt[s]) \cup {l \in {"unlocked"} : row # None})
           \/ SweepWrite /\ Upsert(sweep, Evaluation(sweep), Lapses(sweptAt))
<1>1. ASSUME NEW s \in Scans, Begin(s) PROVE UNCHANGED stored
  BY <1>1 DEF Begin
<1>2. ASSUME NEW s \in Scans, Deadline(s) PROVE UNCHANGED stored
  BY <1>2 DEF Deadline
<1>3. ASSUME NEW s \in Scans, Step(s), ~Persist(s), ~Insert(s)
      PROVE  UNCHANGED stored
  BY <1>3 DEF Step, Reuse, ReadPrior, Merge, Save, NextStage, Evaluate, Return,
              FindNoRow
<1>4. ASSUME NEW s \in Scans, Persist(s)
      PROVE  UNCHANGED stored \/ Upsert(facts[s], verdict[s], Lapses(readAt[s]))
  BY <1>4 DEF Persist
<1>8. ASSUME NEW s \in Scans, Insert(s)
      PROVE  \/ UNCHANGED stored
             \/ Write(facts[s], facts[s], verdict[s],
                      Lapses(readAt[s]) \cup {l \in {"unlocked"} : row # None})
  BY <1>8 DEF Insert
<1>5. CASE SweepRead
  BY <1>5 DEF SweepRead
<1>6. CASE SweepWrite
  BY <1>6 DEF SweepWrite
<1>7. CASE UNCHANGED vars
  BY <1>7 DEF vars, stored
<1> QED
  BY <1>1, <1>2, <1>3, <1>4, <1>5, <1>6, <1>7, <1>8 DEF Next

\* Nothing went wrong under a write only if the row was read as it was replaced.
LEMMA NoLapse ==
    ASSUME NEW read, Lapses(read) = {}
    PROVE  read = writes
BY DEF Lapses

LEMMA AgreeStep ==
    ASSUME FanOutInv, ColumnsAgree, [Next]_vars
    PROVE  ColumnsAgree'
<1> USE DEF FanOutInv
<1>1. CASE UNCHANGED stored
  BY <1>1 DEF stored, ColumnsAgree
<1>2. ASSUME NEW s \in Scans, Persist(s),
             Upsert(facts[s], verdict[s], Lapses(readAt[s]))
      PROVE  ColumnsAgree'
  <2>1. SUFFICES ASSUME lapses' = {}
                 PROVE  /\ \A p \in Sticky : row'.facts[p].val = row'.verdict[p]
                        /\ row'.malicious <=> row'.facts[Malware].val = "flag"
    BY DEF ColumnsAgree
  <2>2. readAt[s] = writes /\ row # None
    BY <1>2, <2>1, NoLapse DEF Upsert, Write
  <2>3. facts[s] \in Report /\ pc[s] = "upsert"
    BY <1>2 DEF TypeOK, Persist
  <2>4. \A p \in Sticky : Merged(facts[s])[p] = facts[s][p]
    BY <2>2, <2>3, UpsertAgrees DEF ReportIsRevived, Storing
  <2>5. \A p \in Sticky : verdict[s][p] = facts[s][p].val
    <3>1. verdict[s] = Evaluation(facts[s])
      BY <2>3 DEF ReportIsRevived, Storing
    <3> QED
      BY <3>1 DEF Evaluation
  <2>6. /\ row'.facts = Merged(facts[s]) /\ row'.verdict = verdict[s]
        /\ row'.malicious = (facts[s][Malware].val = "flag")
    BY <1>2 DEF Upsert, Write
  <2>7. \A p \in Sticky : row'.facts[p].val = row'.verdict[p]
    BY <2>4, <2>5, <2>6
  <2>8. row'.facts[Malware] = facts[s][Malware]
    BY <2>4, <2>6
  <2> QED
    BY <2>6, <2>7, <2>8, Zenon
<1>3. ASSUME SweepWrite, Upsert(sweep, Evaluation(sweep), Lapses(sweptAt))
      PROVE  ColumnsAgree'
  <2>1. SUFFICES ASSUME lapses' = {}
                 PROVE  /\ \A p \in Sticky : row'.facts[p].val = row'.verdict[p]
                        /\ row'.malicious <=> row'.facts[Malware].val = "flag"
    BY DEF ColumnsAgree
  <2>2. sweptAt = writes
    BY <1>3, <2>1, NoLapse DEF Upsert, Write
  <2>3. sweep \in Report /\ sweep = row.facts /\ row # None
    BY <1>3, <2>2 DEF TypeOK, SweepWrite, ReadsAreRow
  <2>4. \A p \in Sticky : Merged(sweep)[p] = sweep[p]
    BY <2>3 DEF Merged, Carry
  <2>5. \A p \in Sticky : Evaluation(sweep)[p] = sweep[p].val
    BY DEF Evaluation
  <2>6. /\ row'.facts = Merged(sweep) /\ row'.verdict = Evaluation(sweep)
        /\ row'.malicious = (sweep[Malware].val = "flag")
    BY <1>3 DEF Upsert, Write
  <2>7. \A p \in Sticky : row'.facts[p].val = row'.verdict[p]
    BY <2>4, <2>5, <2>6
  <2>8. row'.facts[Malware] = sweep[Malware]
    BY <2>4, <2>6
  <2> QED
    BY <2>6, <2>7, <2>8, Zenon
<1>4. ASSUME NEW s \in Scans, Insert(s), NEW l,
             Write(facts[s], facts[s], verdict[s], l)
      PROVE  ColumnsAgree'
  <2>1. pc[s] \in Storing
    BY <1>4 DEF Insert, Storing
  <2>2. \A p \in Sticky : verdict[s][p] = facts[s][p].val
    <3>1. verdict[s] = Evaluation(facts[s])
      BY <2>1 DEF ReportIsRevived
    <3> QED
      BY <3>1 DEF Evaluation
  <2>3. /\ row'.facts = facts[s] /\ row'.verdict = verdict[s]
        /\ row'.malicious = (facts[s][Malware].val = "flag")
    BY <1>4 DEF Write
  <2>4. \A p \in Sticky : row'.facts[p].val = row'.verdict[p]
    BY <2>2, <2>3
  <2>5. row'.facts[Malware] = facts[s][Malware]
    BY <2>3
  <2>6. row'.malicious <=> row'.facts[Malware].val = "flag"
    BY <2>3, <2>5, Zenon
  <2> QED
    BY <2>4, <2>6 DEF ColumnsAgree
<1> QED
  BY <1>1, <1>2, <1>3, <1>4, WhoWrites

\* P8-71: the report, the verdict and the is_malicious column of a row agree on
\* every fact that is revived before the evaluation, whatever scans overlapped,
\* unless the row was replaced between the writer's read and its write or could
\* not be read.
THEOREM RowColumnsAgree == Spec => []ColumnsAgree
<1>1. Init => ColumnsAgree
  <2>1. ASSUME NEW old \in Stored,
               row = [facts |-> [p \in Providers |-> [val |-> old[p], obs |-> 0]],
                      verdict |-> old, malicious |-> old[Malware] = "flag"]
        PROVE  /\ \A p \in Sticky : row.facts[p].val = row.verdict[p]
               /\ row.malicious <=> row.facts[Malware].val = "flag"
    <3>1. \A p \in Sticky : row.facts[p].val = old[p] /\ row.verdict = old
      BY <2>1
    <3>2. row.malicious = (old[Malware] = "flag")
      BY <2>1
    <3>3. row.facts[Malware].val = old[Malware]
      BY <3>1
    <3>4. \A p \in Sticky : row.facts[p].val = row.verdict[p]
      BY <3>1
    <3> QED
      BY <3>2, <3>3, <3>4, Zenon
  <2> QED
    BY <2>1 DEF Init, ColumnsAgree
<1>2. FanOutInv /\ ColumnsAgree /\ [Next]_vars => ColumnsAgree'
  BY AgreeStep
<1> QED
  BY <1>1, <1>2, Invariant, PTL DEF Spec

LEMMA CompleteStep ==
    ASSUME FanOutInv, AnalysesAreComplete, [Next]_vars
    PROVE  AnalysesAreComplete'
<1>1. ASSUME NEW s \in Scans, Save(s) PROVE AnalysesAreComplete'
  <2>1. \A d \in Digests, p \in Cacheable :
          analyses'[d][p] \in {analyses[d][p], Content[d]}
    BY <1>1, SavedIsContent
  <2> QED
    BY <2>1 DEF AnalysesAreComplete
<1>2. ASSUME NEW s \in Scans, Begin(s) \/ Step(s) \/ Deadline(s), ~Save(s)
      PROVE  analyses' = analyses
  BY <1>2 DEF Begin, Step, Deadline, Reuse, ReadPrior, Merge, NextStage, Evaluate,
              Persist, Return, FindNoRow, Insert
<1>3. SweepRead \/ SweepWrite \/ UNCHANGED vars => analyses' = analyses
  BY DEF SweepRead, SweepWrite, vars
<1>4. analyses' = analyses => AnalysesAreComplete'
  BY DEF AnalysesAreComplete
<1> QED
  BY <1>1, <1>2, <1>3, <1>4 DEF Next

\* Whatever interrupts a walk of an artifact, the analyses that later scans of
\* the same bytes reuse are those of whole walks.
THEOREM StoredAnalysesAreComplete == Spec => []AnalysesAreComplete
<1>1. Init => AnalysesAreComplete
  BY DEF Init, AnalysesAreComplete
<1>2. FanOutInv /\ AnalysesAreComplete /\ [Next]_vars => AnalysesAreComplete'
  BY CompleteStep
<1> QED
  BY <1>1, <1>2, Invariant, PTL DEF Spec

\* The short-circuit of a stage costs no provider what it found before it.
THEOREM NoWorkIsLost == Spec => []WorkIsKept
<1>1. FanOutInv => WorkIsKept
  <2> SUFFICES ASSUME FanOutInv, NEW s \in Scans,
                      pc[s] \in Merging,
                      NEW p \in Selected(s, 1), facts[s][p].val = "silent"
               PROVE  p \notin found[s] /\ Excused(s, p)
    BY DEF WorkIsKept
  <2>1. p \in Providers /\ facts[s][p] \in Facts
    BY DEF FanOutInv, TypeOK, Selected, Report
  <2>2. p \notin found[s]
    <3>1. facts[s][p].obs # s
      BY <2>1, SeenHasValue
    <3> QED
      BY <3>1 DEF FanOutInv, FoundIsKept, Merging, Storing
  <2> QED
    BY <2>2 DEF FanOutInv, Accounted, Merging, Storing
<1> QED
  BY <1>1, Invariant, PTL

\* A stored fact survives every write that has nothing to say of it.
THEOREM SilenceIsNoWithdrawal == Spec => SilenceErasesNothing
<1> DEFINE Kept == row # None /\ "unlocked" \notin lapses' =>
              \A p \in Providers :
                  row.facts[p].val \notin {"silent", "bare"} =>
                      row'.facts[p].val # "silent"
<1>1. ASSUME FanOutInv, [Next]_vars PROVE [Kept]_row
  <2>1. ASSUME NEW next \in Report, row'.facts = Merged(next), row # None,
               NEW p \in Providers, row.facts[p].val \notin {"silent", "bare"}
        PROVE  row'.facts[p].val # "silent"
    <3>1. next[p] \in Facts /\ row.facts[p] \in Facts
      BY <1>1, <2>1 DEF FanOutInv, TypeOK, Rows, Report
    <3>2. row'.facts[p] = Carry(p, next[p], row.facts[p])
      BY <2>1 DEF Merged
    <3> QED
      BY <2>1, <3>1, <3>2, CarryType
  <2>2. CASE UNCHANGED stored
    BY <2>2 DEF stored
  <2>3. ASSUME NEW s \in Scans, Upsert(facts[s], verdict[s], Lapses(readAt[s]))
        PROVE  Kept
    <3>1. facts[s] \in Report /\ row'.facts = Merged(facts[s])
      BY <1>1, <2>3 DEF FanOutInv, TypeOK, Upsert, Write
    <3> QED
      BY <2>1, <3>1
  <2>4. ASSUME SweepWrite, Upsert(sweep, Evaluation(sweep), Lapses(sweptAt))
        PROVE  Kept
    <3>1. sweep \in Report /\ row'.facts = Merged(sweep)
      BY <1>1, <2>4 DEF FanOutInv, TypeOK, Upsert, Write, SweepWrite
    <3> QED
      BY <2>1, <3>1
  <2>5. ASSUME NEW s \in Scans,
               Write(facts[s], facts[s], verdict[s],
                     Lapses(readAt[s]) \cup {l \in {"unlocked"} : row # None})
        PROVE  Kept
    BY <2>5 DEF Write
  <2> HIDE DEF Kept
  <2> QED
    BY <1>1, <2>2, <2>3, <2>4, <2>5, WhoWrites
<1> QED
  BY <1>1, Invariant, PTL DEF Spec, SilenceErasesNothing

\* What a scan saw is what the row says once the scan has stored its report,
\* an explicit all-clear included.
THEOREM ObservationWins == Spec => SeenIsStored
<1> DEFINE Wins == \A s \in Scans :
              pc[s] \in Storing /\ pc'[s] = "done" /\ writes' # writes =>
                  \A p \in found[s] : row'.facts[p].obs = s
<1>1. ASSUME FanOutInv, [Next]_vars PROVE Wins
  <2> SUFFICES ASSUME NEW s \in Scans, pc[s] \in Storing, pc'[s] = "done",
                      writes' # writes, NEW p \in found[s]
               PROVE  row'.facts[p].obs = s
    OBVIOUS
  <2>1. \/ Upsert(facts[s], verdict[s], Lapses(readAt[s]))
        \/ \E l : Write(facts[s], facts[s], verdict[s], l)
    <3>1. ~SweepWrite
      BY <1>1 DEF SweepWrite, scan, FanOutInv, TypeOK, Storing
    <3>2. ASSUME NEW t \in Scans, Persist(t) \/ Insert(t) PROVE t = s
      BY <1>1, <3>2 DEF Persist, Insert, Done, Goto, FanOutInv, TypeOK, Storing
    <3>3. ~UNCHANGED stored
      BY DEF stored
    <3> QED
      BY <1>1, <3>1, <3>2, <3>3, WhoWrites
  <2>2. p \in Providers /\ facts[s] \in Report /\ facts[s][p] \in Facts
    BY <1>1 DEF FanOutInv, TypeOK, Report
  <2>3. facts[s][p].obs = s
    BY <1>1 DEF FanOutInv, FoundIsKept, Storing
  <2>4. facts[s][p].val # "silent"
    BY <2>2, <2>3, SeenHasValue
  <2>5. row # None => Merged(facts[s])[p] = facts[s][p]
    <3>1. row # None => row.facts[p] \in Facts
      BY <1>1, <2>2 DEF FanOutInv, TypeOK, Rows, Report
    <3> QED
      BY <2>2, <2>4, <3>1, CarryType DEF Merged
  <2>6. row'.facts[p] = facts[s][p]
    BY <2>1, <2>5 DEF Upsert, Write
  <2> QED
    BY <2>3, <2>6
<1> QED
  BY <1>1, Invariant, PTL DEF Spec, SeenIsStored

=============================================================================
