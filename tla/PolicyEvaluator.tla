--------------------------- MODULE PolicyEvaluator ---------------------------
(***************************************************************************)
(* policy.Evaluator.evaluatePolicies: the verdict of a set of policies on  *)
(* one request.  A policy is a record                                      *)
(*                                                                         *)
(*   rank    its place in the list, which is ordered by precedence         *)
(*   mode    the authored Mode                                             *)
(*   kind    "exception" (KindException) or "rule"                         *)
(*   scope   the clients it targets; {} is Scope.isEmpty                   *)
(*   cond    the condition it carries, one of Conds                        *)
(*   enabled Status = StatusEnabled                                        *)
(*   expires whether it has an expiry                                      *)
(*                                                                         *)
(* The ~50 conditions of matchesConditions are abstracted to the ones the  *)
(* control of the evaluator treats specially.  The rest of what a verdict  *)
(* depends on is a record of facts about the package and the moment.       *)
(***************************************************************************)
EXTENDS Naturals

Modes == {"allow", "block", "quarantine", "monitor", "block_after_grace"}

\* No condition, isKnownMalicious, isVulnerable, isKnownMalicious: false.
Conds == {"none", "malicious", "vulnerable", "clean"}

\* A policy list, as a set of policies with their places in it.
IsPolicyList(P) ==
    /\ \A p \in P : p.rank \in Nat /\ p.mode \in Modes
    /\ \A p, q \in P : p.rank = q.rank => p = q

\* malicious, vulnerable: the signals about the package.
\* undecided: conditions the ecosystem or a missing checksum leaves unpopulated.
\* late: the expiry of expiring exceptions has passed.
\* graceOn, inWindow, seenBefore: what grace mode asks.
Facts == [malicious : BOOLEAN, vulnerable : BOOLEAN, undecided : SUBSET Conds,
          late : BOOLEAN, graceOn : BOOLEAN, inWindow : BOOLEAN, seenBefore : BOOLEAN]

\* IsExpiredException: only an allow can expire.
IsExpiredException(p, f) == p.mode = "allow" /\ p.expires /\ f.late

\* detectUnsupported and detectChecksumUnavailable: a rule is skipped, not
\* failed, when its condition cannot be decided for this request.
Skipped(p, f) == p.cond \in f.undecided

matchesConditions(cond, f) ==
    CASE cond = "malicious"  -> f.malicious
      [] cond = "vulnerable" -> f.vulnerable
      [] cond = "clean"      -> ~f.malicious
      [] OTHER               -> TRUE

matchesScope(c, p) == p.scope = {} \/ c \in p.scope

\* An exception ignores its conditions, except that "clean" narrows it.
matchesPolicy(p, c, f) ==
    /\ matchesScope(c, p)
    /\ IF p.kind = "exception" THEN ~(p.cond = "clean" /\ f.malicious)
                               ELSE matchesConditions(p.cond, f)

\* block_after_grace: only a package seen before the policy, inside the
\* window, and neither malicious nor vulnerable, is let through.
resolveAction(p, f) ==
    IF p.mode # "block_after_grace" THEN p.mode
    ELSE IF /\ f.graceOn /\ ~f.malicious /\ ~f.vulnerable
            /\ f.inWindow /\ f.seenBefore
         THEN "monitor"
         ELSE "block"

Applies(p, c, f) ==
    /\ p.enabled
    /\ ~IsExpiredException(p, f)
    /\ ~Skipped(p, f)
    /\ matchesPolicy(p, c, f)

FirstOf(P) == CHOOSE p \in P : \A q \in P : p.rank <= q.rank

Verdict(p, f) == [action |-> resolveAction(p, f), policy |-> p.rank]

NoMatch == [action |-> "allow", policy |-> 0]

\* A mutant: every match is terminal, a monitor too.
FirstMatchWins(P, c, f) ==
    LET matched == {p \in P : Applies(p, c, f)}
    IN  IF matched = {} THEN NoMatch ELSE Verdict(FirstOf(matched), f)

\* The loop over the policies in order of precedence: a monitor match is
\* remembered and passed over, the first other match ends the walk, and an
\* allow that a monitor precedes leaves the monitor as the result.
evaluatePolicies(P, c, f) ==
    LET matched  == {p \in P : Applies(p, c, f)}
        monitors == {p \in matched : resolveAction(p, f) = "monitor"}
        others   == matched \ monitors
        watched  == IF monitors = {} THEN NoMatch ELSE Verdict(FirstOf(monitors), f)
    IN  IF others = {} THEN watched
        ELSE LET t == FirstOf(others)
             IN  IF /\ resolveAction(t, f) = "allow"
                    /\ \E m \in monitors : m.rank < t.rank
                 THEN watched
                 ELSE Verdict(t, f)

\* computePolicyMeta: what decides the shape of a cache key.
computePolicyMeta(P) ==
    {"scoped" : p \in {q \in P : q.enabled /\ q.scope # {}}}
      \cup {"grace" : p \in {q \in P : q.enabled /\ q.mode = "block_after_grace"}}

Denies(v) == v.action \in {"block", "quarantine"}

\* What evaluatePolicies promises, without walking the list.  "A monitor
\* match observes; it never switches off an enforcing rule ranked after it",
\* and an in-grace package can never bypass a malware or vulnerability block:
\* a request is denied exactly when some applicable rule enforces and no
\* applicable allow is ranked before it.
Enforces(p, f) ==
    \/ p.mode \in {"block", "quarantine"}
    \/ p.mode = "block_after_grace"
         /\ (f.malicious \/ f.vulnerable \/ ~f.graceOn \/ ~f.inWindow \/ ~f.seenBefore)

DeniedByReference(P, c, f) ==
    \E p \in P :
      /\ Applies(p, c, f) /\ Enforces(p, f)
      /\ \A q \in P : Applies(q, c, f) /\ q.mode = "allow" => p.rank < q.rank

=============================================================================
