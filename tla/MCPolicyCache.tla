---- MODULE MCPolicyCache ----
(* PolicyCache for TLC: the policies of a small org. *)
EXTENDS PolicyCache, TLC

CONSTANTS c1, c2

Rule(rank, mode, scope, cond) ==
    [rank |-> rank, mode |-> mode, kind |-> "rule", scope |-> scope, cond |-> cond,
     enabled |-> TRUE, expires |-> FALSE]

Exception(rank, scope, cond) ==
    [Rule(rank, "allow", scope, cond) EXCEPT !.kind = "exception", !.expires = TRUE]

\* An allow for one client ahead of a monitor and a block for everyone.
Exempt == Exception(1, {c1}, "clean")
Watch == Rule(2, "monitor", {}, "none")
Stop == Rule(3, "block", {}, "vulnerable")
Grace == Rule(4, "block_after_grace", {}, "none")

\* The first edit grants an exception; the second takes grace away.
Sequence(old, new) == [v \in 0..1 |-> IF v = 0 THEN old ELSE new]
MCScripts == {Sequence({Watch, Stop}, {Exempt, Watch, Stop}), Sequence({Grace, Watch}, {Stop})}

MCToday == [malicious |-> FALSE, vulnerable |-> TRUE, undecided |-> {}, late |-> FALSE,
            graceOn |-> TRUE, inWindow |-> TRUE, seenBefore |-> TRUE]

\* Up to three policies at ranks 1 to 3 of any mode, on packages good and bad.
At(rank) ==
    {{}} \cup {{Rule(rank, m, {}, c)} : m \in Modes, c \in {"none", "malicious", "vulnerable"}}
         \cup {{Exception(rank, s, c)} : s \in {{}, {c1}, {c2}}, c \in {"none", "clean"}}

MCLists == {P \cup Q \cup R : P \in At(1), Q \in At(2), R \in At(3)}

MCFactSets ==
    {f \in Facts : /\ f.undecided \in {{}, {"vulnerable"}}
                   /\ f.graceOn /\ (f.inWindow \/ f.seenBefore)}

====
