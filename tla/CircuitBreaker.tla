--------------------------- MODULE CircuitBreaker ---------------------------
(***************************************************************************)
(* One circuit breaker (proxy/circuitbreaker.go) shared by the fetches of  *)
(* a repository.  A fetch asks Allow, is out for a while, and reports      *)
(* whatever it saw, possibly long after the breaker has changed state, or  *)
(* reports nothing.  Metrics and the freshness check call State() at any   *)
(* moment.                                                                 *)
(***************************************************************************)
EXTENDS Breaker

CONSTANT Fetches        \* the fetches that may be out at the same time

VARIABLES
    cb,         \* the breaker
    fetch,      \* fetch[f]: "idle", or "out" between Allow and its report
    upstream,   \* what a fetch meets: "up", "down", or "noise" (DNS, 429)
    probes      \* history: probes handed out since the slots were last free

vars == <<cb, fetch, upstream, probes>>

\* The history is only compared with numbers up to HalfOpenRequests + 1, so it
\* stops counting past that.
HistoryBound == HalfOpenRequests + 2

Saturate(n) == IF n < HistoryBound THEN n + 1 ELSE n

TypeOK ==
    /\ cb \in Breakers
    /\ fetch \in [Fetches -> {"idle", "out"}]
    /\ upstream \in {"up", "down", "noise"}
    /\ probes \in 0..HistoryBound

Init ==
    /\ cb = NewCircuitBreaker
    /\ fetch = [f \in Fetches |-> "idle"]
    /\ upstream = "up"
    /\ probes = 0

-----------------------------------------------------------------------------
\* fetchAndStore passes the breaker and goes upstream.  A refused Allow
\* changes nothing and is not a step.
Admit(f) ==
    /\ fetch[f] = "idle"
    /\ Allows(cb)
    /\ cb' = Allow(cb)
    /\ fetch' = [fetch EXCEPT ![f] = "out"]
    /\ probes' = IF cb.state = "open" \/ ReArms(cb) THEN 1
                 ELSE IF cb.state = "half-open" THEN Saturate(probes)
                 ELSE probes
    /\ UNCHANGED upstream

\* An upstream that answers: any status below 500 but 429.
Succeed(f) ==
    /\ fetch[f] = "out"
    /\ upstream = "up"
    /\ \E status \in {200, 404} : cb' = RecordStatus(cb, status)
    /\ fetch' = [fetch EXCEPT ![f] = "idle"]
    /\ UNCHANGED <<upstream, probes>>

\* An upstream that is down: a 5xx or a transport error.
Fail(f) ==
    /\ fetch[f] = "out"
    /\ upstream = "down"
    /\ cb' \in {RecordStatus(cb, 503), RecordNetworkFailure(cb, "conn")}
    /\ fetch' = [fetch EXCEPT ![f] = "idle"]
    /\ UNCHANGED <<upstream, probes>>

\* Outcomes the breaker ignores: a resolver error or a 429.
GoUnrecorded(f) ==
    /\ fetch[f] = "out"
    /\ upstream = "noise"
    /\ cb' \in {RecordStatus(cb, 429), RecordNetworkFailure(cb, "dns")}
    /\ fetch' = [fetch EXCEPT ![f] = "idle"]
    /\ UNCHANGED <<upstream, probes>>

\* State() from UpstreamTracker.Metrics or facet.upstreamReachable.
Observe ==
    /\ State(cb) # cb
    /\ cb' = State(cb)
    /\ probes' = 0
    /\ UNCHANGED <<fetch, upstream>>

Tick ==
    /\ Age(cb) # cb
    /\ cb' = Age(cb)
    /\ UNCHANGED <<fetch, upstream, probes>>

UpstreamChanges ==
    /\ upstream' \in {"up", "down", "noise"} \ {upstream}
    /\ UNCHANGED <<cb, fetch, probes>>

Next ==
    \/ \E f \in Fetches : Admit(f) \/ Succeed(f) \/ Fail(f) \/ GoUnrecorded(f)
    \/ Observe
    \/ Tick
    \/ UpstreamChanges

Spec == Init /\ [][Next]_vars

\* Clients keep asking, every fetch ends (its detached context has a
\* deadline), and time passes.
Fairness ==
    /\ WF_vars(Tick)
    /\ WF_vars(\E f \in Fetches : Admit(f))
    /\ \A f \in Fetches : WF_vars(Succeed(f) \/ Fail(f) \/ GoUnrecorded(f))

FairSpec == Spec /\ Fairness

-----------------------------------------------------------------------------
\* A closed circuit has seen fewer consecutive failures than the threshold:
\* no order of late reports leaves it closed over a full count.
ClosedBelowThreshold ==
    cb.state = "closed" => cb.consecutiveFail < FailureThreshold

\* A half-open circuit has had no failure for a whole ResetTimeout, however
\* it got there and whatever reports arrived since.
HalfOpenIsQuiet == cb.state = "half-open" => ResetElapsed(cb)

\* The half-open counters tie up: the slots spent never exceed the limit
\* while the circuit is half-open, and every probe out but one (the probe of
\* the Allow that opened the half-open state) holds a slot.
SlotAccounting ==
    cb.state = "half-open" =>
        /\ cb.halfOpenPassed <= HalfOpenRequests
        /\ probes <= cb.halfOpenPassed + 1

BreakerInv ==
    /\ TypeOK
    /\ ClosedBelowThreshold
    /\ HalfOpenIsQuiet
    /\ SlotAccounting

\* The breaker's purpose (CircuitBreaker.Allow): a fetch goes upstream only
\* if the circuit has fewer than FailureThreshold consecutive failures, or no
\* failure at all was recorded during the last ResetTimeout.
ShieldsUpstream ==
    [][\A f \in Fetches :
          fetch[f] = "idle" /\ fetch'[f] = "out" =>
              \/ cb.consecutiveFail < FailureThreshold /\ cb.state = "closed"
              \/ ResetElapsed(cb)]_vars

\* At most HalfOpenRequests + 1 probes are out before one reports or
\* ResetTimeout passes: the slots plus the uncounted first probe.
ProbeBudget == cb.state = "half-open" => probes <= HalfOpenRequests + 1

\* The breaker never refuses for good (the re-arm branch of Allow): whenever
\* every fetch is idle, some fetch is eventually let out.
NeverRefusesForever ==
    (\A f \in Fetches : fetch[f] = "idle") ~> (\E f \in Fetches : fetch[f] = "out")

\* Once the upstream is up for good the circuit closes for good, whatever
\* probes were lost and whatever reports were late before.
ClosesOnceHealthy ==
    <>[](upstream = "up") => <>[](cb.state = "closed")

=============================================================================
