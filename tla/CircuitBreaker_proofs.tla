----------------------- MODULE CircuitBreaker_proofs -----------------------
(***************************************************************************)
(* The circuit breaker's safety for every threshold, reset timeout, number *)
(* of probe slots and set of fetches.                                      *)
(***************************************************************************)
EXTENDS CircuitBreaker, TLAPS

\* A status below 500 other than 429 is a success, and 429 is no outcome.
LEMMA StatusClasses ==
    ASSUME NEW b
    PROVE  /\ RecordStatus(b, 200) = RecordSuccess(b)
           /\ RecordStatus(b, 404) = RecordSuccess(b)
           /\ RecordStatus(b, 503) = RecordFailure(b)
           /\ RecordStatus(b, 429) = b
           /\ RecordNetworkFailure(b, "conn") = RecordFailure(b)
           /\ RecordNetworkFailure(b, "dns") = b
BY DEF RecordStatus, RecordNetworkFailure, IsDNSError

\* The initial state satisfies the inductive invariant.
LEMMA InitInv == Init => BreakerInv
BY BreakerAssumption
   DEF Init, BreakerInv, TypeOK, ClosedBelowThreshold, HalfOpenIsQuiet, SlotAccounting,
       NewCircuitBreaker, Breakers, CircuitState, HistoryBound

\* Every step preserves the inductive invariant, one step per action.
LEMMA NextInv == BreakerInv /\ [Next]_vars => BreakerInv'
<1> SUFFICES ASSUME BreakerInv, [Next]_vars PROVE BreakerInv'
    OBVIOUS
<1> USE BreakerAssumption DEF BreakerInv, TypeOK, ClosedBelowThreshold, HalfOpenIsQuiet,
        SlotAccounting, Breakers, CircuitState, ResetElapsed, HistoryBound, Saturate
<1>1. ASSUME NEW f \in Fetches, Admit(f) PROVE BreakerInv'
  <2>1. CASE cb.state = "closed"
    BY <1>1, <2>1 DEF Admit, Allow, ReArms
  <2>2. CASE cb.state = "open"
    BY <1>1, <2>2 DEF Admit, Allow, Allows, ReArms
  <2>3. CASE cb.state = "half-open"
    <3>1. CASE ReArms(cb)
      BY <1>1, <2>3, <3>1 DEF Admit, Allow
    <3>2. CASE ~ReArms(cb)
      BY <1>1, <2>3, <3>2 DEF Admit, Allow, Allows, ReArms
    <3> QED BY <3>1, <3>2
  <2> QED BY <2>1, <2>2, <2>3
<1>2. ASSUME NEW f \in Fetches, Succeed(f) PROVE BreakerInv'
  <2>1. cb' = RecordSuccess(cb)
    BY <1>2, StatusClasses DEF Succeed
  <2> QED BY <1>2, <2>1 DEF Succeed, RecordSuccess
<1>3. ASSUME NEW f \in Fetches, Fail(f) PROVE BreakerInv'
  <2>1. cb' = RecordFailure(cb)
    BY <1>3, StatusClasses DEF Fail
  <2> QED BY <1>3, <2>1 DEF Fail, RecordFailure, Counted
<1>4. ASSUME NEW f \in Fetches, GoUnrecorded(f) PROVE BreakerInv'
  <2>1. cb' = cb
    BY <1>4, StatusClasses DEF GoUnrecorded
  <2> QED BY <1>4, <2>1 DEF GoUnrecorded
<1>5. CASE Observe
  BY <1>5 DEF Observe, State
<1>6. CASE Tick
  BY <1>6 DEF Tick, Age, Aged
<1>7. CASE UpstreamChanges
  BY <1>7 DEF UpstreamChanges
<1>8. CASE UNCHANGED vars
  BY <1>8 DEF vars
<1> QED
  BY <1>1, <1>2, <1>3, <1>4, <1>5, <1>6, <1>7, <1>8 DEF Next

\* The inductive invariant of CircuitBreaker holds in every reachable state.
THEOREM BreakerInvariant == Spec => []BreakerInv
BY InitInv, NextInv, PTL DEF Spec

\* Half-open hands out at most HalfOpenRequests + 1 probes before a report
\* or a full ResetTimeout.
THEOREM ProbesAreBounded == Spec => []ProbeBudget
<1>1. BreakerInv => ProbeBudget
  BY BreakerAssumption
     DEF BreakerInv, TypeOK, SlotAccounting, ProbeBudget, Breakers, HistoryBound
<1> QED BY <1>1, BreakerInvariant, PTL

\* No fetch is let out over a full failure count unless a whole ResetTimeout
\* went by without a failure.
THEOREM UpstreamIsShielded == Spec => ShieldsUpstream
<1> DEFINE Shielded ==
        \A f \in Fetches :
          fetch[f] = "idle" /\ fetch'[f] = "out" =>
              \/ cb.consecutiveFail < FailureThreshold /\ cb.state = "closed"
              \/ ResetElapsed(cb)
<1>1. BreakerInv /\ [Next]_vars => [Shielded]_vars
  <2> SUFFICES ASSUME BreakerInv, [Next]_vars,
                      NEW g \in Fetches, fetch[g] = "idle", fetch'[g] = "out"
               PROVE  \/ cb.consecutiveFail < FailureThreshold /\ cb.state = "closed"
                      \/ ResetElapsed(cb)
    OBVIOUS
  <2>1. ASSUME NEW f \in Fetches, Admit(f)
        PROVE  \/ cb.consecutiveFail < FailureThreshold /\ cb.state = "closed"
               \/ ResetElapsed(cb)
    BY <2>1 DEF Admit, Allows, BreakerInv, ClosedBelowThreshold, HalfOpenIsQuiet
  <2>2. ASSUME NEW f \in Fetches, Succeed(f) \/ Fail(f) \/ GoUnrecorded(f) PROVE FALSE
    BY <2>2 DEF Succeed, Fail, GoUnrecorded, BreakerInv, TypeOK
  <2>3. ASSUME Observe \/ Tick \/ UpstreamChanges \/ UNCHANGED vars PROVE FALSE
    BY <2>3 DEF Observe, Tick, UpstreamChanges, vars
  <2> QED BY <2>1, <2>2, <2>3 DEF Next
<1> QED BY <1>1, BreakerInvariant, PTL DEF Spec, ShieldsUpstream

=============================================================================
