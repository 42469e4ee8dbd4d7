------------------------------ MODULE Breaker ------------------------------
(***************************************************************************)
(* The circuit breaker of proxy/circuitbreaker.go as a record and the      *)
(* operations on it.  Every method of the Go type holds cb.mu for its      *)
(* whole body, so each one is a single atomic step: an operator from a     *)
(* breaker to a breaker.  CircuitBreaker.tla lets requests race through    *)
(* these operators; ProxyFacet.tla composes them with the fetch path.      *)
(*                                                                         *)
(* Time.  The code only ever compares time.Since(lastFailTime) and         *)
(* time.Since(lastProbeTime) with ResetTimeout, so the two timestamps are  *)
(* kept as ages, counted in ticks and saturated at ResetTimeout: beyond    *)
(* it the comparison no longer changes.                                    *)
(***************************************************************************)
EXTENDS Integers

CONSTANTS
    FailureThreshold,   \* cfg.FailureThreshold
    ResetTimeout,       \* cfg.ResetTimeout, in ticks
    HalfOpenRequests    \* cfg.HalfOpenRequests

\* withDefaults replaces every non-positive setting, so all three are positive.
ASSUME BreakerAssumption ==
    /\ FailureThreshold \in Nat \ {0}
    /\ ResetTimeout \in Nat \ {0}
    /\ HalfOpenRequests \in Nat \ {0}

CircuitState == {"closed", "open", "half-open"}

Breakers ==
    [state           : CircuitState,
     consecutiveFail : 0..FailureThreshold,
     sinceFail       : 0..ResetTimeout,
     halfOpenPassed  : 0..(HalfOpenRequests + 1),
     sinceProbe      : 0..ResetTimeout]

\* NewCircuitBreaker: the zero time.Time is further back than any timeout.
NewCircuitBreaker ==
    [state           |-> "closed",
     consecutiveFail |-> 0,
     sinceFail       |-> ResetTimeout,
     halfOpenPassed  |-> 0,
     sinceProbe      |-> ResetTimeout]

ResetElapsed(cb) == cb.sinceFail >= ResetTimeout

ProbesLost(cb) == cb.sinceProbe >= ResetTimeout

\* Mutant of Allows: without the re-arm branch.
AllowsWithoutReArm(cb) ==
    \/ cb.state = "closed"
    \/ cb.state = "open" /\ ResetElapsed(cb)
    \/ cb.state = "half-open" /\ cb.halfOpenPassed < HalfOpenRequests

\* Allow's verdict.
Allows(cb) ==
    \/ cb.state = "closed"
    \/ cb.state = "open" /\ ResetElapsed(cb)
    \/ /\ cb.state = "half-open"
       /\ cb.halfOpenPassed < HalfOpenRequests \/ ProbesLost(cb)

\* Allow hands out a fresh set of probes: every slot is out and none reported.
ReArms(cb) ==
    /\ cb.state = "half-open"
    /\ cb.halfOpenPassed >= HalfOpenRequests
    /\ ProbesLost(cb)

\* Mutant of Allow: the half-open branch forgets halfOpenPassed++.
AllowUncounted(cb) ==
    IF cb.state = "closed" THEN cb
    ELSE [cb EXCEPT !.state = "half-open", !.sinceProbe = 0,
                    !.halfOpenPassed = IF cb.state = "open" THEN 0 ELSE @]

\* Allow's effect when it returns true; a refusal leaves the breaker alone.
\* The Allow that opens the half-open state does not count its own probe.
Allow(cb) ==
    IF cb.state = "closed" THEN cb
    ELSE [state           |-> "half-open",
          consecutiveFail |-> cb.consecutiveFail,
          sinceFail       |-> cb.sinceFail,
          halfOpenPassed  |-> IF cb.state = "open" THEN 0
                              ELSE IF ReArms(cb) THEN 1
                              ELSE cb.halfOpenPassed + 1,
          sinceProbe      |-> 0]

\* Mutant of RecordSuccess: closes without resetting consecutiveFail.
RecordSuccessKeepsCount(cb) ==
    IF cb.state = "half-open"
      THEN [cb EXCEPT !.halfOpenPassed = @ + 1,
                      !.state = IF cb.halfOpenPassed + 1 >= HalfOpenRequests
                                  THEN "closed" ELSE @]
      ELSE [cb EXCEPT !.consecutiveFail = 0]

\* One counter, halfOpenPassed, counts probes handed out and successes.
RecordSuccess(cb) ==
    LET passed == IF cb.state = "half-open" THEN cb.halfOpenPassed + 1
                  ELSE cb.halfOpenPassed
    IN [state           |-> IF cb.state = "half-open" /\ passed >= HalfOpenRequests
                              THEN "closed" ELSE cb.state,
        consecutiveFail |-> 0,
        sinceFail       |-> cb.sinceFail,
        halfOpenPassed  |-> passed,
        sinceProbe      |-> cb.sinceProbe]

\* The failure count is only ever compared with FailureThreshold, so it
\* saturates there.
Counted(n) == IF n < FailureThreshold THEN n + 1 ELSE n

\* Mutant of RecordFailure: a failed probe does not reopen the circuit.
RecordFailureIgnoresHalfOpen(cb) ==
    [cb EXCEPT !.consecutiveFail = Counted(@),
               !.sinceFail = 0,
               !.state = IF @ = "closed" /\ Counted(cb.consecutiveFail) >= FailureThreshold
                           THEN "open" ELSE @]

RecordFailure(cb) ==
    [state           |-> IF \/ cb.state = "half-open"
                            \/ Counted(cb.consecutiveFail) >= FailureThreshold
                           THEN "open" ELSE cb.state,
     consecutiveFail |-> Counted(cb.consecutiveFail),
     sinceFail       |-> 0,
     halfOpenPassed  |-> cb.halfOpenPassed,
     sinceProbe      |-> cb.sinceProbe]

\* What a fetch that returned an error means to the breaker.
NetworkErrors == {"dns", "conn"}

IsDNSError(err) == err = "dns"

RecordNetworkFailure(cb, err) == IF IsDNSError(err) THEN cb ELSE RecordFailure(cb)

\* Mutant of RecordStatus: a 4xx counts as nothing, as it once did.
RecordStatusIgnores4xx(cb, status) ==
    IF status >= 500 THEN RecordFailure(cb)
    ELSE IF status < 400 THEN RecordSuccess(cb)
    ELSE cb

\* facet.recordCircuitOutcome: 5xx fails, anything but 429 succeeds.
RecordStatus(cb, status) ==
    IF status >= 500 THEN RecordFailure(cb)
    ELSE IF status # 429 THEN RecordSuccess(cb)
    ELSE cb

\* State(): a read that performs the overdue open -> half-open transition,
\* without stamping lastProbeTime.
State(cb) ==
    IF cb.state = "open" /\ ResetElapsed(cb)
      THEN [state           |-> "half-open",
            consecutiveFail |-> cb.consecutiveFail,
            sinceFail       |-> cb.sinceFail,
            halfOpenPassed  |-> 0,
            sinceProbe      |-> cb.sinceProbe]
      ELSE cb

\* One tick of the clock, seen by both ages.
Aged(age) == IF age < ResetTimeout THEN age + 1 ELSE age

Age(cb) ==
    [state           |-> cb.state,
     consecutiveFail |-> cb.consecutiveFail,
     sinceFail       |-> Aged(cb.sinceFail),
     halfOpenPassed  |-> cb.halfOpenPassed,
     sinceProbe      |-> Aged(cb.sinceProbe)]

=============================================================================
