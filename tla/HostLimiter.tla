----------------------------- MODULE HostLimiter -----------------------------
(***************************************************************************)
(* upstreamhttp: the scans of one process asking one registry host through *)
(* Client.Do and the shared InProcessHostLimiter.  A scan may Prepay for   *)
(* its requests and then makes a few of them under a short deadline.       *)
(*                                                                         *)
(* A tick is the time the host's bucket takes to gain one token.  The      *)
(* background bucket gains one in Share ticks, so tokens are counted in    *)
(* units a bucket gains per tick: a token costs 1 unit of the host's lane  *)
(* and Share units of the background lane.  Times are distances from now;  *)
(* -1 is any time that has passed.                                         *)
(***************************************************************************)
EXTENDS Integers, FiniteSets

CONSTANTS
    Scans,           \* goroutines that scan packages
    Background,      \* those under WithBackground
    Patient,         \* those nobody waits on: background and the refresher's
    Sonatype,        \* whether the host may be Maven Central's
    Burst,           \* Config.Burst
    Share,           \* 1 / backgroundShare
    Prepaid,         \* fixedRequests: the tokens Prepare asks for
    ForegroundWait,  \* prepayForegroundWait
    BackgroundWait,  \* prepayBackgroundWait
    Timeout,         \* the provider's own timeout
    MinFetch,        \* minFetchAfterWait
    MaxFetches,      \* bound: requests of one scan
    MaxRetries,      \* Config.MaxRetries
    MaxBackoff,      \* Config.MaxBackoff
    RetryAfters,     \* Retry-After values an upstream may send; 0 is none
    DefaultPause,    \* defaultBackgroundPause
    DefaultStandoff, \* sonatypeStandoffDefault
    MaxPause,        \* maxBackgroundPause
    MaxStandoff,     \* sonatypeStandoffMax
    MaxDebt          \* bound: debt of a bucket at which no work is added

ASSUME LimiterAssumption ==
    /\ Background \subseteq Patient /\ Patient \subseteq Scans
    /\ IsFiniteSet(Scans)
    /\ Sonatype \subseteq BOOLEAN
    /\ {Burst, Share, MaxFetches, MaxBackoff} \subseteq Nat \ {0}
    /\ {DefaultPause, DefaultStandoff, MaxPause, MaxStandoff} \subseteq Nat \ {0}
    /\ {Prepaid, ForegroundWait, BackgroundWait, Timeout, MinFetch, MaxRetries, MaxDebt} \subseteq Nat
    /\ RetryAfters \subseteq Nat

Larger(a, b) == IF a >= b THEN a ELSE b
Smaller(a, b) == IF a <= b THEN a ELSE b

\* The buckets a request passes, in this order; background is for some only.
Lanes == {"background", "host"}

Cost(l) == IF l = "background" THEN Share ELSE 1

\* backgroundFor and limiterFor: bursts of 1 and of Config.Burst tokens.
Capacity(l) == IF l = "background" THEN Share ELSE Burst

VARIABLES
    sonatype,   \* isSonatypeHost of the host
    tokens,     \* tokens[l]: rate.Limiter.tokens, negative in debt
    lastEvent,  \* lastEvent[l]: rate.Limiter.lastEvent
    pause,      \* pausedUntil of the host
    standoff,   \* sonatypeUntil
    pc,         \* pc[s]: where the scan is
    lane,       \* lane[s]: the bucket it is at
    actAt,      \* actAt[s]: Reservation.timeToAct, or the end of its sleep
    deadline,   \* deadline[s]: of the context it waits or fetches under
    credit,     \* credit[s]: credits.n of the host in its context
    tries,      \* tries[s]: attempt
    fetches,    \* fetches[s]: requests it has still to make
    meter       \* history: meter[l], a leaky bucket fed by the tokens used

bucket == <<tokens, lastEvent, meter>>
scan == <<pc, lane, actAt, deadline, credit, tries, fetches>>
vars == <<sonatype, tokens, lastEvent, pause, standoff, pc, lane, actAt, deadline, credit,
          tries, fetches, meter>>

\* Steps that take no time; time passes in all others.
Instant == {"prepay", "do", "reserve", "refuse", "send"}
Steps == Instant \cup {"idle", "prepaying", "waiting", "flight", "sleep"}

Times == Nat \cup {-1}

TypeOK ==
    /\ sonatype \in BOOLEAN
    /\ tokens \in [Lanes -> Int]
    /\ lastEvent \in [Lanes -> Times]
    /\ pause \in 0..MaxPause /\ standoff \in 0..MaxStandoff
    /\ pc \in [Scans -> Steps]
    /\ lane \in [Scans -> Lanes]
    /\ actAt \in [Scans -> Times]
    /\ deadline \in [Scans -> Nat]
    /\ credit \in [Scans -> 0..Prepaid]
    /\ tries \in [Scans -> 0..MaxRetries]
    /\ fetches \in [Scans -> 0..MaxFetches]
    /\ meter \in [Lanes -> Nat]

FirstLane(s) == IF s \in Background THEN "background" ELSE "host"

Init ==
    /\ sonatype \in Sonatype
    /\ tokens = [l \in Lanes |-> Capacity(l)]
    /\ lastEvent = [l \in Lanes |-> -1]
    /\ pause = 0 /\ standoff = 0
    /\ pc = [s \in Scans |-> "idle"]
    /\ lane = [s \in Scans |-> FirstLane(s)]
    /\ actAt = [s \in Scans |-> -1]
    /\ deadline = [s \in Scans |-> 0]
    /\ credit = [s \in Scans |-> 0]
    /\ tries = [s \in Scans |-> 0]
    /\ fetches = [s \in Scans |-> 0]
    /\ meter = [l \in Lanes |-> 0]

-----------------------------------------------------------------------------
(* rate.Limiter, from golang.org/x/time/rate. *)

\* How long a token reserved now is away.
Delay(l) == Larger(0, Cost(l) - tokens[l])

\* Limiter.reserveN.  A token that is there already is granted on the spot.
ReserveAt(l) ==
    /\ tokens' = [tokens EXCEPT ![l] = @ - Cost(l)]
    /\ lastEvent' = [lastEvent EXCEPT ![l] = Delay(l)]
    /\ meter' = [meter EXCEPT ![l] = IF Delay(l) = 0 THEN @ + Cost(l) ELSE @]

\* Mutant of Restored: a cancelled reservation gives its token back.
RestoredWhole(s, l) == Cost(l)

\* Reservation.CancelAt gives back what nobody has reserved behind it since.
Restored(s, l) == Cost(l) - (lastEvent[l] - actAt[s])

CancelAt(s, l) ==
    IF actAt[s] >= 0 /\ Restored(s, l) > 0
      THEN /\ tokens' = [tokens EXCEPT ![l] = Smaller(Capacity(l), @ + Restored(s, l))]
           /\ lastEvent' = [lastEvent EXCEPT ![l] =
                              IF @ = actAt[s] /\ @ >= Cost(l) THEN @ - Cost(l) ELSE @]
           /\ meter' = [meter EXCEPT ![l] = IF actAt[s] = 0 THEN @ - Cost(l) ELSE @]
      ELSE UNCHANGED bucket

\* A token counts from its time to act, or from its use if that is earlier.
Use(s) ==
    /\ meter' = [meter EXCEPT ![lane[s]] = IF actAt[s] > 0 THEN @ + Cost(lane[s]) ELSE @]
    /\ UNCHANGED <<tokens, lastEvent>>

-----------------------------------------------------------------------------
(* Scans. *)

Goto(s, step) == pc' = [pc EXCEPT ![s] = step]

\* The provider starts its requests under a deadline of its own.
BeginFetches(s, timeout) ==
    /\ Goto(s, "do")
    /\ lane' = [lane EXCEPT ![s] = FirstLane(s)]
    /\ actAt' = [actAt EXCEPT ![s] = -1]
    /\ deadline' = [deadline EXCEPT ![s] = timeout]
    /\ UNCHANGED <<tries, fetches>>

\* Do returns, with a response or an error; unspent credits end with the scan.
Return(s) ==
    LET more == fetches[s] > 1 IN
      /\ Goto(s, IF more THEN "do" ELSE "idle")
      /\ fetches' = [fetches EXCEPT ![s] = @ - 1]
      /\ tries' = [tries EXCEPT ![s] = 0]
      /\ lane' = [lane EXCEPT ![s] = FirstLane(s)]
      /\ actAt' = [actAt EXCEPT ![s] = -1]
      /\ credit' = [credit EXCEPT ![s] = IF more THEN @ ELSE 0]
      /\ deadline' = [deadline EXCEPT ![s] = IF more THEN @ ELSE 0]

prepayWait(s) == IF s \in Patient THEN BackgroundWait ELSE ForegroundWait

\* A scan whose ecosystem has fixed requests prepares; Client.Prepay refuses
\* during a stand-off and the scan goes on without credits.
Start(s) ==
    /\ pc[s] = "idle"
    /\ \A l \in Lanes : tokens[l] >= -MaxDebt
    /\ fetches' = [fetches EXCEPT ![s] = MaxFetches]
    /\ \/ /\ Prepaid > 0 /\ standoff = 0
          /\ Goto(s, "prepay")
          /\ deadline' = [deadline EXCEPT ![s] = prepayWait(s)]
       \/ /\ Goto(s, "do")
          /\ deadline' = [deadline EXCEPT ![s] = Timeout]
    /\ UNCHANGED <<sonatype, bucket, pause, standoff, lane, actAt, credit, tries>>

-----------------------------------------------------------------------------
(* Prepay: tokens through the same lanes, within prepayWait. *)

\* The lane's token is there: on to the next lane, or a credit is booked.
Paid(s) ==
    /\ actAt' = [actAt EXCEPT ![s] = -1]
    /\ IF lane[s] = "background"
         THEN /\ lane' = [lane EXCEPT ![s] = "host"]
              /\ Goto(s, "prepay")
              /\ UNCHANGED <<deadline, credit>>
         ELSE LET done == credit[s] + 1 = Prepaid IN
              /\ credit' = [credit EXCEPT ![s] = @ + 1]
              /\ lane' = [lane EXCEPT ![s] = FirstLane(s)]
              /\ Goto(s, IF done THEN "do" ELSE "prepay")
              /\ deadline' = [deadline EXCEPT ![s] = IF done THEN Timeout ELSE @]
    /\ UNCHANGED <<tries, fetches>>

\* Limiter.Wait refuses what would exceed the deadline and reserves nothing.
Prepay(s) ==
    /\ pc[s] = "prepay"
    /\ IF deadline[s] = 0 \/ Delay(lane[s]) > deadline[s]
         THEN BeginFetches(s, Timeout) /\ UNCHANGED <<bucket, credit>>
         ELSE /\ ReserveAt(lane[s])
              /\ IF Delay(lane[s]) = 0
                   THEN Paid(s)
                   ELSE /\ Goto(s, "prepaying")
                        /\ actAt' = [actAt EXCEPT ![s] = Delay(lane[s])]
                        /\ UNCHANGED <<lane, deadline, credit, tries, fetches>>
    /\ UNCHANGED <<sonatype, pause, standoff>>

PrepayTimer(s) ==
    /\ pc[s] = "prepaying" /\ actAt[s] <= 0
    /\ Use(s)
    /\ Paid(s)
    /\ UNCHANGED <<sonatype, pause, standoff>>

\* maxWait is over: what was paid stays credited.
PrepayTimesOut(s) ==
    /\ pc[s] = "prepaying" /\ deadline[s] = 0
    /\ CancelAt(s, lane[s])
    /\ BeginFetches(s, Timeout)
    /\ UNCHANGED <<sonatype, pause, standoff, credit>>

-----------------------------------------------------------------------------
(* Client.Do and InProcessHostLimiter.Wait. *)

\* takeCredit
HasCredit(s) == credit[s] > 0

Spend(s) == credit' = [credit EXCEPT ![s] = @ - 1]

\* An attempt: the stand-off, then a credit, then the pause, then the lanes.
Do(s) ==
    /\ pc[s] = "do"
    /\ \/ /\ sonatype /\ standoff > 0
          /\ Return(s)
       \/ /\ ~(sonatype /\ standoff > 0) /\ HasCredit(s)
          /\ Goto(s, "send") /\ Spend(s)
          /\ UNCHANGED <<lane, actAt, deadline, tries, fetches>>
       \/ /\ ~(sonatype /\ standoff > 0) /\ ~HasCredit(s)
          /\ s \in Background /\ pause > 0
          /\ Return(s)
       \/ /\ ~(sonatype /\ standoff > 0) /\ ~HasCredit(s)
          /\ ~(s \in Background /\ pause > 0)
          /\ Goto(s, "reserve")
          /\ UNCHANGED <<lane, actAt, deadline, credit, tries, fetches>>
    /\ UNCHANGED <<sonatype, bucket, pause, standoff>>

\* The lane's token is there: on to the host's bucket, or to the request.
Granted(s) ==
    /\ actAt' = [actAt EXCEPT ![s] = -1]
    /\ lane' = [lane EXCEPT ![s] = "host"]
    /\ Goto(s, IF lane[s] = "host" THEN "send" ELSE "reserve")
    /\ UNCHANGED <<deadline, credit, tries, fetches>>

\* "Only a WAIT can be refused for leaving too little time."
TooLate(s) == Delay(lane[s]) > 0 /\ deadline[s] - Delay(lane[s]) < MinFetch

\* waitLeavingTime reserves first and cancels what it then refuses: another
\* scan may reserve between the two.
Reserve(s) ==
    /\ pc[s] = "reserve"
    /\ \/ deadline[s] = 0 /\ Return(s) /\ UNCHANGED bucket
       \/ /\ deadline[s] > 0
          /\ ReserveAt(lane[s])
          /\ IF Delay(lane[s]) = 0
               THEN Granted(s)
               ELSE /\ Goto(s, IF TooLate(s) THEN "refuse" ELSE "waiting")
                    /\ actAt' = [actAt EXCEPT ![s] = Delay(lane[s])]
                    /\ UNCHANGED <<lane, deadline, credit, tries, fetches>>
    /\ UNCHANGED <<sonatype, pause, standoff>>

\* ErrRateLimitedLocally
Refuse(s) ==
    /\ pc[s] = "refuse"
    /\ CancelAt(s, lane[s])
    /\ Return(s)
    /\ UNCHANGED <<sonatype, pause, standoff>>

\* Mutant of WaitTimer: a wait that is short enough is not waited for.
WaitTimerEarly(s) ==
    /\ pc[s] = "waiting"
    /\ Use(s)
    /\ Granted(s)
    /\ UNCHANGED <<sonatype, pause, standoff>>

WaitTimer(s) ==
    /\ pc[s] = "waiting" /\ actAt[s] <= 0
    /\ Use(s)
    /\ Granted(s)
    /\ UNCHANGED <<sonatype, pause, standoff>>

WaitCut(s) ==
    /\ pc[s] = "waiting" /\ deadline[s] = 0
    /\ CancelAt(s, lane[s])
    /\ Return(s)
    /\ UNCHANGED <<sonatype, pause, standoff>>

-----------------------------------------------------------------------------
(* The request, its answer, and the next attempt. *)

\* RetryBaseDelay is a tick.
Backoff(s, d) ==
    LET wanted == IF d > 0 THEN d ELSE 2 ^ tries[s] IN
      IF wanted \in 1..MaxBackoff THEN wanted ELSE MaxBackoff

\* shouldRetry holds: sleep unless this was the last attempt.
Retry(s, d) ==
    IF tries[s] = MaxRetries
      THEN Return(s)
      ELSE /\ Goto(s, "sleep")
           /\ actAt' = [actAt EXCEPT ![s] = Backoff(s, d)]
           /\ UNCHANGED <<lane, deadline, credit, tries, fetches>>

\* countingTransport.RoundTrip: during a stand-off the answer is a local 503
\* whose Retry-After is what is left, rounded up.
Send(s) ==
    /\ pc[s] = "send"
    /\ \/ sonatype /\ standoff > 0 /\ Retry(s, standoff + 1)
       \/ ~(sonatype /\ standoff > 0) /\ deadline[s] = 0 /\ Return(s)
       \/ /\ ~(sonatype /\ standoff > 0) /\ deadline[s] > 0
          /\ Goto(s, "flight")
          /\ UNCHANGED <<lane, actAt, deadline, credit, tries, fetches>>
    /\ UNCHANGED <<sonatype, bucket, pause, standoff>>

\* pauseBackground and ObserveSonatypeResponse: "a later call only ever
\* extends".
Extended(until, d, unsaid, most) == Larger(until, Smaller(most, IF d > 0 THEN d ELSE unsaid))

\* 429: Maven Central's is never retried.
TooManyRequests(s) ==
    /\ pc[s] = "flight"
    /\ \E d \in RetryAfters :
         /\ pause' = Extended(pause, d, DefaultPause, MaxPause)
         /\ IF sonatype
              THEN standoff' = Extended(standoff, d, DefaultStandoff, MaxStandoff) /\ Return(s)
              ELSE UNCHANGED standoff /\ Retry(s, d)
    /\ UNCHANGED <<sonatype, bucket>>

ServerError(s) ==
    /\ pc[s] = "flight"
    /\ \E d \in RetryAfters : Retry(s, d)
    /\ UNCHANGED <<sonatype, bucket, pause, standoff>>

\* Any other status, or a transport error.
Answered(s) ==
    /\ pc[s] = "flight"
    /\ Return(s)
    /\ UNCHANGED <<sonatype, bucket, pause, standoff>>

\* sleepCtx, with time left and without.
Wake(s) ==
    /\ pc[s] = "sleep" /\ actAt[s] <= 0
    /\ Goto(s, "do")
    /\ tries' = [tries EXCEPT ![s] = @ + 1]
    /\ lane' = [lane EXCEPT ![s] = FirstLane(s)]
    /\ actAt' = [actAt EXCEPT ![s] = -1]
    /\ UNCHANGED <<sonatype, bucket, pause, standoff, deadline, credit, fetches>>

\* Mutant of CtxDone: the request was not given the context.
CtxDoneAsleep(s) ==
    /\ pc[s] = "sleep" /\ deadline[s] = 0
    /\ Return(s)
    /\ UNCHANGED <<sonatype, bucket, pause, standoff>>

CtxDone(s) ==
    /\ pc[s] \in {"sleep", "flight"} /\ deadline[s] = 0
    /\ Return(s)
    /\ UNCHANGED <<sonatype, bucket, pause, standoff>>

-----------------------------------------------------------------------------
(* The surroundings. *)

\* The caller of a scan goes away: its context ends early.
Abandon(s) ==
    /\ pc[s] \in {"waiting", "sleep", "flight"} /\ deadline[s] > 0
    /\ deadline' = [deadline EXCEPT ![s] = 0]
    /\ UNCHANGED <<sonatype, bucket, pause, standoff, pc, lane, actAt, credit, tries, fetches>>

AbandonPrepay(s) ==
    /\ pc[s] = "prepaying"
    /\ CancelAt(s, lane[s])
    /\ BeginFetches(s, 0)
    /\ UNCHANGED <<sonatype, pause, standoff, credit>>

\* Charge: an install the proxy fetched itself, "a debt, not a wait".
Charge ==
    /\ tokens["background"] >= -MaxDebt
    /\ tokens' = [tokens EXCEPT !["background"] = @ - Share]
    /\ lastEvent' = [lastEvent EXCEPT !["background"] = Delay("background")]
    /\ UNCHANGED <<sonatype, pause, standoff, scan, meter>>

Sooner(t) == Larger(-1, t - 1)
Less(t) == Larger(0, t - 1)

\* The scans whose token of lane l arrives with the next tick.
DueNext(l) == {s \in Scans : pc[s] \in {"prepaying", "waiting"} /\ lane[s] = l /\ actAt[s] = 1}

Tick ==
    /\ \A s \in Scans : pc[s] \notin Instant
    /\ tokens' = [l \in Lanes |-> Smaller(Capacity(l), tokens[l] + 1)]
    /\ lastEvent' = [l \in Lanes |-> Sooner(lastEvent[l])]
    /\ pause' = Less(pause) /\ standoff' = Less(standoff)
    /\ actAt' = [s \in Scans |-> Sooner(actAt[s])]
    /\ deadline' = [s \in Scans |-> Less(deadline[s])]
    /\ meter' = [l \in Lanes |-> Less(meter[l]) + Cost(l) * Cardinality(DueNext(l))]
    /\ UNCHANGED <<sonatype, pc, lane, credit, tries, fetches>>

\* What the process itself does next for a scan.
Proceed(s) ==
    \/ Prepay(s) \/ PrepayTimer(s) \/ PrepayTimesOut(s)
    \/ Do(s) \/ Reserve(s) \/ Refuse(s) \/ WaitTimer(s) \/ WaitCut(s)
    \/ Send(s) \/ Wake(s) \/ CtxDone(s)

Next ==
    \/ \E s \in Scans : \/ Start(s) \/ Proceed(s)
                        \/ Abandon(s) \/ AbandonPrepay(s)
                        \/ TooManyRequests(s) \/ ServerError(s) \/ Answered(s)
    \/ Charge \/ Tick

Spec == Init /\ [][Next]_vars

\* Goroutines run, timers fire and time passes.  Strong fairness of Tick: it
\* waits for instantaneous steps, which the real clock does not.
Fairness == SF_vars(Tick) /\ \A s \in Scans : WF_vars(Proceed(s))

FairSpec == Spec /\ Fairness

-----------------------------------------------------------------------------
(* Properties. *)

\* InProcessHostLimiter: "the npm budget (15 req/s by default) is truly the
\* budget for all chainsaw-proxy code", and background work "can never hold
\* more than that share".  Reservations that are refused, cut short, overtaken
\* and given back in any order never let either bucket grant more tokens in a
\* stretch of time than its burst and its rate allow.
RateHolds == \A l \in Lanes : meter[l] <= Capacity(l)

(* The inductive strengthening of RateHolds. *)

Holding == {"prepaying", "waiting", "refuse"}

\* Scans that hold a reservation of lane l whose time has not passed.
Holders(l) == {s \in Scans : /\ pc[s] \in Holding
                             /\ lane[s] = l
                             /\ actAt[s] >= 0}

\* Reservations are whole tokens apart, the last event being the furthest.
Spaced(l) ==
    /\ \A s \in Holders(l) : \E k \in 0..lastEvent[l] : lastEvent[l] - actAt[s] = k * Cost(l)
    /\ \A s, p \in Holders(l) : s # p => \/ actAt[s] - actAt[p] >= Cost(l)
                                         \/ actAt[p] - actAt[s] >= Cost(l)

\* The debt of a bucket reaches as far as its reservations do, and what it
\* has granted and still holds fits its burst, now and when a token arrives.
Covered(l) ==
    /\ meter[l] + tokens[l] <= Capacity(l)
    /\ \A s \in Holders(l) :
         /\ tokens[l] = -lastEvent[l]
         /\ actAt[s] = 0 => meter[l] >= Cost(l)
         /\ actAt[s] > 0 => meter[l] - actAt[s] + Cost(l) <= Capacity(l)

\* What is left of a scan's requests, credits and attempts.
OnTrack(s) ==
    /\ pc[s] = "idle" => credit[s] = 0
    /\ pc[s] # "idle" => fetches[s] > 0
    /\ pc[s] \in {"prepay", "prepaying"} => credit[s] < Prepaid
    /\ pc[s] = "sleep" => tries[s] < MaxRetries

Sound(l) == Spaced(l) /\ Covered(l) /\ meter[l] <= Capacity(l)

LimiterInv == TypeOK /\ (\A s \in Scans : OnTrack(s)) /\ \A l \in Lanes : Sound(l)

\* Do: "Context cancellation is honoured in both the rate-limiter Wait and the
\* retry backoff sleep".  Every scan returns, whatever the upstream answers
\* and however far the buckets are in debt.
EveryRequestEnds == \A s \in Scans : pc[s] # "idle" ~> pc[s] = "idle"

=============================================================================
