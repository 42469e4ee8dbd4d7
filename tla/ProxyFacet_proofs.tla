------------------------- MODULE ProxyFacet_proofs -------------------------
(***************************************************************************)
(* proxy.facet for any number of callers, versions and retries, any        *)
(* breaker settings and any kind of path: FacetInv is inductive, and the   *)
(* promises of Get follow from it.                                         *)
(***************************************************************************)
EXTENDS ProxyFacet, TLAPS

\* A breaker that counts no more probes than it has slots for.
Sound(b) ==
    /\ b \in Breakers
    /\ b.state = "half-open" => b.halfOpenPassed =< HalfOpenRequests

\* A new breaker is sound.
LEMMA NewIsSound == Sound(NewCircuitBreaker)
BY BreakerAssumption DEF Sound, NewCircuitBreaker, Breakers, CircuitState

\* Every operation of the breaker keeps it sound: probes and successes
\* counted together never exceed the slots by more than the one that closes it.
LEMMA BreakerStaysSound ==
    ASSUME NEW b, Sound(b)
    PROVE  /\ Allows(b) => Sound(Allow(b))
           /\ Sound(RecordSuccess(b))
           /\ Sound(RecordFailure(b))
           /\ Sound(State(b))
           /\ Sound(Age(b))
<1> USE BreakerAssumption DEF Sound, Breakers, CircuitState
<1>1. Allows(b) => Sound(Allow(b))
  <2>1. CASE b.state = "closed"
    BY <2>1 DEF Allow
  <2>2. CASE b.state = "open"
    BY <2>2 DEF Allow, ReArms
  <2>3. CASE b.state = "half-open"
    BY <2>3 DEF Allow, Allows, ReArms
  <2> QED BY <2>1, <2>2, <2>3
<1>2. Sound(RecordSuccess(b))
  BY DEF RecordSuccess
<1>3. Sound(RecordFailure(b))
  BY DEF RecordFailure, Counted
<1>4. Sound(State(b))
  BY DEF State, ResetElapsed
<1>5. Sound(Age(b))
  BY DEF Age, Aged
<1> QED BY <1>1, <1>2, <1>3, <1>4, <1>5

\* So does recording what a fetch came to.
LEMMA RecordStaysSound ==
    ASSUME NEW b, Sound(b), NEW status, NEW err
    PROVE  Sound(RecordStatus(b, status)) /\ Sound(RecordNetworkFailure(b, err))
BY BreakerStaysSound DEF RecordStatus, RecordNetworkFailure

\* What the upstream sends: an error, or a response whose body is the whole
\* document when it is a 200; a range or a 304 unasked only if it is odd.
LEMMA WhatComesBack ==
    ASSUME upstream \in [health : Healths, ver : Versions \cup {None}],
           NEW cond \in Versions \cup {None}, NEW r \in UpstreamAnswers(cond)
    PROVE  /\ r \in Responses
           /\ IsErr(r) <=> r.code = 0
           /\ r.code = 200 => \E v \in Versions : r = Response(200, Whole(v))
           /\ "odd" \notin Events => r.code # 206 /\ (r.code = 304 => cond # None)
<1> USE FacetAssumption DEF AllHealths, NetworkErrors, Response, Responses, IsErr, Bodies, Whole
<1>1. CASE upstream.health \in NetworkErrors
  BY <1>1 DEF UpstreamAnswers
<1>2. CASE upstream.health \in {"s500", "s503", "s429", "s403"}
  BY <1>2 DEF UpstreamAnswers
<1>3. CASE upstream.health = "up" /\ upstream.ver = None
  BY <1>3 DEF UpstreamAnswers
<1>4. CASE upstream.health = "up" /\ upstream.ver # None
  <2>1. \/ r = Response(304, None) /\ (cond = upstream.ver \/ "odd" \in Events)
        \/ r = Response(200, Whole(upstream.ver))
        \/ r = Response(206, [ver |-> upstream.ver, part |-> "slice"]) /\ "odd" \in Events
    BY <1>4 DEF UpstreamAnswers
  <2>2. upstream.ver \in Versions
    BY <1>4
  <2> QED BY <1>4, <2>1, <2>2
<1> QED BY <1>1, <1>2, <1>3, <1>4

\* The part of FacetInv that holds whatever Events may happen.
Core == TypeOK /\ ProbesCounted /\ NobodyStranded /\ FlightCarries

\* Initially the facet is idle and its breaker closed.
LEMMA CoreInit == Init => Core
<1> SUFFICES ASSUME Init PROVE Core
    OBVIOUS
<1>1. entry \in Entries \cup {None}
  <2> DEFINE Old(v, t, r) == [body |-> Whole(v), etag |-> IF t THEN v ELSE None,
                              fresh |-> FALSE, repair |-> r]
  <2>1. entry = None \/ \E v \in Versions, t \in BOOLEAN, r \in BOOLEAN : entry = Old(v, t, r)
    BY DEF Init
  <2>2. ASSUME NEW v \in Versions, NEW t \in BOOLEAN, NEW r \in BOOLEAN
        PROVE  Old(v, t, r) \in Entries
    BY DEF Entries, Bodies, Whole
  <2> HIDE DEF Old
  <2> QED BY <2>1, <2>2
<1>2. cb \in Breakers /\ ProbesCounted
  BY NewIsSound DEF Init, Sound, ProbesCounted, NewCircuitBreaker
<1>3. flight = NoFlight /\ flight \in Flights
  BY FacetAssumption DEF Init, NoFlight, Flights, FlightCalls
<1>4. upstream \in [health : Healths, ver : Versions \cup {None}]
  <2>1. upstream \in [health : {"up"}, ver : Versions] /\ "up" \in Healths
    BY FacetAssumption DEF Init
  <2> QED BY <2>1
<1>5. remote \in BOOLEAN /\ negative \in BOOLEAN /\ internal \in BOOLEAN
  <2>1. remote \in BOOLEAN
    BY DEF Init
  <2>2. negative = FALSE /\ internal = FALSE
    BY Zenon DEF Init
  <2> QED BY <2>1, <2>2
<1>6. /\ pc \in [Callers -> {"idle", "lookup", "join", "waiting"}]
      /\ answer \in [Callers -> Answers \cup {None}]
      /\ warm \in [Callers -> BOOLEAN]
  BY DEF Init
<1>7. TypeOK
  BY <1>1, <1>2, <1>3, <1>4, <1>5, <1>6 DEF TypeOK
<1> QED BY <1>2, <1>3, <1>7 DEF Init, Core, NobodyStranded, FlightCarries, NoFlight

\* What a step that leaves the flight alone has to show.
LEMMA CoreOutside ==
    ASSUME Core, flight' = flight, entry' \in Entries \cup {None}, Sound(cb'),
           negative' \in BOOLEAN, remote' \in BOOLEAN, internal' \in BOOLEAN,
           upstream' \in [health : Healths, ver : Versions \cup {None}],
           pc' \in [Callers -> {"idle", "lookup", "join", "waiting"}],
           \A c \in Callers : pc'[c] = "waiting" => pc[c] = "waiting",
           answer' \in [Callers -> Answers \cup {None}],
           warm' \in [Callers -> BOOLEAN]
    PROVE  Core'
BY DEF Core, TypeOK, Sound, ProbesCounted, NobodyStranded, FlightCarries

\* What a step of the flight has to show.
LEMMA CoreInside ==
    ASSUME Core, UNCHANGED <<env, callers>>, flight.pc # "none",
           flight' \in Flights, flight'.pc # "none", FlightCarries',
           entry' \in Entries \cup {None}, Sound(cb'), negative' \in BOOLEAN
    PROVE  Core'
BY DEF Core, TypeOK, Sound, ProbesCounted, NobodyStranded, env, callers

\* In either kind of step the breaker is sound before it.
LEMMA CoreIsSound == Core => Sound(cb)
BY DEF Core, TypeOK, ProbesCounted, Sound

\* The answers a flight may return.
LEMMA AnswersOfFlight ==
    /\ Failed \in Answers /\ Failed # None
    /\ \A e \in Entries : FromEntry(e) \in Answers
    /\ \A code \in {304, 403, 404, 429, 500, 502, 503} : Passed(code) \in Answers
    /\ None \notin Answers /\ None \notin Entries /\ None \notin Responses
<1>1. None \notin Answers /\ None \notin Entries /\ None \notin Responses
  BY NoneAssumption
<1>2. Failed \in Answers
  BY DEF Failed, Answers
<1>3. \A e \in Entries : FromEntry(e) \in Answers
  BY DEF Answers, FromEntry, Entries
<1>4. \A code \in {304, 403, 404, 429, 500, 502, 503} : Passed(code) \in Answers
  BY DEF Passed, Answers
<1> QED BY <1>1, <1>2, <1>3, <1>4

\* fetchAndStore returns, or looks for a stale copy, with an answer in hand.
LEMMA ReturnsCarries ==
    ASSUME NEW a \in Answers, Returns(a) \/ StaleOr(a)
    PROVE  /\ flight' \in Flights /\ FlightCarries'
           /\ flight'.pc \in {"return", "stale"} /\ flight'.out = a
           /\ Returns(a) => flight'.pc = "return"
<1>1. PICK p \in {"return", "stale"} : flight' = [NoFlight EXCEPT !.pc = p, !.out = a]
  BY DEF Returns, StaleOr
<1>2. flight' \in Flights
  <2>1. flight' = [pc |-> p, cond |-> None, tries |-> 0, resp |-> None, held |-> None,
                   gone |-> "bare", out |-> a]
    BY <1>1 DEF NoFlight
  <2>2. 0 \in 0..MaxRetries
    BY FacetAssumption
  <2> QED BY <2>1, <2>2 DEF Flights, FlightCalls
<1>3. flight'.pc \in {"return", "stale"} /\ flight'.out = a /\ a # None
  BY <1>1, AnswersOfFlight DEF NoFlight
<1>4. Returns(a) => flight'.pc = "return"
  BY DEF Returns, NoFlight
<1> QED BY <1>2, <1>3, <1>4 DEF FlightCarries

\* Only the callers of Get move.
LEMMA CallersKeepCore ==
    ASSUME Core, NEW c \in Callers, Arrive(c) \/ Step(c) \/ Cancel(c)
    PROVE  Core'
<1> USE CoreIsSound, AnswersOfFlight
<1>1. CASE Arrive(c)
  <2>1. warm' \in [Callers -> BOOLEAN]
    BY <1>1 DEF Arrive, Core, TypeOK
  <2>2. answer' \in [Callers -> Answers \cup {None}]
    BY <1>1 DEF Arrive, Core, TypeOK
  <2>3. /\ pc' \in [Callers -> {"idle", "lookup", "join", "waiting"}]
        /\ \A d \in Callers : pc'[d] = "waiting" => pc[d] = "waiting"
    BY <1>1 DEF Arrive, Core, TypeOK
  <2> QED BY <1>1, <2>1, <2>2, <2>3, CoreOutside DEF Arrive, env, Core, TypeOK
<1>2. CASE Lookup(c)
  <2>1. Sound(cb')
    BY <1>2, BreakerStaysSound DEF Lookup, LookAtBreaker
  <2>2. answer' \in [Callers -> Answers \cup {None}]
    BY <1>2 DEF Lookup, AnswerTo, Servable, Core, TypeOK
  <2>3. /\ pc' \in [Callers -> {"idle", "lookup", "join", "waiting"}]
        /\ \A d \in Callers : pc'[d] = "waiting" => pc[d] = "waiting"
    BY <1>2 DEF Lookup, AnswerTo, Core, TypeOK
  <2> QED BY <1>2, <2>1, <2>2, <2>3, CoreOutside DEF Lookup, env, Core, TypeOK
<1>3. CASE Join(c)
  <2>1. CASE remote
    <3>1. /\ pc' = [pc EXCEPT ![c] = "waiting"]
          /\ flight' = IF flight.pc = "none" THEN [flight EXCEPT !.pc = "recheck"] ELSE flight
          /\ UNCHANGED <<entry, negative, cb, answer, warm, env>>
      BY <1>3, <2>1 DEF Join
    <3>2. flight' \in Flights /\ flight'.pc # "none"
      BY <3>1 DEF Core, TypeOK, Flights, FlightCalls
    <3>3. FlightCarries'
      BY <3>1 DEF Core, FlightCarries, NoFlight
    <3> QED BY <3>1, <3>2, <3>3 DEF Core, TypeOK, ProbesCounted, NobodyStranded, env
  <2>2. CASE ~remote
    <3>1. answer' \in [Callers -> Answers \cup {None}]
      BY <1>3, <2>2 DEF Join, AnswerTo, Core, TypeOK
    <3>2. /\ pc' \in [Callers -> {"idle", "lookup", "join", "waiting"}]
          /\ \A d \in Callers : pc'[d] = "waiting" => pc[d] = "waiting"
      BY <1>3, <2>2 DEF Join, AnswerTo, Core, TypeOK
    <3> QED BY <1>3, <2>2, <3>1, <3>2, CoreOutside DEF Join, env, Core, TypeOK
  <2> QED BY <2>1, <2>2
<1>4. CASE Cancel(c)
  <2>1. answer' \in [Callers -> Answers \cup {None}]
    BY <1>4 DEF Cancel, AnswerTo, Core, TypeOK
  <2>2. /\ pc' \in [Callers -> {"idle", "lookup", "join", "waiting"}]
        /\ \A d \in Callers : pc'[d] = "waiting" => pc[d] = "waiting"
    BY <1>4 DEF Cancel, AnswerTo, Core, TypeOK
  <2> QED BY <1>4, <2>1, <2>2, CoreOutside DEF Cancel, env, Core, TypeOK
<1> QED BY <1>1, <1>2, <1>3, <1>4 DEF Step

\* Time, the upstream and the rest of the server.
LEMMA OthersKeepCore ==
    ASSUME Core,
           Tick \/ Observe \/ Expire \/ NegativeExpires \/ UpstreamChanges \/ UpdateRemote
             \/ Remove \/ Publish
    PROVE  Core'
<1> USE CoreIsSound DEF callers, env
<1>1. Sound(cb')
  BY BreakerStaysSound
     DEF Tick, Observe, Expire, NegativeExpires, UpstreamChanges, UpdateRemote, Remove, Publish
<1>2. entry' \in Entries \cup {None}
  <2>1. CASE Expire
    BY <2>1 DEF Expire, Core, TypeOK, Entries
  <2>2. CASE Publish
    BY <2>2 DEF Publish, Entries, Bodies, Whole
  <2>3. CASE ~Expire /\ ~Publish
    BY <2>3 DEF Tick, Observe, NegativeExpires, UpstreamChanges, UpdateRemote, Remove,
                Core, TypeOK
  <2> QED BY <2>1, <2>2, <2>3
<1>3. flight' = flight /\ pc' = pc /\ answer' = answer
  BY DEF Tick, Observe, Expire, NegativeExpires, UpstreamChanges, UpdateRemote, Remove, Publish
<1>4. warm' \in [Callers -> BOOLEAN]
  <2>1. CASE Remove
    BY <2>1 DEF Remove
  <2>2. CASE ~Remove
    BY <2>2 DEF Tick, Observe, Expire, NegativeExpires, UpstreamChanges, UpdateRemote, Publish,
                Core, TypeOK
  <2> QED BY <2>1, <2>2
<1>5. negative' \in BOOLEAN /\ remote' \in BOOLEAN /\ internal' \in BOOLEAN
  BY DEF Tick, Observe, Expire, NegativeExpires, UpstreamChanges, UpdateRemote, Remove, Publish,
         Core, TypeOK
<1>6. upstream' \in [health : Healths, ver : Versions \cup {None}]
  BY DEF Tick, Observe, Expire, NegativeExpires, UpstreamChanges, UpdateRemote, Remove, Publish,
         Core, TypeOK
<1> QED BY <1>1, <1>2, <1>3, <1>4, <1>5, <1>6, CoreOutside DEF Core, TypeOK

\* handleUpstreamStatus by the status.
LEMMA StatusCases ==
    ASSUME Core, HandleStatus
    PROVE  LET code == flight.resp.code IN
           \/ code \in {500, 503} /\ StaleOr(Passed(code))
           \/ code \in {403, 404, 429} /\ Returns(Passed(code))
           \/ code = 206 /\ Returns(Passed(502))
           \/ code = 304 /\ GoesTo("revGet")
           \/ code = 200 /\ GoesTo("check")
<1>1. flight.resp \in Responses /\ flight.resp.code # 0
  BY DEF HandleStatus, Core, TypeOK, Flights, FlightCarries
<1>2. flight.resp.code \in {200, 206, 304, 403, 404, 429, 500, 503}
  BY <1>1 DEF Responses
<1>3. CASE flight.resp.code = 500
  BY <1>3 DEF HandleStatus
<1>4. CASE flight.resp.code = 503
  BY <1>4 DEF HandleStatus
<1>5. CASE flight.resp.code = 403
  BY <1>5 DEF HandleStatus
<1>6. CASE flight.resp.code = 404
  BY <1>6 DEF HandleStatus
<1>7. CASE flight.resp.code = 429
  BY <1>7 DEF HandleStatus
<1>8. CASE flight.resp.code = 200
  BY <1>8 DEF HandleStatus
<1>9. CASE flight.resp.code = 206
  BY <1>9 DEF HandleStatus
<1>10. CASE flight.resp.code = 304
  BY <1>10 DEF HandleStatus
<1> QED BY <1>2, <1>3, <1>4, <1>5, <1>6, <1>7, <1>8, <1>9, <1>10

\* serveRevalidated refreshes the entry and leaves its bytes as they are.
LEMMA RevalidatedEntry ==
    ASSUME Core, RevalidatedPut
    PROVE  /\ flight.held \in Entries
           /\ \/ entry' = entry
              \/ entry # None /\ entry' \in Entries /\ entry'.body = entry.body
<1>1. flight.held \in Entries /\ entry \in Entries \cup {None}
  BY DEF RevalidatedPut, Core, TypeOK, FlightCarries, Flights
<1>2. CASE entry # None /\ entry' = [flight.held EXCEPT !.body = entry.body, !.fresh = TRUE]
  <2>1. entry' = [body |-> entry.body, etag |-> flight.held.etag, fresh |-> TRUE,
                  repair |-> flight.held.repair]
    BY <1>1, <1>2 DEF Entries
  <2> QED BY <1>1, <1>2, <2>1 DEF Entries
<1> QED BY <1>1, <1>2 DEF RevalidatedPut

\* storeUpstream stores the upstream's document, or what a failed transform
\* left of it.
LEMMA PutEntry ==
    ASSUME Core, Put
    PROVE  \E v \in Versions : \E body \in Prepared(Whole(v)) :
             /\ body \in Bodies /\ Stored(body) \in Entries
             /\ entry' \in {entry, Stored(body)}
             /\ "error" \notin Events => entry' = Stored(body)
             /\ \/ Returns([code |-> 200, body |-> body])
                \/ "error" \in Events /\ Returns(Failed)
<1>1. PICK v \in Versions : flight.resp.body = Whole(v)
  <2>1. flight.pc = "put" /\ flight.resp.code = 200
    BY DEF Put, Core, FlightCarries
  <2>2. \E v \in Versions : flight.resp = Response(200, Whole(v))
    BY <2>1 DEF Core, FlightCarries
  <2> QED BY <2>2 DEF Response
<1>2. PICK body \in Prepared(Whole(v)) :
        /\ entry' \in {entry, Stored(body)}
        /\ "error" \notin Events => entry' = Stored(body)
        /\ \/ Returns([code |-> 200, body |-> body])
           \/ "error" \in Events /\ Returns(Failed)
  BY <1>1 DEF Put
<1>3. body \in Bodies /\ body.ver = v
  BY <1>2 DEF Prepared, Whole, Bodies
<1>4. Stored(body) \in Entries
  BY <1>3 DEF Stored, Entries
<1> QED BY <1>2, <1>3, <1>4

\* A step of the flight.
LEMMA FlightKeepsCore ==
    ASSUME Core, FlightStep
    PROVE  Core'
<1>0. /\ flight \in Flights /\ entry \in Entries \cup {None} /\ negative \in BOOLEAN
      /\ Sound(cb) /\ Failed \in Answers
  BY CoreIsSound, AnswersOfFlight DEF Core, TypeOK
<1>1. CASE Recheck
  <2>1. Sound(cb')
    BY <1>0, <1>1, BreakerStaysSound DEF Recheck, LookAtBreaker
  <2>2. \/ \E a \in Answers : Returns(a)
        \/ GoesTo("allow")
    BY <1>0, <1>1, AnswersOfFlight DEF Recheck, Servable
  <2>3. CASE GoesTo("allow")
    <3>1. flight' \in Flights /\ flight'.pc = "allow" /\ FlightCarries'
      BY <1>0, <1>1, <2>3 DEF Recheck, GoesTo, Flights, FlightCalls, Core, FlightCarries, NoFlight
    <3> QED BY <1>0, <1>1, <2>1, <3>1, CoreInside DEF Recheck
  <2>4. ASSUME NEW a \in Answers, Returns(a) PROVE Core'
    BY <1>0, <1>1, <2>1, <2>4, ReturnsCarries, CoreInside DEF Recheck
  <2> QED BY <2>2, <2>3, <2>4
<1>2. CASE AskBreaker
  <2>1. Sound(cb')
    BY <1>0, <1>2, BreakerStaysSound DEF AskBreaker
  <2>2. CASE StaleOr(Failed)
    BY <1>0, <1>2, <2>1, <2>2, ReturnsCarries, CoreInside DEF AskBreaker
  <2>3. CASE GoesTo("headers")
    <3>1. flight' \in Flights /\ flight'.pc = "headers" /\ FlightCarries'
      BY <1>0, <1>2, <2>3 DEF AskBreaker, GoesTo, Flights, FlightCalls, Core, FlightCarries, NoFlight
    <3> QED BY <1>0, <1>2, <2>1, <3>1, CoreInside DEF AskBreaker
  <2> QED BY <1>2, <2>2, <2>3 DEF AskBreaker
<1>3. CASE AddRevalidationHeaders
  <2>1. PICK v \in Versions \cup {None} : flight' = [flight EXCEPT !.pc = "fetch", !.cond = v]
    <3>1. CASE GoesTo("fetch")
      <4>1. flight.cond \in Versions \cup {None}
        BY <1>0 DEF Flights
      <4>2. flight' = [flight EXCEPT !.pc = "fetch", !.cond = flight.cond]
        BY <1>0, <3>1 DEF GoesTo, Flights
      <4> QED BY <4>1, <4>2
    <3>2. CASE ~GoesTo("fetch")
      <4>1. entry # None => entry.etag \in Versions \cup {None}
        BY <1>0 DEF Entries
      <4> QED BY <1>3, <3>2, <4>1 DEF AddRevalidationHeaders
    <3> QED BY <3>1, <3>2
  <2>2. flight' \in Flights /\ flight'.pc = "fetch"
    <3>1. flight' = [pc |-> "fetch", cond |-> v, tries |-> flight.tries, resp |-> flight.resp,
                     held |-> flight.held, gone |-> flight.gone, out |-> flight.out]
      BY <1>0, <2>1 DEF Flights
    <3> QED BY <1>0, <3>1 DEF Flights, FlightCalls
  <2>3. FlightCarries'
    BY <2>2 DEF FlightCarries
  <2> QED BY <1>0, <1>3, <2>2, <2>3, CoreInside DEF AddRevalidationHeaders
<1>4. CASE Retry
  <2>1. PICK n \in 0..MaxRetries : flight' = [flight EXCEPT !.tries = n]
    BY <1>0, <1>4, FacetAssumption DEF Retry, TriesLeft, Flights
  <2>2. flight' \in Flights /\ flight'.pc = flight.pc /\ flight'.cond = flight.cond
    BY <1>0, <2>1 DEF Flights
  <2>3. FlightCarries'
    BY <1>4, <2>2 DEF Retry, Core, FlightCarries
  <2> QED BY <1>0, <1>4, <2>2, <2>3, CoreInside DEF Retry
<1>5. CASE FetchFails
  <2>1. Sound(cb')
    BY <1>0, <1>5, RecordStaysSound DEF FetchFails
  <2> QED BY <1>0, <1>5, <2>1, ReturnsCarries, CoreInside DEF FetchFails
<1>6. CASE FetchAnswered
  <2>1. PICK resp \in UpstreamAnswers(flight.cond) :
          /\ ~IsErr(resp)
          /\ cb' = RecordStatus(cb, resp.code)
          /\ flight' =
               [NoFlight EXCEPT
                  !.pc = IF resp.code = 304 /\ flight.cond # None THEN "revGet" ELSE "status",
                  !.gone = IF resp.code = 304 /\ flight.cond # None THEN "refetch" ELSE "bare",
                  !.resp = resp]
    BY <1>6 DEF FetchAnswered
  <2>2. /\ resp \in Responses
        /\ resp.code # 0
        /\ resp.code = 200 => \E v \in Versions : resp = Response(200, Whole(v))
    BY <1>0, <2>1, WhatComesBack DEF Flights, Core, TypeOK
  <2>3. Sound(cb')
    BY <1>0, <2>1, RecordStaysSound
  <2>4. PICK p \in {"revGet", "status"}, g \in {"refetch", "bare"} :
          flight' = [NoFlight EXCEPT !.pc = p, !.gone = g, !.resp = resp]
    BY <2>1
  <2>5. flight' \in Flights
    <3>1. flight' = [pc |-> p, cond |-> None, tries |-> 0, resp |-> resp, held |-> None,
                     gone |-> g, out |-> None]
      BY <2>4 DEF NoFlight
    <3>2. 0 \in 0..MaxRetries
      BY FacetAssumption
    <3> QED BY <2>2, <3>1, <3>2 DEF Flights, FlightCalls
  <2>6. flight'.pc = p /\ flight'.resp = resp /\ resp # None
    BY <2>2, <2>4, AnswersOfFlight DEF NoFlight
  <2>7. FlightCarries'
    BY <2>1, <2>2, <2>6 DEF FlightCarries
  <2> QED BY <1>0, <1>6, <2>3, <2>5, <2>6, <2>7, CoreInside DEF FetchAnswered
<1>7. CASE RefetchFails
  BY <1>0, <1>7, ReturnsCarries, CoreInside DEF RefetchFails
<1>8. ASSUME flight.pc # "none", Unservable
      PROVE  flight' \in Flights /\ flight'.pc # "none" /\ FlightCarries'
  <2>1. CASE Returns(Passed(304))
    BY <2>1, ReturnsCarries, AnswersOfFlight
  <2>2. CASE flight' = [NoFlight EXCEPT !.pc = "refetch"]
    <3>1. flight' = [pc |-> "refetch", cond |-> None, tries |-> 0, resp |-> None, held |-> None,
                     gone |-> "bare", out |-> None]
      BY <2>2 DEF NoFlight
    <3>2. 0 \in 0..MaxRetries
      BY FacetAssumption
    <3>3. flight' \in Flights
      BY <3>1, <3>2 DEF Flights, FlightCalls
    <3> QED BY <3>1, <3>3 DEF FlightCarries
  <2> QED BY <1>8, <2>1, <2>2 DEF Unservable
<1>9. CASE RevalidatedGet
  <2>1. CASE Unservable
    BY <1>0, <1>8, <1>9, <2>1, CoreInside DEF RevalidatedGet
  <2>2. CASE entry # None /\ flight' = [flight EXCEPT !.pc = "revPut", !.held = entry]
    <3>0. flight' = [pc |-> "revPut", cond |-> flight.cond, tries |-> flight.tries,
                     resp |-> flight.resp, held |-> entry, gone |-> flight.gone,
                     out |-> flight.out]
      BY <1>0, <2>2 DEF Flights
    <3>1. flight' \in Flights /\ flight'.pc = "revPut" /\ flight'.held # None
      BY <1>0, <2>2, <3>0 DEF Flights, FlightCalls
    <3>2. FlightCarries'
      BY <3>1 DEF FlightCarries
    <3> QED BY <1>0, <1>9, <3>1, <3>2, CoreInside DEF RevalidatedGet
  <2> QED BY <1>9, <2>1, <2>2 DEF RevalidatedGet
<1>10. CASE RevalidatedPut
  <2>1. flight.held \in Entries
    BY <1>10, RevalidatedEntry
  <2>2. entry' \in Entries \cup {None}
    BY <1>0, <1>10, RevalidatedEntry
  <2>3. CASE Unservable
    BY <1>0, <1>8, <1>10, <2>2, <2>3, CoreInside DEF RevalidatedPut
  <2>4. CASE Returns(FromEntry(flight.held))
    BY <1>0, <1>10, <2>1, <2>2, <2>4, ReturnsCarries, AnswersOfFlight, CoreInside DEF RevalidatedPut
  <2> QED BY <1>10, <2>3, <2>4 DEF RevalidatedPut
<1>11. CASE HandleStatus
  <2>1. /\ flight.pc = "status" /\ flight.resp \in Responses /\ flight.resp.code # 0
        /\ flight.resp.code = 200 =>
             \E v \in Versions : flight.resp = Response(200, Whole(v))
    BY <1>0, <1>11 DEF HandleStatus, Core, FlightCarries, Flights
  <2>3. \/ \E a \in Answers : Returns(a) \/ StaleOr(a)
        \/ GoesTo("revGet")
        \/ flight.resp.code = 200 /\ GoesTo("check")
    BY <1>11, StatusCases, AnswersOfFlight
  <2>4. negative' \in BOOLEAN
    BY <1>11 DEF HandleStatus
  <2>5. ASSUME NEW a \in Answers, Returns(a) \/ StaleOr(a) PROVE Core'
    BY <1>0, <1>11, <2>4, <2>5, ReturnsCarries, CoreInside DEF HandleStatus
  <2>6. CASE GoesTo("revGet")
    <3>1. flight' \in Flights /\ flight'.pc = "revGet"
      BY <1>0, <2>6 DEF GoesTo, Flights, FlightCalls
    <3>2. FlightCarries'
      BY <3>1 DEF FlightCarries
    <3> QED BY <1>0, <1>11, <2>4, <3>1, <3>2, CoreInside DEF HandleStatus
  <2>7. CASE flight.resp.code = 200 /\ GoesTo("check")
    <3>1. flight' \in Flights /\ flight'.pc = "check" /\ flight'.resp = flight.resp
      BY <1>0, <2>7 DEF GoesTo, Flights, FlightCalls
    <3>2. FlightCarries'
      BY <2>1, <2>7, <3>1, AnswersOfFlight DEF FlightCarries
    <3> QED BY <1>0, <1>11, <2>4, <3>1, <3>2, CoreInside DEF HandleStatus
  <2> QED BY <2>3, <2>5, <2>6, <2>7
<1>12. CASE TryStaleCache
  <2>1. CASE entry # None /\ Returns(FromEntry(entry))
    BY <1>0, <1>12, <2>1, ReturnsCarries, AnswersOfFlight, CoreInside DEF TryStaleCache
  <2>2. CASE GoesTo("return")
    <3>1. flight' \in Flights /\ flight'.pc = "return" /\ flight'.out = flight.out
      BY <1>0, <2>2 DEF GoesTo, Flights, FlightCalls
    <3>2. FlightCarries'
      BY <1>12, <3>1 DEF TryStaleCache, Core, FlightCarries
    <3> QED BY <1>0, <1>12, <3>1, <3>2, CoreInside DEF TryStaleCache
  <2> QED BY <1>12, <2>1, <2>2 DEF TryStaleCache
<1>13. CASE ServeInternalOverride
  <2>1. CASE \E a \in Answers : Returns(a)
    BY <1>0, <1>13, <2>1, ReturnsCarries, CoreInside DEF ServeInternalOverride
  <2>2. CASE GoesTo("put")
    <3>1. flight' \in Flights /\ flight'.pc = "put" /\ flight'.resp = flight.resp
      BY <1>0, <2>2 DEF GoesTo, Flights, FlightCalls
    <3>2. FlightCarries'
      BY <1>13, <3>1 DEF ServeInternalOverride, Core, FlightCarries
    <3> QED BY <1>0, <1>13, <3>1, <3>2, CoreInside DEF ServeInternalOverride
  <2> QED BY <1>0, <1>13, <2>1, <2>2, AnswersOfFlight DEF ServeInternalOverride
<1>14. CASE Put
  <2>1. PICK body \in Bodies :
          /\ Stored(body) \in Entries /\ entry' \in {entry, Stored(body)}
          /\ Returns(Failed) \/ Returns([code |-> 200, body |-> body])
    BY <1>14, PutEntry
  <2>2. [code |-> 200, body |-> body] \in Answers
    BY DEF Answers
  <2> QED BY <1>0, <1>14, <2>1, <2>2, ReturnsCarries, CoreInside DEF Put
<1>15. CASE Finish
  <2>1. flight' = NoFlight /\ flight' \in Flights
    BY <1>15, FacetAssumption DEF Finish, NoFlight, Flights, FlightCalls
  <2>2. FlightCarries'
    BY <2>1 DEF FlightCarries, NoFlight
  <2>3. NobodyStranded' /\ pc' \in [Callers -> {"idle", "lookup", "join", "waiting"}]
    BY <1>15 DEF Finish, NobodyStranded, Core, TypeOK
  <2>4. answer' \in [Callers -> Answers \cup {None}]
    BY <1>0, <1>15 DEF Finish, Core, TypeOK, Flights
  <2> QED BY <1>15, <2>1, <2>2, <2>3, <2>4 DEF Finish, Core, TypeOK, ProbesCounted, env
<1> QED BY <1>1, <1>2, <1>3, <1>4, <1>5, <1>6, <1>7, <1>9, <1>10, <1>11, <1>12, <1>13,
           <1>14, <1>15 DEF FlightStep

\* Core holds after every step, whatever the rest of the server does.
LEMMA CoreStep == Core /\ [Next]_vars => Core'
<1>1. Core /\ UNCHANGED vars => Core'
  BY DEF vars, Core, TypeOK, ProbesCounted, NobodyStranded, FlightCarries
<1> QED BY <1>1, CallersKeepCore, FlightKeepsCore, OthersKeepCore DEF Next

\* What the callers and the rest of the server leave to the flight: they start
\* it at its recheck, or do not touch it.
LEMMA FlightsStartAtRecheck ==
    ASSUME Core,
           \/ \E c \in Callers : Arrive(c) \/ Step(c) \/ Cancel(c)
           \/ Tick \/ Observe \/ Expire \/ NegativeExpires \/ UpstreamChanges \/ UpdateRemote
           \/ Remove \/ Publish
    PROVE  \/ flight' = flight
           \/ /\ flight.pc = "none" /\ flight' = [NoFlight EXCEPT !.pc = "recheck"]
              /\ remote /\ UNCHANGED <<entry, env, answer, warm>>
<1>1. ASSUME NEW c \in Callers, Join(c)
      PROVE  \/ flight' = flight
             \/ /\ flight.pc = "none" /\ flight' = [NoFlight EXCEPT !.pc = "recheck"]
                /\ remote /\ UNCHANGED <<entry, env, answer, warm>>
  BY <1>1 DEF Join, Core, FlightCarries, NoFlight
<1>2. ASSUME NEW c \in Callers, Arrive(c) \/ Lookup(c) \/ Cancel(c)
      PROVE  flight' = flight
  BY <1>2 DEF Arrive, Lookup, Cancel
<1>3. ASSUME \/ Tick \/ Observe \/ Expire \/ NegativeExpires \/ UpstreamChanges
             \/ UpdateRemote \/ Remove \/ Publish
      PROVE  flight' = flight
  BY <1>3 DEF Tick, Observe, Expire, NegativeExpires, UpstreamChanges, UpdateRemote, Remove,
              Publish
<1> QED BY <1>1, <1>2, <1>3 DEF Step

\* What a step of the flight that is neither its recheck nor its end does to
\* the entry: nothing, unless it is a write, after which the flight is over.
LEMMA WritesComeLast ==
    ASSUME Core, FlightStep
    PROVE  \/ UNCHANGED entry
           \/ RevalidatedPut
           \/ Put /\ flight'.pc = "return"
BY DEF FlightStep, Recheck, AskBreaker, AddRevalidationHeaders, Retry, FetchFails, FetchAnswered,
       RefetchFails, RevalidatedGet, HandleStatus, TryStaleCache, ServeInternalOverride, Put,
       Finish, Returns, NoFlight

\* While nothing disturbs it, a flight goes on only as long as the entry
\* cannot answer its callers.
LEMMA NeededStep ==
    ASSUME Core, Undisturbed, FlightIsNeeded, [Next]_vars
    PROVE  FlightIsNeeded'
<1> DEFINE Outside == {"none", "recheck", "return"}
<1>1. ASSUME entry' = entry PROVE Current' <=> Current
  BY <1>1 DEF Current, Expired
<1>2. CASE FlightStep
  <2>1. flight.pc # "none"
    BY <1>2 DEF FlightStep, Recheck, AskBreaker, AddRevalidationHeaders, Retry, FetchFails,
                FetchAnswered, RefetchFails, RevalidatedGet, RevalidatedPut, HandleStatus,
                TryStaleCache, ServeInternalOverride, Put, Finish
  <2>2. CASE Recheck
    <3>1. entry' = entry
      BY <2>2 DEF Recheck
    <3>2. Current => Servable
      BY DEF Current, Servable
    <3>3. Current => flight'.pc = "return"
      BY <2>2, <3>2 DEF Recheck, Returns, NoFlight
    <3> QED BY <1>1, <3>1, <3>3 DEF FlightIsNeeded
  <2>3. CASE RevalidatedPut
    <3>1. flight'.pc = "return"
      BY <2>3 DEF RevalidatedPut, Undisturbed, Returns, NoFlight
    <3> QED BY <3>1 DEF FlightIsNeeded
  <2>4. CASE flight.pc = "return"
    <3>1. flight'.pc = "none"
      BY <1>2, <2>4 DEF FlightStep, Recheck, AskBreaker, AddRevalidationHeaders, Retry, FetchFails,
                FetchAnswered, RefetchFails, RevalidatedGet, RevalidatedPut, HandleStatus,
                TryStaleCache, ServeInternalOverride, Put, Finish, NoFlight
    <3> QED BY <3>1 DEF FlightIsNeeded
  <2>5. CASE flight.pc \notin Outside /\ ~RevalidatedPut
    <3>1. ~Current
      BY <2>5 DEF FlightIsNeeded, Core, TypeOK, Flights
    <3>2. entry' = entry \/ flight'.pc = "return"
      BY <1>2, <2>5, WritesComeLast
    <3> QED BY <1>1, <3>1, <3>2 DEF FlightIsNeeded
  <2>6. flight.pc = "recheck" => Recheck
    BY <1>2 DEF FlightStep, AskBreaker, AddRevalidationHeaders, Retry, FetchFails,
                FetchAnswered, RefetchFails, RevalidatedGet, RevalidatedPut, HandleStatus,
                TryStaleCache, ServeInternalOverride, Put, Finish
  <2> QED BY <2>1, <2>2, <2>3, <2>4, <2>5, <2>6
<1>3. CASE UNCHANGED vars
  BY <1>1, <1>3 DEF vars, FlightIsNeeded
<1>4. CASE ~FlightStep /\ ~UNCHANGED vars
  <2>1. \/ flight' = flight
        \/ flight' = [NoFlight EXCEPT !.pc = "recheck"]
    BY <1>4, FlightsStartAtRecheck DEF Next
  <2>2. CASE flight' = [NoFlight EXCEPT !.pc = "recheck"]
    BY <2>2 DEF FlightIsNeeded, NoFlight
  <2>3. CASE flight' = flight /\ flight.pc \notin Outside
    <3>1. ~Current
      BY <2>3 DEF FlightIsNeeded, Core, TypeOK, Flights
    <3>2. entry' = entry \/ Expire \/ Remove
      BY <1>4, <2>3 DEF Next, Step, Arrive, Lookup, Join, Cancel, Tick, Observe, NegativeExpires,
                        UpstreamChanges, UpdateRemote, Publish, Undisturbed
    <3>3. Expire => ~Current'
      BY DEF Expire, Current, Expired, Core, TypeOK, Entries
    <3>4. Remove => ~Current'
      BY DEF Remove, Current
    <3> QED BY <1>1, <3>1, <3>2, <3>3, <3>4 DEF FlightIsNeeded
  <2>4. CASE flight' = flight /\ flight.pc \in Outside
    BY <2>4 DEF FlightIsNeeded
  <2> QED BY <2>1, <2>2, <2>3, <2>4
<1> QED BY <1>2, <1>3, <1>4

\* A flight that returns an answer other than a 304 or a 502 is as asked.
LEMMA ReturnsAsAsked ==
    ASSUME NEW a \in Answers, a.code \notin {304, 502}, Returns(a) \/ StaleOr(a)
    PROVE  AnswersAsAsked'
BY ReturnsCarries DEF AnswersAsAsked

\* An upstream that only answers what it was asked never has the flight pass
\* a 304 on.
LEMMA AskedStep ==
    ASSUME Core, "odd" \notin Events, AnswersAsAsked, [Next]_vars
    PROVE  AnswersAsAsked'
<1>0. /\ flight \in Flights /\ entry \in Entries \cup {None}
      /\ Failed \in Answers /\ Failed.code = 0
      /\ \A e \in Entries : FromEntry(e) \in Answers /\ FromEntry(e).code = 200
      /\ \A code \in {403, 404, 429, 500, 503} :
           Passed(code) \in Answers /\ Passed(code).code = code
  BY AnswersOfFlight DEF Core, TypeOK, Failed, FromEntry, Passed
<1>1. CASE Recheck
  <2>1. CASE GoesTo("allow")
    BY <1>0, <1>1, <2>1 DEF GoesTo, AnswersAsAsked, Flights
  <2>2. CASE ~GoesTo("allow")
    BY <1>0, <1>1, <2>2, ReturnsAsAsked DEF Recheck, Servable
  <2> QED BY <2>1, <2>2
<1>2. CASE AskBreaker
  <2>1. CASE GoesTo("headers")
    BY <1>0, <2>1 DEF GoesTo, AnswersAsAsked, Flights
  <2>2. CASE StaleOr(Failed)
    BY <1>0, <2>2, ReturnsAsAsked
  <2> QED BY <1>2, <2>1, <2>2 DEF AskBreaker
<1>3. CASE AddRevalidationHeaders
  <2>1. flight'.pc = "fetch" /\ flight'.out = flight.out
    <3>1. \/ GoesTo("fetch")
          \/ \E v : flight' = [flight EXCEPT !.pc = "fetch", !.cond = v]
      BY <1>3 DEF AddRevalidationHeaders
    <3>2. ASSUME NEW v, flight' = [flight EXCEPT !.pc = "fetch", !.cond = v]
          PROVE  flight'.pc = "fetch" /\ flight'.out = flight.out
      BY <1>0, <3>2 DEF Flights
    <3>3. GoesTo("fetch") => flight'.pc = "fetch" /\ flight'.out = flight.out
      BY <1>0 DEF GoesTo, Flights
    <3> QED BY <3>1, <3>2, <3>3
  <2> QED BY <2>1 DEF AnswersAsAsked
<1>4. CASE Retry
  BY <1>0, <1>4 DEF Retry, AnswersAsAsked, Flights
<1>5. CASE FetchFails \/ RefetchFails
  BY <1>0, <1>5, ReturnsAsAsked DEF FetchFails, RefetchFails
<1>6. CASE FetchAnswered
  <2>1. PICK resp \in UpstreamAnswers(flight.cond) :
          flight' =
               [NoFlight EXCEPT
                  !.pc = IF resp.code = 304 /\ flight.cond # None THEN "revGet" ELSE "status",
                  !.gone = IF resp.code = 304 /\ flight.cond # None THEN "refetch" ELSE "bare",
                  !.resp = resp]
    BY <1>6 DEF FetchAnswered
  <2>2. resp.code # 206 /\ (resp.code = 304 => flight.cond # None)
    BY <1>0, <2>1, WhatComesBack DEF Flights, Core, TypeOK
  <2>3. CASE resp.code = 304
    BY <2>1, <2>2, <2>3 DEF AnswersAsAsked, NoFlight
  <2>4. CASE resp.code # 304
    BY <2>1, <2>2, <2>4 DEF AnswersAsAsked, NoFlight
  <2> QED BY <2>3, <2>4
<1>7. ASSUME Unservable, flight.gone = "refetch" PROVE AnswersAsAsked'
  BY <1>7 DEF Unservable, AnswersAsAsked, NoFlight
<1>8. CASE RevalidatedGet
  <2>1. CASE Unservable
    BY <1>7, <1>8, <2>1 DEF RevalidatedGet, AnswersAsAsked
  <2>2. CASE flight' = [flight EXCEPT !.pc = "revPut", !.held = entry]
    BY <1>0, <1>8, <2>2 DEF RevalidatedGet, AnswersAsAsked, Flights
  <2> QED BY <1>8, <2>1, <2>2 DEF RevalidatedGet
<1>9. CASE RevalidatedPut
  <2>1. flight.held \in Entries
    BY <1>9, RevalidatedEntry
  <2>2. CASE Unservable
    BY <1>7, <1>9, <2>2 DEF RevalidatedPut, AnswersAsAsked
  <2>3. CASE Returns(FromEntry(flight.held))
    BY <1>0, <2>1, <2>3, ReturnsAsAsked
  <2> QED BY <1>9, <2>2, <2>3 DEF RevalidatedPut
<1>10. CASE HandleStatus
  <2>1. flight.resp.code \notin {206, 304}
    BY <1>10 DEF HandleStatus, AnswersAsAsked
  <2>2. CASE GoesTo("check")
    BY <1>0, <2>2 DEF GoesTo, AnswersAsAsked, Flights
  <2>3. CASE ~GoesTo("check")
    <3>1. PICK code \in {403, 404, 429, 500, 503} : Returns(Passed(code)) \/ StaleOr(Passed(code))
      BY <1>10, <2>1, <2>3, StatusCases
    <3> QED BY <1>0, <3>1, ReturnsAsAsked
  <2> QED BY <2>2, <2>3
<1>11. CASE TryStaleCache
  <2>1. CASE entry # None /\ Returns(FromEntry(entry))
    BY <1>0, <2>1, ReturnsAsAsked
  <2>2. CASE GoesTo("return")
    BY <1>0, <2>2 DEF GoesTo, AnswersAsAsked, Flights
  <2> QED BY <1>11, <2>1, <2>2 DEF TryStaleCache
<1>12. CASE ServeInternalOverride
  <2>1. CASE GoesTo("put")
    BY <1>0, <2>1 DEF GoesTo, AnswersAsAsked, Flights
  <2>2. CASE ~GoesTo("put")
    BY <1>0, <1>12, <2>2, ReturnsAsAsked DEF ServeInternalOverride
  <2> QED BY <2>1, <2>2
<1>13. CASE Put
  <2>1. flight'.pc = "return" /\ flight'.out.code \in {0, 200}
    <3>1. \E b : Returns(Failed) \/ Returns([code |-> 200, body |-> b])
      BY <1>13 DEF Put
    <3>2. ASSUME NEW a, Returns(a) PROVE flight'.pc = "return" /\ flight'.out = a
      BY <3>2 DEF Returns, NoFlight
    <3>3. Returns(Failed) => flight'.pc = "return" /\ flight'.out.code = 0
      BY <3>2 DEF Failed
    <3>4. ASSUME NEW b, Returns([code |-> 200, body |-> b])
          PROVE  flight'.pc = "return" /\ flight'.out.code = 200
      BY <3>2, <3>4
    <3> QED BY <3>1, <3>3, <3>4
  <2> QED BY <2>1 DEF AnswersAsAsked
<1>14. CASE Finish
  BY <1>14 DEF Finish, AnswersAsAsked, NoFlight
<1>15. CASE UNCHANGED vars
  BY <1>15 DEF vars, AnswersAsAsked
<1>16. CASE ~FlightStep /\ ~UNCHANGED vars
  <2>1. flight' = flight \/ flight' = [NoFlight EXCEPT !.pc = "recheck"]
    BY <1>16, FlightsStartAtRecheck DEF Next
  <2> QED BY <2>1 DEF AnswersAsAsked, NoFlight
<1> QED BY <1>1, <1>2, <1>3, <1>4, <1>5, <1>6, <1>8, <1>9, <1>10, <1>11, <1>12, <1>13,
           <1>14, <1>15, <1>16 DEF FlightStep

\* Only the check for an internal version leads a flight to its store.
LEMMA PutFollowsCheck ==
    ASSUME Core, FlightStep, ~ServeInternalOverride
    PROVE  flight'.pc # "put"
<1>0. flight \in Flights
  BY DEF Core, TypeOK
<1>1. CASE HandleStatus
  <2>1. \/ \E a : Returns(a) \/ StaleOr(a)
        \/ GoesTo("revGet") \/ GoesTo("check")
    BY <1>1, StatusCases
  <2> QED BY <1>0, <2>1 DEF Returns, StaleOr, GoesTo, NoFlight, Flights
<1>2. CASE FetchAnswered
  BY <1>2 DEF FetchAnswered, NoFlight
<1>3. CASE RevalidatedGet \/ RevalidatedPut
  <2>1. \/ flight' = [flight EXCEPT !.pc = "revPut", !.held = entry]
        \/ Unservable \/ \E a : Returns(a)
    BY <1>3 DEF RevalidatedGet, RevalidatedPut
  <2> QED BY <1>0, <2>1 DEF Unservable, Returns, NoFlight, Flights
<1>4. CASE Recheck \/ AskBreaker \/ AddRevalidationHeaders
  <2>1. flight'.pc \in {"return", "stale", "allow", "headers", "fetch"}
    BY <1>0, <1>4 DEF Recheck, AskBreaker, AddRevalidationHeaders, Returns, StaleOr, GoesTo,
                      NoFlight, Flights
  <2> QED BY <2>1
<1>5. CASE Retry \/ FetchFails \/ RefetchFails
  BY <1>0, <1>5 DEF Retry, FetchFails, RefetchFails, Returns, StaleOr, NoFlight, Flights
<1>6. CASE TryStaleCache \/ Put \/ Finish
  <2>1. (\E a : Returns(a)) \/ GoesTo("return") \/ flight' = NoFlight
    BY <1>6 DEF TryStaleCache, Put, Finish
  <2>2. ASSUME NEW a, Returns(a) PROVE flight'.pc = "return"
    BY <2>2 DEF Returns, NoFlight
  <2>3. GoesTo("return") \/ flight' = NoFlight => flight'.pc # "put"
    BY <1>0 DEF GoesTo, NoFlight, Flights
  <2> QED BY <2>1, <2>2, <2>3
<1> QED BY <1>1, <1>2, <1>3, <1>4, <1>5, <1>6 DEF FlightStep

\* A version becomes internal between flights, and no flight stores a body
\* without asking whether it has.
LEMMA InternalStep ==
    ASSUME Core, "publish" \notin Events, InternalIsChecked, [Next]_vars
    PROVE  InternalIsChecked'
<1>1. CASE FlightStep
  <2>1. internal' = internal
    BY <1>1 DEF FlightStep, Recheck, AskBreaker, AddRevalidationHeaders, Retry, FetchFails,
                FetchAnswered, RefetchFails, RevalidatedGet, RevalidatedPut, HandleStatus,
                TryStaleCache, ServeInternalOverride, Put, Finish, env
  <2>2. CASE ServeInternalOverride
    BY <2>1, <2>2 DEF ServeInternalOverride, InternalIsChecked, Returns, GoesTo, NoFlight
  <2>3. CASE ~ServeInternalOverride
    BY <1>1, <2>1, <2>3, PutFollowsCheck DEF InternalIsChecked
  <2> QED BY <2>2, <2>3
<1>2. CASE UNCHANGED vars
  BY <1>2 DEF vars, InternalIsChecked
<1>3. CASE ~FlightStep /\ ~UNCHANGED vars
  <2>1. \/ flight' = flight
        \/ flight' = [NoFlight EXCEPT !.pc = "recheck"]
    BY <1>3, FlightsStartAtRecheck DEF Next
  <2>2. flight'.pc = "put" => flight.pc = "put"
    BY <2>1 DEF NoFlight
  <2>3. CASE Publish
    BY <2>2, <2>3 DEF Publish, InternalIsChecked
  <2>4. CASE ~Publish
    <3>1. internal' = internal
      BY <1>3, <2>4 DEF Next, Step, Arrive, Lookup, Join, Cancel, Tick, Observe, Expire,
                        NegativeExpires, UpstreamChanges, UpdateRemote, Remove, env
    <3> QED BY <2>2, <3>1 DEF InternalIsChecked
  <2> QED BY <2>3, <2>4
<1> QED BY <1>1, <1>2, <1>3

\* When an answer is not bad.
LEMMA GoodAnswers ==
    /\ Bad(Failed)
    /\ \A e \in Entries : ~Bad(FromEntry(e))
    /\ \A code \in {403, 404, 429} : ~Bad(Passed(code))
    /\ \A b : ~Bad([code |-> 200, body |-> b])
BY DEF Bad, Failed, FromEntry, Passed

\* A flight that returns something good, or has found nothing stored, is one
\* that fails only cold.
LEMMA ReturnsCold ==
    ASSUME Core, Calm, FailsOnlyCold, FlightStep, UNCHANGED <<entry, env, pc, warm>>,
           NEW a \in Answers, Returns(a), Bad(a) => entry = None
    PROVE  FailsOnlyCold'
<1>1. flight.pc # "none"
  BY DEF FlightStep, Recheck, AskBreaker, AddRevalidationHeaders, Retry, FetchFails,
         FetchAnswered, RefetchFails, RevalidatedGet, RevalidatedPut, HandleStatus,
         TryStaleCache, ServeInternalOverride, Put, Finish
<1>2. flight'.pc = "return" /\ flight'.out = a
  BY ReturnsCarries
<1> QED BY <1>1, <1>2 DEF FailsOnlyCold, env

\* A flight that goes on is one that fails only cold.
LEMMA GoesOnCold ==
    ASSUME Core, Calm, FailsOnlyCold, FlightStep, UNCHANGED <<entry, env, pc, warm>>,
           flight'.pc # "return", flight'.pc = "refetch" => entry = None
    PROVE  FailsOnlyCold'
<1>1. flight.pc # "none"
  BY DEF FlightStep, Recheck, AskBreaker, AddRevalidationHeaders, Retry, FetchFails,
         FetchAnswered, RefetchFails, RevalidatedGet, RevalidatedPut, HandleStatus,
         TryStaleCache, ServeInternalOverride, Put, Finish
<1> QED BY <1>1 DEF FailsOnlyCold, env

\* In a calm server a flight fails only where no copy is stored.
LEMMA ColdFlight ==
    ASSUME Core, Calm, AnswersAsAsked, FailsOnlyCold, FlightStep
    PROVE  FailsOnlyCold'
<1>0. /\ flight \in Flights /\ entry \in Entries \cup {None}
      /\ "error" \notin Events /\ (flight.pc # "none" => remote)
  BY DEF Core, TypeOK, Calm, FailsOnlyCold
<1> USE DEF callers
<1>1. CASE Recheck
  <2>1. CASE GoesTo("allow")
    BY <1>0, <1>1, <2>1, GoesOnCold DEF Recheck, GoesTo, Flights
  <2>2. CASE ~GoesTo("allow")
    BY <1>0, <1>1, <2>2, ReturnsCold, GoodAnswers, AnswersOfFlight DEF Recheck, Servable
  <2> QED BY <2>1, <2>2
<1>2. CASE AskBreaker
  BY <1>0, <1>2, GoesOnCold DEF AskBreaker, GoesTo, StaleOr, NoFlight, Flights
<1>3. CASE AddRevalidationHeaders
  BY <1>0, <1>3, GoesOnCold DEF AddRevalidationHeaders, Flights
<1>4. CASE Retry
  BY <1>0, <1>4, GoesOnCold DEF Retry, Flights, FailsOnlyCold
<1>5. CASE FetchFails
  BY <1>0, <1>5, GoesOnCold DEF FetchFails, StaleOr, NoFlight
<1>6. CASE FetchAnswered
  <2>1. flight'.pc \in {"revGet", "status"}
    BY <1>6 DEF FetchAnswered, NoFlight
  <2> QED BY <1>6, <2>1, GoesOnCold DEF FetchAnswered
<1>7. CASE RefetchFails
  BY <1>0, <1>7, ReturnsCold, AnswersOfFlight DEF RefetchFails, FailsOnlyCold
<1>8. CASE RevalidatedGet
  <2>1. CASE entry = None
    BY <1>0, <1>8, <2>1, GoesOnCold DEF RevalidatedGet, Unservable, AnswersAsAsked, NoFlight
  <2>2. CASE entry # None
    BY <1>0, <1>8, <2>2, GoesOnCold DEF RevalidatedGet, Flights
  <2> QED BY <2>1, <2>2
<1>9. CASE RevalidatedPut
  <2>1. flight.held \in Entries /\ flight.pc # "none"
    BY <1>9, RevalidatedEntry DEF RevalidatedPut
  <2>2. Returns(FromEntry(flight.held)) /\ UNCHANGED <<env, pc, warm>>
    BY <1>0, <1>9 DEF RevalidatedPut
  <2>3. flight'.pc = "return" /\ ~Bad(flight'.out)
    BY <2>1, <2>2, ReturnsCarries, AnswersOfFlight, GoodAnswers
  <2>4. remote /\ remote' = remote
    BY <1>0, <2>1, <2>2 DEF env
  <2>5. entry # None => entry' # None
    BY <1>9, NoneAssumption, RevalidatedEntry
  <2> QED BY <2>2, <2>3, <2>4, <2>5 DEF FailsOnlyCold
<1>10. CASE HandleStatus
  <2>0. flight.resp.code \notin {206, 304}
    BY <1>10 DEF HandleStatus, AnswersAsAsked
  <2>1. CASE GoesTo("check")
    BY <1>0, <1>10, <2>1, GoesOnCold DEF HandleStatus, GoesTo, Flights
  <2>2. ASSUME NEW code \in {403, 404, 429}, Returns(Passed(code)) PROVE FailsOnlyCold'
    BY <1>10, <2>2, ReturnsCold, GoodAnswers, AnswersOfFlight DEF HandleStatus
  <2>3. ASSUME NEW a, StaleOr(a) PROVE FailsOnlyCold'
    BY <1>10, <2>3, GoesOnCold DEF HandleStatus, StaleOr, NoFlight
  <2> QED BY <1>10, <2>0, <2>1, <2>2, <2>3, StatusCases
<1>11. CASE TryStaleCache
  <2>1. CASE entry # None
    BY <1>0, <1>11, <2>1, ReturnsCold, GoodAnswers, AnswersOfFlight DEF TryStaleCache
  <2>2. CASE entry = None
    BY <1>0, <1>11, <2>2 DEF TryStaleCache, GoesTo, Flights, FailsOnlyCold, env
  <2> QED BY <2>1, <2>2
<1>12. CASE ServeInternalOverride
  <2>1. CASE GoesTo("put")
    BY <1>0, <1>12, <2>1, GoesOnCold DEF ServeInternalOverride, GoesTo, Flights
  <2>2. CASE Returns(IF entry = None THEN Failed ELSE FromEntry(entry))
    BY <1>0, <1>12, <2>2, ReturnsCold, GoodAnswers, AnswersOfFlight DEF ServeInternalOverride
  <2> QED BY <1>0, <1>12, <2>1, <2>2 DEF ServeInternalOverride
<1>13. CASE Put
  <2>1. PICK b : /\ entry' = Stored(b) /\ Stored(b) \in Entries
                 /\ Returns([code |-> 200, body |-> b])
    BY <1>0, <1>13, PutEntry
  <2>2. flight'.pc = "return" /\ ~Bad(flight'.out)
    BY <2>1, GoodAnswers DEF Returns, NoFlight
  <2>3. remote /\ remote' = remote /\ UNCHANGED <<pc, warm>>
    BY <1>0, <1>13 DEF Put, env
  <2>4. entry' # None
    BY <2>1, NoneAssumption
  <2> QED BY <2>2, <2>3, <2>4 DEF FailsOnlyCold
<1>14. CASE Finish
  BY <1>0, <1>14 DEF Finish, FailsOnlyCold, NoFlight, env, Core, TypeOK
<1> QED BY <1>1, <1>2, <1>3, <1>4, <1>5, <1>6, <1>7, <1>8, <1>9, <1>10, <1>11, <1>12,
           <1>13, <1>14 DEF FlightStep

\* In a calm server a caller who found a copy finds one whenever it looks.
LEMMA ColdStep ==
    ASSUME Core, Calm, AnswersAsAsked, FailsOnlyCold, [Next]_vars
    PROVE  FailsOnlyCold'
<1> USE DEF env, callers
<1>0. Core'
  BY CoreStep
<1>1. CASE FlightStep
  BY <1>1, ColdFlight
<1>2. CASE UNCHANGED vars
  BY <1>2 DEF vars, FailsOnlyCold
<1>3. ASSUME NEW c \in Callers, Arrive(c) PROVE FailsOnlyCold'
  BY <1>3 DEF Arrive, FailsOnlyCold, Core, TypeOK
<1>4. ASSUME NEW c \in Callers, Lookup(c) PROVE FailsOnlyCold'
  <2>1. "error" \notin Events
    BY DEF Calm
  <2>2. CASE Servable
    BY <1>4, <2>1, <2>2 DEF Lookup, AnswerTo, FailsOnlyCold, Core, TypeOK
  <2>3. CASE ~Servable
    <3>1. warm[c] => remote
      BY <2>3 DEF Servable, UpstreamReachable, FailsOnlyCold
    <3> QED BY <1>4, <2>1, <2>3, <3>1 DEF Lookup, FailsOnlyCold, Core, TypeOK
  <2> QED BY <2>2, <2>3
<1>5. ASSUME NEW c \in Callers, Join(c) PROVE FailsOnlyCold'
  <2>1. CASE remote
    BY <1>5, <2>1 DEF Join, FailsOnlyCold, Core, TypeOK, Flights
  <2>2. CASE ~remote
    BY <1>5, <2>2 DEF Join, AnswerTo, FailsOnlyCold, Core, TypeOK
  <2> QED BY <2>1, <2>2
<1>6. ASSUME NEW c \in Callers, Cancel(c) PROVE FailsOnlyCold'
  BY <1>6 DEF Cancel, AnswerTo, FailsOnlyCold, Core, TypeOK
<1>7. CASE Tick \/ Observe \/ NegativeExpires \/ UpstreamChanges
  BY <1>7 DEF Tick, Observe, NegativeExpires, UpstreamChanges, FailsOnlyCold
<1>8. CASE Expire
  <2>1. entry' \in Entries /\ entry'.repair = entry.repair
    BY <1>8 DEF Expire, Core, TypeOK, Entries
  <2>2. entry' # None
    BY <2>1, NoneAssumption
  <2> QED BY <1>8, <2>1, <2>2 DEF Expire, FailsOnlyCold
<1>9. CASE UpdateRemote
  BY <1>9 DEF UpdateRemote, Calm
<1>10. CASE Remove
  BY <1>10 DEF Remove, FailsOnlyCold
<1>11. CASE Publish
  <2>1. flight.pc = "none" /\ flight' = flight
    BY <1>11 DEF Publish, Calm
  <2>2. entry' \in Entries /\ ~entry'.repair
    BY <1>11 DEF Publish, Entries, Bodies, Whole
  <2>3. entry' # None
    BY <2>2, NoneAssumption
  <2> QED BY <1>11, <2>1, <2>2, <2>3 DEF Publish, FailsOnlyCold
<1> QED BY <1>1, <1>2, <1>3, <1>4, <1>5, <1>6, <1>7, <1>8, <1>9, <1>10, <1>11 DEF Next, Step

\* Initially FacetInv holds: no flight, and a breaker that is closed.
LEMMA FacetInit == Init => FacetInv
<1>1. Init => Core
  BY CoreInit
<1>2. Init => FlightIsNeeded /\ AnswersAsAsked /\ InternalIsChecked /\ FailsOnlyCold
  BY DEF Init, NoFlight, FlightIsNeeded, AnswersAsAsked, InternalIsChecked, FailsOnlyCold
<1> QED BY <1>1, <1>2 DEF Core, FacetInv

\* FacetInv is inductive.
LEMMA FacetStep == FacetInv /\ [Next]_vars => FacetInv'
<1> SUFFICES ASSUME FacetInv, [Next]_vars PROVE FacetInv'
    OBVIOUS
<1>1. Core /\ Core'
  BY CoreStep DEF Core, FacetInv
<1>2. Undisturbed => FlightIsNeeded'
  BY <1>1, NeededStep DEF FacetInv
<1>3. "odd" \notin Events => AnswersAsAsked'
  BY <1>1, AskedStep DEF FacetInv
<1>4. "publish" \notin Events => InternalIsChecked'
  BY <1>1, InternalStep DEF FacetInv
<1>5. Calm => FailsOnlyCold'
  BY <1>1, ColdStep DEF FacetInv, Calm
<1> QED BY <1>1, <1>2, <1>3, <1>4, <1>5 DEF FacetInv, Core, Undisturbed, Calm

\* However callers, cancellations, retries, revalidations, time and the rest of
\* the server interleave, a waiter waits for a flight that is under way and the
\* flight carries what its next call needs.
THEOREM FacetInvariant == Spec => []FacetInv
BY FacetInit, FacetStep, PTL DEF Spec

\* "Only one goroutine fetches": however late the callers that started a
\* flight looked, it never stores over an entry they would have been served,
\* as long as nobody publishes the path and no transform fails meanwhile.
THEOREM NoSecondFetch ==
    ASSUME Undisturbed
    PROVE  Spec => NeverRefetchesFresh
<1>1. FacetInv /\ [Next]_vars => [Stores => ~Current]_vars
  BY DEF FacetInv, FlightIsNeeded, Stores, FlightCalls
<1> QED BY <1>1, FacetInvariant, PTL DEF Spec, NeverRefetchesFresh

\* "A bare 304 is an empty body it cannot use": with an upstream that sends a
\* 304 only to a validator no caller is answered one, though the entry may be
\* removed or evicted at any point of its revalidation and any call may fail.
THEOREM BareNeverPassedOn ==
    ASSUME "odd" \notin Events
    PROVE  Spec => []NoBare304
<1>1. Init => NoBare304
  BY DEF Init, NoBare304
<1>2. NoBare304 /\ FacetInv /\ [Next]_vars => NoBare304'
  <2> SUFFICES ASSUME NoBare304, FacetInv, [Next]_vars, NEW d \in Callers, answer'[d] # None,
                      answer'[d] # answer[d]
               PROVE  answer'[d].code # 304
      BY DEF NoBare304
  <2>0. Core /\ answer \in [Callers -> Answers \cup {None}]
    BY DEF FacetInv, Core, TypeOK
  <2>1. ASSUME NEW c \in Callers, Arrive(c) \/ Step(c) \/ Cancel(c)
        PROVE  answer'[d].code # 304
    BY <2>0, <2>1 DEF Arrive, Step, Lookup, Join, Cancel, AnswerTo, Passed, Failed, FromEntry
  <2>2. CASE Finish
    BY <2>0, <2>2 DEF Finish, FacetInv, AnswersAsAsked
  <2>3. CASE FlightStep /\ ~Finish
    <3>1. answer' = answer
      BY <2>3 DEF FlightStep, Recheck, AskBreaker, AddRevalidationHeaders, Retry, FetchFails,
                  FetchAnswered, RefetchFails, RevalidatedGet, RevalidatedPut, HandleStatus,
                  TryStaleCache, ServeInternalOverride, Put, callers
    <3> QED BY <3>1
  <2>4. CASE \/ Tick \/ Observe \/ Expire \/ NegativeExpires \/ UpstreamChanges
             \/ UpdateRemote \/ Remove \/ Publish \/ UNCHANGED vars
    BY <2>4 DEF Tick, Observe, Expire, NegativeExpires, UpstreamChanges, UpdateRemote, Remove,
                Publish, callers, vars
  <2> QED BY <2>1, <2>2, <2>3, <2>4 DEF Next
<1> QED BY <1>1, <1>2, FacetInvariant, PTL DEF Spec

\* "Falling through to stale cache instead", "an air-gapped box with a warm
\* cache must keep serving": in a calm server a caller during whose call a copy
\* was stored is never answered an error or a 5xx, whatever the upstream and
\* the breaker do, and whichever flight it joined.
THEOREM WarmCallersAreServed ==
    ASSUME Calm
    PROVE  Spec => []WarmNeverFails
<1>1. Init => WarmNeverFails
  BY DEF Init, WarmNeverFails
<1>2. WarmNeverFails /\ FacetInv /\ [Next]_vars => WarmNeverFails'
  <2> SUFFICES ASSUME WarmNeverFails, FacetInv, [Next]_vars, NEW d \in Callers,
                      pc'[d] = "idle", warm'[d], answer'[d] # None
               PROVE  ~Bad(answer'[d])
      BY DEF WarmNeverFails
  <2>0. /\ Core /\ FailsOnlyCold /\ entry \in Entries \cup {None} /\ "error" \notin Events
        /\ answer \in [Callers -> Answers \cup {None}]
        /\ pc \in [Callers -> {"idle", "lookup", "join", "waiting"}]
        /\ warm \in [Callers -> BOOLEAN]
    BY DEF FacetInv, Core, TypeOK, Calm
  <2>1. ASSUME NEW c \in Callers, Arrive(c)
        PROVE  ~Bad(answer'[d])
    <3>1. CASE d = c
      <4>1. answer'[d] = Passed(404)
        BY <2>0, <2>1, <3>1 DEF Arrive
      <4> QED BY <4>1, GoodAnswers
    <3>2. CASE d # c
      BY <2>0, <2>1, <3>2 DEF Arrive, WarmNeverFails
    <3> QED BY <3>1, <3>2
  <2>2. ASSUME NEW c \in Callers, Lookup(c)
        PROVE  ~Bad(answer'[d])
    <3>1. CASE d = c
      <4>1. entry # None /\ answer'[d] = FromEntry(entry)
        BY <2>0, <2>2, <3>1 DEF Lookup, Servable, AnswerTo
      <4> QED BY <2>0, <4>1, GoodAnswers
    <3>2. CASE d # c
      BY <2>0, <2>2, <3>2 DEF Lookup, AnswerTo, WarmNeverFails
    <3> QED BY <3>1, <3>2
  <2>3. ASSUME NEW c \in Callers, Join(c)
        PROVE  ~Bad(answer'[d])
    <3>1. d # c
      BY <2>0, <2>3 DEF Join, FailsOnlyCold
    <3> QED BY <2>0, <2>3, <3>1 DEF Join, AnswerTo, WarmNeverFails
  <2>4. ASSUME NEW c \in Callers, Cancel(c)
        PROVE  ~Bad(answer'[d])
    BY <2>0, <2>4 DEF Cancel, AnswerTo, WarmNeverFails
  <2>5. CASE Finish
    <3>1. CASE pc[d] = "waiting"
      <4>1. answer'[d] = flight.out /\ warm[d] /\ flight.pc = "return"
        BY <2>5, <3>1 DEF Finish
      <4> QED BY <2>0, <4>1 DEF FailsOnlyCold
    <3>2. CASE pc[d] # "waiting"
      BY <2>0, <2>5, <3>2 DEF Finish, WarmNeverFails
    <3> QED BY <3>1, <3>2
  <2>6. CASE FlightStep /\ ~Finish
    <3>1. UNCHANGED <<pc, answer, warm>>
      BY <2>6 DEF FlightStep, Recheck, AskBreaker, AddRevalidationHeaders, Retry, FetchFails,
                  FetchAnswered, RefetchFails, RevalidatedGet, RevalidatedPut, HandleStatus,
                  TryStaleCache, ServeInternalOverride, Put, callers
    <3> QED BY <3>1 DEF WarmNeverFails
  <2>7. CASE \/ Tick \/ Observe \/ Expire \/ NegativeExpires \/ UpstreamChanges
             \/ UpdateRemote \/ Publish \/ UNCHANGED vars
    <3>1. UNCHANGED <<pc, answer, warm>>
      BY <2>7 DEF Tick, Observe, Expire, NegativeExpires, UpstreamChanges, UpdateRemote,
                  Publish, callers, vars
    <3> QED BY <3>1 DEF WarmNeverFails
  <2>8. CASE Remove
    BY <2>8 DEF Remove
  <2> QED BY <2>1, <2>2, <2>3, <2>4, <2>5, <2>6, <2>7, <2>8 DEF Next, Step
<1> QED BY <1>1, <1>2, FacetInvariant, PTL DEF Spec

\* Every step leaves the bytes of the entry, removes or publishes it, or is
\* the store of a flight.
LEMMA WhoWritesBytes ==
    ASSUME Core, [Next]_vars
    PROVE  \/ entry' = None
           \/ entry # None /\ entry'.body = entry.body
           \/ Publish
           \/ Put /\ entry' # entry
<1>0. entry \in Entries \cup {None}
  BY DEF Core, TypeOK
<1>1. CASE FlightStep
  BY <1>1, WritesComeLast, RevalidatedEntry
<1>2. CASE Expire
  BY <1>0, <1>2 DEF Expire, Entries
<1>3. CASE ~FlightStep /\ ~Expire /\ ~Publish
  BY <1>3 DEF Next, Step, Arrive, Lookup, Join, Cancel, Tick, Observe, NegativeExpires,
              UpstreamChanges, UpdateRemote, Remove, vars
<1> QED BY <1>1, <1>2, <1>3

\* "The facet stores whole objects": neither a range, nor the empty body of a
\* 304, nor part of a document ever becomes the entry, unless bodies exceed
\* what the transform may buffer.
THEOREM WholeIsStored ==
    ASSUME ~(Transforms /\ "large" \in Events)
    PROVE  Spec => []EntryIsWhole
<1>1. Init => EntryIsWhole
  <2> SUFFICES ASSUME Init, entry # None PROVE entry.body.part = "whole"
      BY DEF EntryIsWhole
  <2>1. \E v \in Versions : entry.body = Whole(v)
    BY DEF Init
  <2> QED BY <2>1 DEF Whole
<1>2. EntryIsWhole /\ FacetInv /\ [Next]_vars => EntryIsWhole'
  <2> SUFFICES ASSUME EntryIsWhole, FacetInv, [Next]_vars PROVE EntryIsWhole'
      OBVIOUS
  <2>1. Core
    BY DEF FacetInv, Core
  <2>2. CASE Put /\ entry' # entry
    <3>1. PICK v \in Versions : \E body \in Prepared(Whole(v)) : entry' = Stored(body)
      BY <2>1, <2>2, PutEntry
    <3>2. entry' = Stored(Whole(v))
      BY <3>1 DEF Prepared
    <3> QED BY <3>2 DEF Stored, Whole, EntryIsWhole
  <2>3. CASE Publish
    BY <2>3 DEF Publish, EntryIsWhole, Whole
  <2> QED BY <2>1, <2>2, <2>3, WhoWritesBytes DEF EntryIsWhole
<1> QED BY <1>1, <1>2, FacetInvariant, PTL DEF Spec

\* "Upstream content is never stored over internal packages": once a version
\* is published, between fetches, only its own bytes are ever the entry, though
\* lookups fail, the upstream answers and later flights race.
THEOREM InternalWins ==
    ASSUME "publish" \notin Events
    PROVE  Spec => []InternalIsKept
<1>1. Init => InternalIsKept
  BY DEF Init, InternalIsKept
<1>2. InternalIsKept /\ FacetInv /\ [Next]_vars => InternalIsKept'
  <2> SUFFICES ASSUME InternalIsKept, FacetInv, [Next]_vars, internal', entry' # None
               PROVE  entry'.body.ver = Private
      BY DEF InternalIsKept
  <2>1. Core /\ InternalIsChecked
    BY DEF FacetInv, Core
  <2>2. CASE Publish
    BY <2>2 DEF Publish, Whole
  <2>3. CASE ~Publish
    <3>1. internal' = internal
      BY <2>3 DEF Next, FlightStep, Recheck, AskBreaker, AddRevalidationHeaders, Retry, FetchFails,
         FetchAnswered, RefetchFails, RevalidatedGet, RevalidatedPut, HandleStatus, TryStaleCache,
         ServeInternalOverride, Put, Finish, Step, Arrive, Lookup, Join, Cancel, Tick, Observe,
         Expire, NegativeExpires, UpstreamChanges, UpdateRemote, Remove, env, vars
    <3>2. ~Put
      BY <2>1, <3>1 DEF Put, InternalIsChecked
    <3> QED BY <2>1, <2>3, <3>1, <3>2, WhoWritesBytes DEF InternalIsKept
  <2> QED BY <2>2, <2>3
<1> QED BY <1>1, <1>2, FacetInvariant, PTL DEF Spec

=============================================================================
