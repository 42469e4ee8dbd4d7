----------------------------- MODULE ProxyFacet -----------------------------
(***************************************************************************)
(* proxy.facet for one path of one repository and one tenant: the callers  *)
(* of Get, the single flight that fetches for all of them, the stored      *)
(* entry, the negative cache, the circuit breaker and the upstream.        *)
(*                                                                         *)
(* The storage is one entry here, read and written in one step: the steps  *)
(* inside LocalStorage are LocalStorage.tla's.  Times appear as what they  *)
(* are compared with: an entry is fresh until it outlives MetadataTTL, a   *)
(* negative entry is there until its ttl has passed.                       *)
(***************************************************************************)
EXTENDS Breaker

CONSTANTS
    Callers,
    Versions,       \* what the upstream may serve at the path
    Private,        \* the internally published content of the path
    None,           \* no entry, no validator, no body, no document
    Mutable,        \* isMutableDocument with a MetadataTTL
    Described,      \* the resolver names a package and version for the path
    Transforms,     \* the rewriter's ShouldTransform
    AllowMissingRemote,
    MaxRetries,     \* fetchWithRetry
    Healths,        \* what may be wrong with the upstream, or "up"
    Events          \* what may happen besides requests, see below

AllHealths == {"up", "conn", "dns", "s500", "s503", "s429", "s403"}

\* "remove"   the entry is removed or evicted
\* "cancel"   a caller stops waiting
\* "remote"   UpdateRemote clears or sets the upstream
\* "airgap"   there may be no upstream to begin with
\* "error"    a storage call, a transform or an internal lookup fails
\* "odd"      the upstream answers 206 or 304 to a plain request
\* "large"    bodies exceed maxTransformBodySize
\* "publish"  the path is published internally; "quietly" only between fetches
AllEvents == {"remove", "cancel", "remote", "airgap", "error", "odd", "large",
              "publish", "quietly"}

ASSUME FacetAssumption ==
    /\ Private \notin Versions
    /\ None \notin Versions \cup {Private}
    /\ {Mutable, Described, Transforms, AllowMissingRemote} \subseteq BOOLEAN
    /\ MaxRetries \in Nat
    /\ "up" \in Healths /\ Healths \subseteq AllHealths
    /\ Events \subseteq AllEvents

\* Content: the whole document, what is left of it after its first
\* maxTransformBodySize bytes, a range of it, or nothing.
Bodies == [ver : Versions \cup {Private}, part : {"whole", "tail", "slice", "empty"}]

Whole(v) == [ver |-> v, part |-> "whole"]

\* ContentMetadata and blob of the stored entry.
Entries ==
    [body   : Bodies,
     etag   : Versions \cup {None},
     fresh  : BOOLEAN,      \* CachedAt within MetadataTTL
     repair : BOOLEAN]      \* needsEncodingRepair

\* Response, and the error of Get as code 0.
Answers == [code : {0, 200, 304, 403, 404, 429, 500, 502, 503},
            body : Bodies \cup {None}]

Failed == [code |-> 0, body |-> None]

Passed(code) == [code |-> code, body |-> None]

\* http.Response, or an error of Client.Do with code 0.
Responses == [code : {0, 200, 206, 304, 403, 404, 429, 500, 503},
              body : Bodies \cup {None}, err : NetworkErrors \cup {"none"}]

\* nil is none of the things it stands in for.
ASSUME NoneAssumption == None \notin Bodies \cup Entries \cup Answers \cup Responses

Response(code, body) == [code |-> code, body |-> body, err |-> "none"]

FlightCalls == {"none", "recheck", "allow", "headers", "fetch", "refetch", "revGet",
                "revPut", "status", "stale", "check", "put", "return"}

Flights ==
    [pc    : FlightCalls,
     cond  : Versions \cup {None},          \* If-None-Match of the fetch
     tries : 0..MaxRetries,
     resp  : Responses \cup {None},         \* the upstream's response
     held  : Entries \cup {None},           \* what serveRevalidated read
     gone  : {"refetch", "bare"},           \* what to do if it cannot serve it
     out   : Answers \cup {None}]           \* what fetchAndStore returns

NoFlight == [pc |-> "none", cond |-> None, tries |-> 0, resp |-> None, held |-> None,
             gone |-> "bare", out |-> None]

VARIABLES
    entry,      \* the stored entry or None
    negative,   \* whether NegativeCache holds an unexpired entry for the key
    cb,         \* the circuit breaker
    remote,     \* whether RemoteDefinition has a base URL and a client
    upstream,   \* [health, ver]: what the upstream does, and its document
    internal,   \* whether the version is internally published
    flight,     \* the singleflight call of the key, and where it is
    pc,         \* pc[c]: where a caller of Get is
    answer,     \* answer[c]: what it was last answered
    warm        \* history: a servable entry was stored all through the call of c

env == <<remote, upstream, internal>>
callers == <<pc, answer, warm>>
vars == <<entry, negative, cb, remote, upstream, internal, flight, pc, answer, warm>>

TypeOK ==
    /\ entry \in Entries \cup {None}
    /\ negative \in BOOLEAN
    /\ cb \in Breakers
    /\ remote \in BOOLEAN
    /\ upstream \in [health : Healths, ver : Versions \cup {None}]
    /\ internal \in BOOLEAN
    /\ flight \in Flights
    /\ pc \in [Callers -> {"idle", "lookup", "join", "waiting"}]
    /\ answer \in [Callers -> Answers \cup {None}]
    /\ warm \in [Callers -> BOOLEAN]

\* Nothing is stored, or an old copy of the document is: with a validator or
\* not, and possibly from before its encoding was recorded.
Init ==
    /\ entry \in {None} \cup
         {[body |-> Whole(v), etag |-> IF t THEN v ELSE None, fresh |-> FALSE,
           repair |-> r] : v \in Versions, t \in BOOLEAN, r \in BOOLEAN}
    /\ negative = FALSE
    /\ cb = NewCircuitBreaker
    /\ remote \in BOOLEAN /\ (remote \/ "airgap" \in Events)
    /\ upstream \in [health : {"up"}, ver : Versions]
    /\ internal = FALSE
    /\ flight = NoFlight
    /\ pc = [c \in Callers |-> "idle"]
    /\ answer = [c \in Callers |-> None]
    /\ warm = [c \in Callers |-> FALSE]

-----------------------------------------------------------------------------
(* tryCacheHit *)

\* Mutant of Expired: a cached document is served forever.
NeverExpired(e) == FALSE

\* metadataExpired
Expired(e) == Mutable /\ ~e.fresh

\* upstreamReachable, by the breaker state that State() returns.
UpstreamReachable == remote /\ State(cb).state # "open"

\* Whether tryCacheHit serves the entry: current, or expired with no upstream.
Servable ==
    /\ entry # None
    /\ ~entry.repair
    /\ Expired(entry) => ~UpstreamReachable

\* Only an expired entry makes it look at the breaker, and State() moves it.
LookAtBreaker ==
    cb' = IF entry # None /\ ~entry.repair /\ Expired(entry) /\ remote
            THEN State(cb) ELSE cb

\* respondFromCache
FromEntry(e) == [code |-> 200, body |-> e.body]

-----------------------------------------------------------------------------
(* Get, up to the singleflight group. *)

\* A caller comes in and asks the negative cache.
Arrive(c) ==
    /\ pc[c] = "idle"
    /\ warm' = [warm EXCEPT ![c] = entry # None /\ (entry.repair => remote)]
    /\ IF negative
         THEN answer' = [answer EXCEPT ![c] = Passed(404)] /\ UNCHANGED pc
         ELSE answer' = [answer EXCEPT ![c] = None] /\ pc' = [pc EXCEPT ![c] = "lookup"]
    /\ UNCHANGED <<entry, negative, cb, flight, env>>

AnswerTo(c, a) ==
    /\ answer' = [answer EXCEPT ![c] = a]
    /\ pc' = [pc EXCEPT ![c] = "idle"]

Lookup(c) ==
    /\ pc[c] = "lookup"
    /\ \/ /\ LookAtBreaker
          /\ IF Servable THEN AnswerTo(c, FromEntry(entry))
             ELSE pc' = [pc EXCEPT ![c] = "join"] /\ UNCHANGED answer
       \/ "error" \in Events /\ AnswerTo(c, Failed) /\ UNCHANGED cb
    /\ UNCHANGED <<entry, negative, flight, warm, env>>

\* awaitFetch joins the flight of the key, or starts one.
Join(c) ==
    /\ pc[c] = "join"
    /\ \/ /\ remote
          /\ pc' = [pc EXCEPT ![c] = "waiting"]
          /\ flight' = IF flight.pc = "none" THEN [flight EXCEPT !.pc = "recheck"] ELSE flight
          /\ UNCHANGED answer
       \/ /\ ~remote
          /\ AnswerTo(c, IF AllowMissingRemote THEN Passed(404) ELSE Failed)
          /\ UNCHANGED flight
    /\ UNCHANGED <<entry, negative, cb, warm, env>>

\* The caller's context is done; the fetch has a context of its own.
Cancel(c) ==
    /\ "cancel" \in Events
    /\ pc[c] = "waiting"
    /\ AnswerTo(c, None)
    /\ UNCHANGED <<entry, negative, cb, flight, warm, env>>

-----------------------------------------------------------------------------
(* fetchAndStore.  The flight's next call, with what it carries. *)

GoesTo(call) == flight' = [flight EXCEPT !.pc = call]

\* fetchAndStore returns a; the group has yet to hand it out.
Returns(a) == flight' = [NoFlight EXCEPT !.pc = "return", !.out = a]

\* tryStaleCache is next; without a copy the flight returns a.
StaleOr(a) == flight' = [NoFlight EXCEPT !.pc = "stale", !.out = a]

\* Mutant of Recheck: the cache is not looked at again inside the group.
RecheckNothing ==
    /\ flight.pc = "recheck"
    /\ GoesTo("allow")
    /\ UNCHANGED <<entry, negative, cb, callers, env>>

Recheck ==
    /\ flight.pc = "recheck"
    /\ \/ LookAtBreaker /\ IF Servable THEN Returns(FromEntry(entry)) ELSE GoesTo("allow")
       \/ "error" \in Events /\ Returns(Failed) /\ UNCHANGED cb
    /\ UNCHANGED <<entry, negative, callers, env>>

AskBreaker ==
    /\ flight.pc = "allow"
    /\ IF Allows(cb) THEN cb' = Allow(cb) /\ GoesTo("headers")
       ELSE StaleOr(Failed) /\ UNCHANGED cb                    \* ErrCircuitOpen
    /\ UNCHANGED <<entry, negative, callers, env>>

AddRevalidationHeaders ==
    /\ flight.pc = "headers"
    /\ \/ flight' = [flight EXCEPT !.pc = "fetch",
                       !.cond = IF Mutable /\ entry # None THEN entry.etag ELSE None]
       \/ "error" \in Events /\ GoesTo("fetch")
    /\ UNCHANGED <<entry, negative, cb, callers, env>>

\* What the upstream answers to a request with validator cond.
UpstreamAnswers(cond) ==
    CASE upstream.health \in NetworkErrors -> {[code |-> 0, body |-> None, err |-> upstream.health]}
      [] upstream.health = "s500" -> {Response(500, None)}
      [] upstream.health = "s503" -> {Response(503, None)}
      [] upstream.health = "s429" -> {Response(429, None)}
      [] upstream.health = "s403" -> {Response(403, None)}
      [] upstream.health = "up" /\ upstream.ver = None -> {Response(404, None)}
      [] upstream.health = "up" /\ upstream.ver # None ->
           {IF cond = upstream.ver THEN Response(304, None)
            ELSE Response(200, Whole(upstream.ver))}
           \cup (IF "odd" \in Events
                   THEN {Response(304, None),
                         Response(206, [ver |-> upstream.ver, part |-> "slice"])}
                   ELSE {})

IsErr(resp) == resp.err # "none"

\* A network error or isRetryableStatus.
Retryable(resp) == IsErr(resp) \/ resp.code \in {429, 503}

\* Mutant of TriesLeft: fetchWithRetry does not stop.
TriesForever == TRUE

TriesLeft == flight.tries < MaxRetries

\* fetchWithRetry backs off after a retryable attempt ...
Retry ==
    /\ flight.pc \in {"fetch", "refetch"}
    /\ TriesLeft
    /\ \E resp \in UpstreamAnswers(flight.cond) : Retryable(resp)
    /\ flight' = [flight EXCEPT !.tries = IF @ < MaxRetries THEN @ + 1 ELSE @]
    /\ UNCHANGED <<entry, negative, cb, callers, env>>

\* ... and returns any other, the last one, or one whose Retry-After is long.
Attempted(resp) ==
    /\ resp \in UpstreamAnswers(flight.cond)
    /\ Retryable(resp) => ~TriesLeft \/ ~IsErr(resp)

\* Mutant of FetchFails: a network error does not fall back to the stale copy.
FetchFailsForGood ==
    /\ flight.pc = "fetch"
    /\ \E resp \in {r \in UpstreamAnswers(flight.cond) : IsErr(r)} :
         /\ Attempted(resp)
         /\ cb' = RecordNetworkFailure(cb, resp.err)
    /\ Returns(Failed)
    /\ UNCHANGED <<entry, negative, callers, env>>

FetchFails ==
    /\ flight.pc = "fetch"
    /\ \E resp \in {r \in UpstreamAnswers(flight.cond) : IsErr(r)} :
         /\ Attempted(resp)
         /\ cb' = RecordNetworkFailure(cb, resp.err)
    /\ StaleOr(Failed)
    /\ UNCHANGED <<entry, negative, callers, env>>

\* Mutant of FetchAnswered: a 304 that cannot be served is passed on.
FetchAnsweredOnce ==
    /\ flight.pc \in {"fetch", "refetch"}
    /\ \E resp \in {r \in UpstreamAnswers(flight.cond) : ~IsErr(r)} :
         /\ Attempted(resp)
         /\ cb' = RecordStatus(cb, resp.code)
         /\ flight' = [NoFlight EXCEPT !.pc = "status", !.resp = resp]
    /\ UNCHANGED <<entry, negative, callers, env>>

\* recordCircuitOutcome, and a 304 to our own conditional goes to
\* serveRevalidated.
FetchAnswered ==
    /\ flight.pc \in {"fetch", "refetch"}
    /\ \E resp \in {r \in UpstreamAnswers(flight.cond) : ~IsErr(r)} :
         /\ Attempted(resp)
         /\ cb' = RecordStatus(cb, resp.code)
         /\ flight' =
              [NoFlight EXCEPT
                 !.pc = IF resp.code = 304 /\ flight.cond # None THEN "revGet" ELSE "status",
                 !.gone = IF resp.code = 304 /\ flight.cond # None THEN "refetch" ELSE "bare",
                 !.resp = resp]
    /\ UNCHANGED <<entry, negative, callers, env>>

\* The second fetch's error is returned as it is, unrecorded.
RefetchFails ==
    /\ flight.pc = "refetch"
    /\ \E resp \in {r \in UpstreamAnswers(flight.cond) : IsErr(r)} : Attempted(resp)
    /\ Returns(Failed)
    /\ UNCHANGED <<entry, negative, cb, callers, env>>

-----------------------------------------------------------------------------
(* serveRevalidated *)

\* serveRevalidated returns nil: fetch the whole document, or pass the 304 on.
Unservable ==
    IF flight.gone = "refetch"
      THEN flight' = [NoFlight EXCEPT !.pc = "refetch"]
      ELSE Returns(Passed(304))

RevalidatedGet ==
    /\ flight.pc = "revGet"
    /\ \/ entry # None /\ flight' = [flight EXCEPT !.pc = "revPut", !.held = entry]
       \/ (entry = None \/ "error" \in Events) /\ Unservable
    /\ UNCHANGED <<entry, negative, cb, callers, env>>

\* UpdateMetadata writes the held metadata with a new CachedAt over the row,
\* whatever bytes are stored by now; its failure is only logged.
RevalidatedPut ==
    /\ flight.pc = "revPut"
    /\ \/ entry # None /\ entry' = [flight.held EXCEPT !.body = entry.body, !.fresh = TRUE]
       \/ (entry = None \/ "error" \in Events) /\ UNCHANGED entry
    /\ \/ Returns(FromEntry(flight.held))
       \/ "error" \in Events /\ Transforms /\ Unservable
    /\ UNCHANGED <<negative, cb, callers, env>>

-----------------------------------------------------------------------------
(* handleUpstreamStatus and storeUpstream *)

\* Mutant of HandleStatus: a 206 is stored like a 200.
HandleStatusStoresSlices ==
    /\ flight.pc = "status"
    /\ negative' = (negative \/ flight.resp.code = 404)
    /\ CASE flight.resp.code = 304      -> GoesTo("revGet")
         [] flight.resp.code >= 500     -> StaleOr(Passed(flight.resp.code))
         [] flight.resp.code \in 400..499 -> Returns(Passed(flight.resp.code))
         [] flight.resp.code < 300      -> GoesTo("check")
    /\ UNCHANGED <<entry, cb, callers, env>>

HandleStatus ==
    /\ flight.pc = "status"
    /\ negative' = (negative \/ flight.resp.code = 404)
    /\ CASE flight.resp.code = 304      -> GoesTo("revGet")
         [] flight.resp.code = 206      -> Returns(Passed(502))
         [] flight.resp.code >= 500     -> StaleOr(Passed(flight.resp.code))
         [] flight.resp.code \in 400..499 -> Returns(Passed(flight.resp.code))
         [] flight.resp.code = 200      -> GoesTo("check")
    /\ UNCHANGED <<entry, cb, callers, env>>

TryStaleCache ==
    /\ flight.pc = "stale"
    /\ \/ entry # None /\ Returns(FromEntry(entry))
       \/ (entry = None \/ "error" \in Events) /\ GoesTo("return")
    /\ UNCHANGED <<entry, negative, cb, callers, env>>

\* Mutant of ServeInternalOverride: a lookup that fails reads as "not internal".
ServeInternalOverrideFailsOpen ==
    /\ flight.pc = "check"
    /\ \/ Described /\ internal
          /\ Returns(IF entry = None THEN Failed ELSE FromEntry(entry))
       \/ ~(Described /\ internal) /\ GoesTo("put")
       \/ Described /\ "error" \in Events /\ GoesTo("put")
    /\ UNCHANGED <<entry, negative, cb, callers, env>>

\* An internal version is served from its stored copy or not at all, and a
\* lookup that fails is an error.
ServeInternalOverride ==
    /\ flight.pc = "check"
    /\ \/ Described /\ internal
          /\ Returns(IF entry = None THEN Failed ELSE FromEntry(entry))
       \/ ~(Described /\ internal) /\ GoesTo("put")
       \/ Described /\ "error" \in Events /\ Returns(Failed)
    /\ UNCHANGED <<entry, negative, cb, callers, env>>

\* prepareBodyReader: a body too large to transform has lost its first part
\* to the attempt.
Prepared(body) ==
    {body} \cup (IF Transforms /\ "large" \in Events
                   THEN {[body EXCEPT !.part = "tail"]} ELSE {})

\* storeUpstream's entry; recordedContentEncoding never leaves the encoding empty.
Stored(body) == [body |-> body, etag |-> body.ver, fresh |-> TRUE, repair |-> FALSE]

\* PutOrSpool; when the blob store fails the fill is served from a spool, or
\* not at all.
Put ==
    /\ flight.pc = "put"
    /\ \E body \in Prepared(flight.resp.body) :
         \/ /\ entry' = Stored(body)
            /\ Returns([code |-> 200, body |-> body])
         \/ /\ "error" \in Events
            /\ UNCHANGED entry
            /\ Returns(Failed) \/ Returns([code |-> 200, body |-> body])
    /\ UNCHANGED <<negative, cb, callers, env>>

\* Mutant of Finish: only the callers that were there when it started.
FinishAnswersOne ==
    /\ flight.pc = "return"
    /\ \E c \in Callers : pc[c] = "waiting" /\ AnswerTo(c, flight.out)
    /\ flight' = NoFlight
    /\ UNCHANGED <<entry, negative, cb, warm, env>>

\* The group hands the result to every waiter and forgets the key.
Finish ==
    /\ flight.pc = "return"
    /\ answer' = [c \in Callers |-> IF pc[c] = "waiting" THEN flight.out ELSE answer[c]]
    /\ pc' = [c \in Callers |-> IF pc[c] = "waiting" THEN "idle" ELSE pc[c]]
    /\ flight' = NoFlight
    /\ UNCHANGED <<entry, negative, cb, warm, env>>

-----------------------------------------------------------------------------
(* Time, the upstream, and the rest of the server. *)

Tick ==
    /\ Age(cb) # cb
    /\ cb' = Age(cb)
    /\ UNCHANGED <<entry, negative, flight, callers, env>>

\* State() from UpstreamTracker.Metrics, or from the log line of a refused fetch.
Observe ==
    /\ State(cb) # cb
    /\ cb' = State(cb)
    /\ UNCHANGED <<entry, negative, flight, callers, env>>

Expire ==
    /\ Mutable /\ entry # None /\ entry.fresh
    /\ entry' = [entry EXCEPT !.fresh = FALSE]
    /\ UNCHANGED <<negative, cb, flight, callers, env>>

\* The ttl of NegativeCache passes, it evicts the key, or UpdateNegative
\* brings an empty cache.
NegativeExpires ==
    /\ negative
    /\ negative' = FALSE
    /\ UNCHANGED <<entry, cb, flight, callers, env>>

UpstreamChanges ==
    /\ upstream' \in [health : Healths, ver : Versions \cup {None}] \ {upstream}
    /\ UNCHANGED <<entry, negative, cb, remote, internal, flight, callers>>

UpdateRemote ==
    /\ "remote" \in Events
    /\ remote' = ~remote
    /\ UNCHANGED <<entry, negative, cb, upstream, internal, flight, callers>>

\* LocalStorage.Remove, or the row dropped for a missing blob.
Remove ==
    /\ "remove" \in Events
    /\ entry # None
    /\ entry' = None
    /\ warm' = [c \in Callers |-> FALSE]
    /\ UNCHANGED <<negative, cb, flight, pc, answer, env>>

\* The server publishes the version: it is internal, and its bytes are stored.
Publish ==
    /\ \/ "publish" \in Events
       \/ "quietly" \in Events /\ flight.pc = "none"
    /\ Described /\ ~internal
    /\ internal' = TRUE
    /\ entry' = [body |-> Whole(Private), etag |-> None, fresh |-> TRUE,
                 repair |-> FALSE]
    /\ UNCHANGED <<negative, cb, remote, upstream, flight, callers>>

Step(c) == Lookup(c) \/ Join(c)

FlightStep ==
    \/ Recheck \/ AskBreaker \/ AddRevalidationHeaders
    \/ Retry \/ FetchFails \/ FetchAnswered \/ RefetchFails
    \/ RevalidatedGet \/ RevalidatedPut
    \/ HandleStatus \/ TryStaleCache \/ ServeInternalOverride \/ Put \/ Finish

Next ==
    \/ \E c \in Callers : Arrive(c) \/ Step(c) \/ Cancel(c)
    \/ FlightStep
    \/ Tick \/ Observe \/ Expire \/ NegativeExpires
    \/ UpstreamChanges \/ UpdateRemote \/ Remove \/ Publish

Spec == Init /\ [][Next]_vars

\* Goroutines run, clients keep asking and time passes.
Fairness ==
    /\ \A c \in Callers : WF_vars(Arrive(c)) /\ WF_vars(Step(c))
    /\ WF_vars(FlightStep)
    /\ WF_vars(Tick) /\ WF_vars(Expire) /\ WF_vars(NegativeExpires)

FairSpec == Spec /\ Fairness

-----------------------------------------------------------------------------
\* Half-open never counts more probes than it has slots for.
ProbesCounted == cb.state = "half-open" => cb.halfOpenPassed =< HalfOpenRequests

\* Whoever waits, waits for a flight that is under way.
NobodyStranded == \A c \in Callers : pc[c] = "waiting" => flight.pc # "none"

\* What a flight has with it at each call.
FlightCarries ==
    /\ flight.pc \in {"none", "recheck", "allow", "headers"} =>
         flight = [NoFlight EXCEPT !.pc = flight.pc]
    /\ flight.pc = "refetch" => flight.cond = None
    /\ flight.pc = "status" =>
         flight.resp # None /\ ~IsErr(flight.resp) /\ flight.resp.code # 0
    /\ flight.pc \in {"status", "check", "put"} /\ flight.resp.code = 200 =>
         \E v \in Versions : flight.resp = Response(200, Whole(v))
    /\ flight.pc \in {"check", "put"} => flight.resp # None /\ flight.resp.code = 200
    /\ flight.pc = "revPut" => flight.held # None
    /\ flight.pc \in {"return", "stale"} => flight.out # None

\* A request would be served the entry without asking anybody.
Current == entry # None /\ ~entry.repair /\ ~Expired(entry)

\* Past its second look at the cache, a flight is one the entry cannot answer.
FlightIsNeeded ==
    flight.pc \in FlightCalls \ {"none", "recheck", "return"} => ~Current

\* An upstream that only answers what it was asked: no range, and a 304 only
\* to a validator, so that serveRevalidated may always fetch again.
AnswersAsAsked ==
    /\ flight.pc = "status" => flight.resp.code \notin {206, 304}
    /\ flight.pc \in {"revGet", "revPut"} => flight.gone = "refetch"
    /\ flight.out # None => flight.out.code \notin {304, 502}

\* An internal version was checked for before any body is stored.
InternalIsChecked == internal => Described /\ flight.pc # "put"

Bad(a) == a.code = 0 \/ a.code >= 500

\* A flight has failed only where no copy is stored, and a caller who found
\* one joins the flight only while there is an upstream.
FailsOnlyCold ==
    /\ flight.pc = "refetch" => entry = None
    /\ flight.pc = "return" /\ Bad(flight.out) => entry = None
    /\ flight.pc # "none" => remote
    /\ \A c \in Callers : warm[c] =>
         /\ entry # None /\ (entry.repair => remote)
         /\ pc[c] = "join" => remote

\* Which of them the rest of the server lets hold: a version published while
\* a flight is under way, a failing call or an upstream that answers what it
\* was not asked each break some.
Undisturbed == "publish" \notin Events /\ ~("error" \in Events /\ Transforms)
Calm == Events \cap {"odd", "error", "remote", "publish"} = {}

\* singleflight never strands a waiter, a flight carries what its next step
\* needs, and it is under way for a reason: the entry cannot answer, the
\* version is not internal, and no copy is there when it fails.
FacetInv ==
    /\ TypeOK /\ ProbesCounted /\ NobodyStranded /\ FlightCarries
    /\ Undisturbed => FlightIsNeeded
    /\ "odd" \notin Events => AnswersAsAsked
    /\ "publish" \notin Events => InternalIsChecked
    /\ Calm => FailsOnlyCold

\* A store by the flight.
Stores == flight.pc = "put" /\ entry' # entry

\* awaitFetch: "Coalesces concurrent requests for the same artifact: only one
\* goroutine fetches".  A flight never stores over an entry a request would
\* have been served, however late the callers that started it looked.
NeverRefetchesFresh == [][Stores => ~Current]_vars

\* FacetConfig.CircuitBreaker, "falling through to stale cache instead", and
\* tryCacheHit, "An air-gapped box with a warm cache must keep serving": a
\* caller during whose whole call a copy was stored is never answered an
\* error or a 5xx, whatever the upstream and the breaker do meanwhile.  The
\* exception is a copy that needs its encoding repaired and has no upstream.
WarmNeverFails ==
    \A c \in Callers :
      pc[c] = "idle" /\ warm[c] /\ answer[c] # None => ~Bad(answer[c])

\* fetchAndStore: "a bare 304 is an empty body it cannot use".  No caller is
\* ever answered one, though the entry may go while the flight revalidates it.
NoBare304 == \A c \in Callers : answer[c] # None => answer[c].code # 304

\* "The facet stores whole objects": neither a slice nor the empty body of a
\* 304 nor what a failed transform left over ever becomes the entry.
EntryIsWhole == entry # None => entry.body.part = "whole"

\* InternalPackageChecker: "upstream content is never stored over internal
\* packages", whichever lookups fail.
InternalIsKept == internal => entry = None \/ entry.body.ver = Private

\* Every caller of Get is answered: retries end, and the flight is handed out.
EveryCallReturns == \A c \in Callers : pc[c] # "idle" ~> pc[c] = "idle"

\* Once the upstream settles on a document and stays up, that document is what
\* is stored and served: a cached one expires, a breaker closes again, a
\* remembered 404 is forgotten, and a 304 only confirms what is current.
Converges ==
    \A v \in Versions :
      <>[](upstream = [health |-> "up", ver |-> v])
        => <>[](entry # None /\ entry.body = Whole(v))

=============================================================================
