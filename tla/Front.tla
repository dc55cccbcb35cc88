-------------------------------- MODULE Front --------------------------------
(***************************************************************************)
(* The HTTP side of the gateway (gateway.go from buildHandler on,          *)
(* iconproxy.go, rescue.go): the layers a request passes, outermost first: *)
(* host and origin, body cap, panic recovery, then by path                 *)
(*    "mcp":         bearer token, rate limits, discover refusal, the SDK; *)
(*    "federation":  bearer token, viewer groups, rate limits, the report; *)
(*    "token":       the token endpoint's rate limit, ServeToken;          *)
(*    "health":      nothing more: the cached fan-out of pings;            *)
(*    "icon":        nothing more: one fetch for all concurrent callers.   *)
(*                                                                         *)
(* What the SDK, ServeToken (Exchange) and the upstreams answer is a free  *)
(* choice.  Of a body it matters how it fares: "declared" and "chunked"    *)
(* exceed the cap, "stalled" never arrives, "probe" is a server/discover.  *)
(***************************************************************************)
EXTENDS Naturals

CONSTANTS Requests,
          Shapes,      \* what is told apart in a request
          Buckets,     \* Buckets[b]: allowance of the bucket b
          HealthTtl,   \* healthCacheTTL, in ticks
          SnapCap,     \* snapshots in one behaviour
          Nobody

ASSUME FrontAssumption ==
    /\ HealthTtl \in Nat \ {0} /\ SnapCap \in Nat \ {0} /\ Nobody \notin Requests
    /\ Buckets \in [{"global", "tenant", "principal", "token"} -> Nat]
    /\ Shapes \subseteq [path : {"mcp", "federation", "token", "health", "icon"},
                         host : BOOLEAN,      \* host and origin are allowed
                         body : {"small", "declared", "chunked", "stalled", "probe"},
                         session : BOOLEAN,   \* it names a session
                         token : {"bad", "good", "viewer"}]

VARIABLES
    shape,    \* what each request is
    req,      \* where it is and its status, the snapshot it read and the one
              \* it began under, the flight it waits for
    audited,  \* audit events of the HTTP side for each request
    left,     \* what is left of each bucket
    snap,     \* the current snapshot of routes
    alive,    \* the upstreams answer pings
    health,   \* healthCache: its holder, snapshot and age, whether all was well
    flights,  \* iconFlight: the leader of the flight in progress, flights so far
    icon      \* the icon is in iconBytes

hvars == <<shape, req, audited, left, snap, alive, health, flights, icon>>

FrontInit ==
    /\ shape \in [Requests -> Shapes]
    /\ req = [r \in Requests |-> [at |-> "new", status |-> 0, rt |-> 0, began |-> 0, flight |-> 0]]
    /\ audited = [r \in Requests |-> 0]
    /\ left = Buckets
    /\ snap = 1 /\ alive \in BOOLEAN
    /\ health = [by |-> Nobody, rt |-> 0, age |-> HealthTtl, ok |-> FALSE]
    /\ flights = [leader |-> Nobody, n |-> 0]
    /\ icon = FALSE

Quiet == UNCHANGED <<shape, audited, left, snap, alive, health, flights, icon>>

\* Where a request is, its status and its snapshot.
Put(r, at, status, rt) ==
    req' = [req EXCEPT ![r] = [at |-> at, status |-> status, rt |-> rt,
                               began |-> @.began, flight |-> @.flight]]

At(r, at) == Put(r, at, req[r].status, req[r].rt)

Done(r, code) == Put(r, "done", code, req[r].rt)

\* audit.Emit, by a layer or through OnExchange.
Emit(r) == audited' = [audited EXCEPT ![r] = @ + 1]

Refuse(r, code) ==
    /\ Done(r, code) /\ Emit(r)
    /\ UNCHANGED <<shape, left, snap, alive, health, flights, icon>>

Arrive(r) ==
    /\ req[r].at = "new"
    /\ req' = [req EXCEPT ![r] = [at |-> "host", status |-> 0, rt |-> 0, began |-> snap, flight |-> 0]]
    /\ Quiet

\* hostValidation.
hostValidation(r) ==
    /\ req[r].at = "host"
    /\ IF shape[r].host THEN At(r, "body") /\ Quiet ELSE Refuse(r, 403)

\* What is behind the body cap, by path.
Behind(path) ==
    CASE path \in {"mcp", "federation"} -> "auth"
      [] path = "token" -> "tokenLimit"
      [] path = "health" -> "snapshot"
      [] path = "icon" -> "load"

\* bodyCapMiddleware; the tripwire is in Unwind.
bodyCap(r) ==
    /\ req[r].at = "body"
    /\ IF shape[r].body = "declared" THEN Refuse(r, 413)
       ELSE At(r, Behind(shape[r].path)) /\ Quiet

\* authMiddleware.
auth(r) ==
    /\ req[r].at = "auth"
    /\ IF shape[r].token = "bad" THEN Refuse(r, 401)
       ELSE At(r, IF shape[r].path = "mcp" THEN "limit" ELSE "viewer") /\ Quiet

\* introspectionViewerGate.
viewerGate(r) ==
    /\ req[r].at = "viewer"
    /\ IF shape[r].token = "viewer" THEN At(r, "limit") /\ Quiet ELSE Refuse(r, 403)

\* The buckets asked, in order: all allow, or each allows before the first
\* that refuses.
Spend(r, order, next) ==
    LET short == {i \in DOMAIN order : left[order[i]] = 0}
        spent == {order[i] : i \in {i \in DOMAIN order : \A j \in short : i < j}}
    IN /\ left' = [b \in DOMAIN left |-> IF b \in spent THEN left[b] - 1 ELSE left[b]]
       /\ IF short = {} THEN At(r, next) /\ UNCHANGED audited
          ELSE Done(r, 429) /\ Emit(r)
       /\ UNCHANGED <<shape, snap, alive, health, flights, icon>>

\* rateLimitMiddleware.
rateLimit(r) ==
    /\ req[r].at = "limit"
    /\ Spend(r, <<"global", "tenant", "principal">>,
             IF shape[r].path = "mcp" THEN "discover" ELSE "snapshot")

\* tokenRateLimit.
tokenRateLimit(r) == req[r].at = "tokenLimit" /\ Spend(r, <<"token">>, "serve")

\* Mutant of CutOff: audited where it is found as well.
CutOffCounted(r) ==
    /\ Put(r, "unwind", 413, req[r].rt)
    /\ Emit(r) /\ UNCHANGED <<shape, left, snap, alive, health, flights, icon>>

\* Reading the body hits the cap, to be accounted for by the tripwire as 413,
\* whatever the handler makes of it.  To ServeToken it is a malformed form,
\* refused and reported.
CutOff(r) ==
    /\ Put(r, "unwind", 413, req[r].rt)
    /\ IF shape[r].path = "token" THEN Emit(r) ELSE UNCHANGED audited
    /\ UNCHANGED <<shape, left, snap, alive, health, flights, icon>>

\* refuseDiscover reads the body of a POST that has no session.
refuseDiscover(r) ==
    /\ req[r].at = "discover"
    /\ \/ (shape[r].session \/ shape[r].body = "small") /\ At(r, "serve") /\ Quiet
       \/ ~shape[r].session /\ shape[r].body = "stalled" /\ Refuse(r, 408)
       \/ ~shape[r].session /\ shape[r].body = "probe" /\ Done(r, 405) /\ Quiet
       \/ ~shape[r].session /\ shape[r].body = "chunked" /\ CutOff(r)

\* Mutant of Answer: a token that is minted leaves no event.
AnswerUnreported(r, code) ==
    /\ Done(r, code)
    /\ IF shape[r].path = "token" /\ code # 200 THEN Emit(r) ELSE UNCHANGED audited
    /\ UNCHANGED <<shape, left, snap, alive, health, flights, icon>>

\* A terminal response of the SDK, whose messages are audited behind the front
\* (Routing), or of ServeToken, which reports each one through OnExchange.
Answer(r, code) ==
    /\ Done(r, code)
    /\ IF shape[r].path = "token" THEN Emit(r) ELSE UNCHANGED audited
    /\ UNCHANGED <<shape, left, snap, alive, health, flights, icon>>

\* The SDK or ServeToken reads the body and answers.
Serve(r) ==
    /\ req[r].at = "serve"
    /\ \/ shape[r].body = "chunked" /\ CutOff(r)
       \/ shape[r].body = "stalled" /\ Answer(r, 400)
       \/ shape[r].body \in {"small", "probe"} /\ \E code \in {200, 400} : Answer(r, code)

\* A handler panics and is recovered (recoverHTTP).  The deferred Unlock frees
\* the health report; nothing ends the flight of an icon.
Panic(r) ==
    /\ \/ req[r].at = "serve" /\ shape[r].body \in {"small", "probe"}
       \/ req[r].at \in {"collect", "fetch"}
    /\ Done(r, 500) /\ Emit(r)
    /\ health' = IF health.by = r THEN [health EXCEPT !.by = Nobody] ELSE health
    /\ UNCHANGED <<shape, left, snap, alive, flights, icon>>

\* bodyCapMiddleware: the tripwire was hit below.
Unwind(r) == req[r].at = "unwind" /\ Refuse(r, req[r].status)
-----------------------------------------------------------------------------
\* handleHealth and handleFederationState: the snapshot they answer from.
ReadSnapshot(r) ==
    /\ req[r].at = "snapshot"
    /\ Put(r, "lock", req[r].status, snap)
    /\ Quiet

\* The answer: a report of the snapshot it was collected for.  /health is 503
\* when nothing could be reached; that it is also while discovery has not
\* answered once is left out.
Report(r, rt, ok) ==
    Put(r, "done", IF ok \/ shape[r].path = "federation" THEN 200 ELSE 503, rt)

\* Mutant of Usable: the cache does not care whose health it holds.
UsableOfAny(r) == health.age < HealthTtl

Usable(r) == health.rt = req[r].rt /\ health.age < HealthTtl

\* upstreamHealthFor.
LockHealth(r) ==
    /\ req[r].at = "lock" /\ health.by = Nobody
    /\ IF Usable(r) THEN Report(r, health.rt, health.ok) /\ UNCHANGED health
       ELSE At(r, "collect") /\ health' = [health EXCEPT !.by = r]
    /\ UNCHANGED <<shape, audited, left, snap, alive, flights, icon>>

\* Mutant of collectUpstreamHealth: the pings have no deadline.
collectUpstreamHealthUnbounded(r) ==
    /\ req[r].at = "collect" /\ alive
    /\ health' = [by |-> Nobody, rt |-> req[r].rt, age |-> 0, ok |-> TRUE]
    /\ Report(r, req[r].rt, TRUE)
    /\ UNCHANGED <<shape, audited, left, snap, alive, flights, icon>>

\* collectUpstreamHealth ends within healthFanoutTimeout, dead upstreams or not.
collectUpstreamHealth(r) ==
    /\ req[r].at = "collect"
    /\ health' = [by |-> Nobody, rt |-> req[r].rt, age |-> 0, ok |-> alive]
    /\ Report(r, req[r].rt, alive)
    /\ UNCHANGED <<shape, audited, left, snap, alive, flights, icon>>

Age ==
    /\ health.age < HealthTtl
    /\ health' = [health EXCEPT !.age = @ + 1]
    /\ UNCHANGED <<shape, req, audited, left, snap, alive, flights, icon>>

\* A reload, or a sync of discovery.
NewSnapshot ==
    /\ snap < SnapCap
    /\ snap' = snap + 1
    /\ UNCHANGED <<shape, req, audited, left, alive, health, flights, icon>>

Fail ==
    /\ alive' = ~alive
    /\ UNCHANGED <<shape, req, audited, left, snap, health, flights, icon>>
-----------------------------------------------------------------------------
\* handleIcon.
LoadIcon(r) ==
    /\ req[r].at = "load"
    /\ IF icon THEN Done(r, 200) ELSE At(r, "begin")
    /\ Quiet

\* iconFlight.begin: lead, or wait for the flight in progress.
JoinFlight(r) ==
    /\ req[r].at = "begin"
    /\ IF flights.leader = Nobody
       THEN At(r, "recheck") /\ flights' = [leader |-> r, n |-> flights.n + 1]
       ELSE /\ req' = [req EXCEPT ![r] = [at |-> "wait", status |-> @.status, rt |-> @.rt,
                                          began |-> @.began, flight |-> flights.n]]
            /\ UNCHANGED flights
    /\ UNCHANGED <<shape, audited, left, snap, alive, health, icon>>

\* Mutant of Recheck: the leader goes straight to the upstream.
RecheckNot(r) == req[r].at = "recheck" /\ At(r, "fetch") /\ Quiet

\* fetchIcon looks again before it fetches.
Recheck(r) ==
    /\ req[r].at = "recheck"
    /\ IF icon THEN Done(r, 200) /\ flights' = [flights EXCEPT !.leader = Nobody]
       ELSE At(r, "fetch") /\ UNCHANGED flights
    /\ UNCHANGED <<shape, audited, left, snap, alive, health, icon>>

\* doFetchIcon succeeds and the icon is stored, or fails; the followers wake.
Fetched(r) ==
    /\ req[r].at = "fetch"
    /\ icon' \in {icon, TRUE}
    /\ Done(r, IF icon' THEN 200 ELSE 502)
    /\ flights' = [flights EXCEPT !.leader = Nobody]
    /\ UNCHANGED <<shape, audited, left, snap, alive, health>>

\* A follower: its flight has ended, or (HangUp) the client has gone.
Follow(r) ==
    /\ req[r].at = "wait"
    /\ flights.leader = Nobody \/ flights.n > req[r].flight
    /\ Done(r, IF icon THEN 200 ELSE 502)
    /\ Quiet

HangUp(r) == req[r].at = "wait" /\ Done(r, 504) /\ Quiet

\* The cache lets the icon go.
Evict ==
    /\ icon /\ icon' = FALSE
    /\ UNCHANGED <<shape, req, audited, left, snap, alive, health, flights>>

FrontStep(r) ==
    \/ Arrive(r) \/ hostValidation(r) \/ bodyCap(r) \/ auth(r) \/ viewerGate(r)
    \/ rateLimit(r) \/ tokenRateLimit(r) \/ refuseDiscover(r) \/ Serve(r) \/ Unwind(r)
    \/ ReadSnapshot(r) \/ LockHealth(r) \/ collectUpstreamHealth(r)
    \/ LoadIcon(r) \/ JoinFlight(r) \/ Recheck(r) \/ Fetched(r) \/ Follow(r)

FrontNext ==
    \/ \E r \in Requests : FrontStep(r) \/ Panic(r) \/ HangUp(r)
    \/ Age \/ NewSnapshot \/ Fail \/ Evict

FrontSpec == FrontInit /\ [][FrontNext]_hvars

\* Handlers run, each wait in them is bounded by a timeout, and sync.Mutex is
\* fair to waiters.
FrontFairness == \A r \in Requests : SF_hvars(req[r].at # "new" /\ FrontStep(r))
-----------------------------------------------------------------------------
Places ==
    {"new", "host", "body", "auth", "viewer", "limit", "tokenLimit", "discover", "serve", "unwind",
     "snapshot", "lock", "collect", "load", "begin", "recheck", "fetch", "wait", "done"}

FrontTypeOK ==
    /\ shape \in [Requests -> Shapes]
    /\ req \in [Requests -> [at : Places, status : Nat, rt : 0..SnapCap, began : 0..SnapCap, flight : Nat]]
    /\ audited \in [Requests -> Nat]
    /\ left \in [DOMAIN Buckets -> Nat] /\ \A b \in DOMAIN Buckets : left[b] <= Buckets[b]
    /\ snap \in 1..SnapCap /\ alive \in BOOLEAN /\ icon \in BOOLEAN
    /\ health \in [by : Requests \cup {Nobody}, rt : 0..SnapCap, age : 0..HealthTtl, ok : BOOLEAN]
    /\ flights \in [leader : Requests \cup {Nobody}, n : Nat]

\* The events due for a request that was answered: one if a layer refused it
\* or the token endpoint answered it, two if its body was cut off inside the
\* token endpoint.
Due(s, status) ==
    IF s.path = "token" /\ s.body = "chunked" /\ status = 413 THEN 2
    ELSE IF \/ status \in {401, 403, 408, 413, 429, 500}
            \/ s.path = "token" /\ status \in {200, 400} THEN 1
    ELSE 0

\* gateway.go ("audit is the single exit door", "does not have a
\* chunked-encoding side gate"; ServeToken: "every terminal response reports
\* through OnExchange"): whichever layer refuses a request, it is audited
\* exactly once, as is all that the token endpoint answers, and nothing else is
\* (the refusal of an era probe, 405, and a body that stalls inside the SDK,
\* 400, among it).  The exception: a body cut off inside ServeToken is audited
\* twice, by the endpoint and by the tripwire.
RefusedOnce ==
    /\ FrontTypeOK
    /\ \A r \in Requests : req[r].at = "done" => audited[r] = Due(shape[r], req[r].status)

\* gateway.go (healthCache): a health report is never about a snapshot retired
\* before its request arrived, however requests, reloads and the shared
\* cache interleave.
HealthOfOwnWorld ==
    \A r \in Requests : req[r].at = "done" /\ req[r].status \in {200, 503} /\ req[r].rt # 0 =>
        req[r].rt >= req[r].began

\* iconproxy.go ("leading a second fetch for bytes the gateway is already
\* holding ... is the amplification this mechanism exists to prevent"): an
\* icon is fetched by one request at a time, and not while it is cached.
OneIconFetch ==
    /\ \A r, s \in Requests : req[r].at = "fetch" /\ req[s].at = "fetch" => r = s
    /\ \A r \in Requests : req[r].at = "fetch" => ~icon

\* Every request is answered, dead upstreams, retired snapshots and failed
\* leaders notwithstanding, except one for an icon whose leader has panicked: the
\* flight never ends, and its followers wait until their clients hang up.
Responds ==
    \A r \in Requests :
        req[r].at = "host" ~>
            \/ req[r].at = "done"
            \/ /\ shape[r].path = "icon" /\ flights.leader # Nobody
               /\ req[flights.leader].at = "done" /\ req[flights.leader].status = 500
=============================================================================
