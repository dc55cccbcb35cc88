------------------------------ MODULE MCCaches ------------------------------
(***************************************************************************)
(* What the gateway keeps to answer from, for TLC.  One behaviour          *)
(* exercises one part and leaves the state of the others as it began.      *)
(*    "memory", "redis":  the list cache, with either state provider; the  *)
(*                        callers, the upstream and what it announces are  *)
(*                        the same in both;                                *)
(*    "map":          the generational map;                                *)
(*    "front":        HTTP requests, with the health and icon caches;      *)
(*    "credentials":  tokens for an upstream;                              *)
(*    "redeem":       the record of redeemed assertions.                   *)
(***************************************************************************)
EXTENDS RedisCache, BoundedMap, Front, Exchange

VARIABLES part,
          entry, value, raced, panicked  \* of ListCache

memVars == <<entry, value, raced, panicked>>
redisVars == <<gen, data, mygen, base>>
all == <<vars, memVars, mapVars, hvars, cvars, xvars, part>>

Mem == INSTANCE ListCache
-----------------------------------------------------------------------------
Of(path, hosts, bodies, sessions, tokens) ==
    {[path |-> path, host |-> h, body |-> b, session |-> s, token |-> t] :
        h \in hosts, b \in bodies, s \in sessions, t \in tokens}

\* Requests that nothing refuses, except for the rate limits.
Plain ==
    Of("mcp", {TRUE}, {"small"}, {FALSE}, {"good"})
    \cup Of("federation", {TRUE}, {"small"}, {FALSE}, {"viewer"})
    \cup UNION {Of(path, {TRUE}, {"small"}, {FALSE}, {"bad"}) : path \in {"token", "health", "icon"}}

MCShapes ==
    Plain
    \cup Of("mcp", {TRUE}, {"small", "declared", "chunked", "stalled", "probe"}, BOOLEAN, {"good"})
    \cup Of("mcp", BOOLEAN, {"small"}, {FALSE}, {"bad", "good"})
    \cup Of("federation", {TRUE}, {"small"}, {FALSE}, {"bad", "good"})
    \cup Of("token", {TRUE}, {"chunked", "stalled"}, {FALSE}, {"bad"})

MCBuckets == [b \in {"global", "tenant", "principal", "token"} |-> IF b = "global" THEN 2 ELSE 1]

\* One of the requests may be of any kind; the other is one it competes with.
Competing == \E r \in Requests : \A q \in Requests \ {r} : shape[q] \in Plain

\* Two presentations are made to one instance, the third to another.
MCEndpoint == [r \in Redeemers |-> IF r = 1 THEN "a" ELSE "b"]
-----------------------------------------------------------------------------
MCInit ==
    /\ part \in {"memory", "redis", "map", "front", "credentials", "redeem"}
    /\ Init /\ Mem!Init /\ MapInit /\ FrontInit /\ ExchangeInit
    /\ IF part = "front" THEN Competing
       ELSE alive /\ shape \in {[r \in Requests |-> s] : s \in Of("icon", {TRUE}, {"small"}, {FALSE}, {"bad"})}

\* The assertion can no longer be presented.
Over == (\A r \in Redeemers : redeem[r] # "valid") /\ life = -Leeway /\ UNCHANGED <<cvars, xvars>>

MCNext ==
    /\ \/ part = "redis" /\ Next /\ UNCHANGED <<memVars, mapVars, hvars, cvars, xvars>>
       \/ part = "memory" /\ Mem!Next /\ UNCHANGED <<redisVars, mapVars, hvars, cvars, xvars>>
       \/ part = "map" /\ MapNext /\ UNCHANGED <<vars, memVars, hvars, cvars, xvars>>
       \/ part = "front" /\ FrontNext /\ UNCHANGED <<vars, memVars, mapVars, cvars, xvars>>
       \/ part = "credentials" /\ CredentialsNext /\ UNCHANGED <<vars, memVars, mapVars, hvars>>
       \/ part = "redeem" /\ (RedeemNext \/ Over) /\ UNCHANGED <<vars, memVars, mapVars, hvars>>
    /\ UNCHANGED part

\* Fairness of ListCache and of Front.
MCSpec ==
    /\ MCInit /\ [][MCNext]_all
    /\ \A c \in Callers : WF_<<calls, entry>>(part = "memory" /\ Mem!CallStep(c) /\ UNCHANGED redisVars)
    /\ FrontFairness
-----------------------------------------------------------------------------
\* What a list request returns is as new as docs/configuration.md promises
\* ("see the change immediately"): always with redisCache, whose generations
\* never hold what was fetched before they began; in process except for a fill
\* that overlapped the announcement (cache.Invalidate).
MCFresh ==
    /\ part = "redis" => TypeOK /\ SeesAnnounced /\ NoOldFillUnderNewGen
    /\ part = "memory" => Mem!TypeOK /\ Mem!StaleOnlyIfRaced

\* Each shared fill is made by one request at a time, however requests overlap:
\* a list (cache.GetOrFill), an icon (iconFlight), a token (cachedFetch).
MCSingleFlight ==
    /\ part = "memory" => Mem!SingleFlight
    /\ OneIconFetch
    /\ OneFetch

\* Every list request and every HTTP request is answered: no wait on another's
\* fill, flight or health check outlasts it (GetOrFill, iconFlight.wait,
\* upstreamHealthFor).
MCAnswered == (part = "memory" => Mem!Answered) /\ Responds
=============================================================================
