---------------------------- MODULE MCUpstreams -----------------------------
(***************************************************************************)
(* Federation with its Sessions, and Endpoints, for TLC.  One behaviour    *)
(* exercises one part and leaves the state of the others as it began.      *)
(*    "traffic":    requests are made and reloads change an upstream,      *)
(*                  while the discovery source is down;                    *)
(*    "discovery":  reloads and discovery change the set of upstreams, and *)
(*                  no request is made;                                    *)
(*    "endpoints":  requests connect to the replicas of one upstream.      *)
(***************************************************************************)
EXTENDS Federation, Endpoints

VARIABLE part

all == <<vars, evars, part>>

MCIds == {"a", "b"}
MCConfig(a, b) == [i \in MCIds |-> IF i = "a" THEN a ELSE b]

\* Reloads change "a", and add "b", which discovery may name as well.
MCBases == {MCConfig(1, None), MCConfig(2, None), MCConfig(1, 1)}
MCDocs == {MCConfig(None, None), MCConfig(None, 2)}

\* The traffic is on two objects of one upstream; two requests at a time are
\* of one client.
Situation ==
    IF part = "traffic"
    THEN /\ source = Down /\ baseCfg["b"] = None /\ phase[3] = "closed"
         /\ (\A r \in Reqs : pc[r] # "idle") => (\A r \in Reqs : key[r] # Shared)
    ELSE \A r \in Reqs : pc[r] = "idle"

MCInit ==
    /\ part \in {"traffic", "discovery", "endpoints"}
    /\ Init /\ Situation
    /\ part = "endpoints" => baseCfg = MCConfig(1, None) /\ source = Down
    /\ EndpointsInit /\ (part # "endpoints" => alive = {})

MCNext ==
    /\ UNCHANGED part
    /\ \/ part # "endpoints" /\ Next /\ Situation' /\ UNCHANGED evars
       \/ part = "endpoints" /\ EndpointsNext /\ UNCHANGED vars

\* The fairness of each module, in its part.
MCFairness ==
    /\ WF_vars(part = "discovery" /\ ~stopped /\ Fetch)
    /\ SF_vars(part = "discovery" /\ Sync)
    /\ \A o \in Objs : WF_vars(part = "discovery" /\ Drain(o) /\ UNCHANGED <<config, discovery>>)
    /\ WF_vars(part = "discovery" /\ Tick /\ UNCHANGED <<config, discovery>>)
    /\ \A c \in Callers : WF_evars(part = "endpoints" /\ (Walk(c) \/ ConnectOK(c) \/ ConnectFail(c)))
    /\ \A u \in Urls : WF_evars(part = "endpoints" /\ Cool(u))

MCSpec == MCInit /\ [][MCNext]_all /\ MCFairness
-----------------------------------------------------------------------------
\* LiveEndpointReached of Endpoints: if one replica goes on answering, the
\* connects of an upstream keep succeeding (connect, endpointPool).
MCLiveEndpointReached == part = "endpoints" => LiveEndpointReached
=============================================================================
