------------------------------ MODULE MCClients ------------------------------
(***************************************************************************)
(* What the gateway and the stdio bridge keep for a client between its     *)
(* requests, for TLC: one behaviour exercises StdioBridge or, in one of    *)
(* two situations, Subscriptions, and leaves the other's state as it       *)
(* began.                                                                  *)
(***************************************************************************)
EXTENDS StdioBridge, Subscriptions

VARIABLE part

all == <<bridgeVars, subsVars, part>>

\* "sharing": two sessions, one URI.  "limits": one session that may hold two of
\* three URIs, whose upstream is lost only while nothing is held; operations
\* overlap on one of them.
Situation ==
    /\ part = "sharing" => \A u \in Uris \ {1} : subscribers[u] = {}
    /\ part = "limits" =>
          /\ \A s \in Sessions \ {1} : status[s] = "new"
          /\ (up /\ conn = "off") \/ (\A u \in Uris : subscribers[u] = {} /\ u \notin subscribed)
          /\ Cardinality(raced) <= 1

MCInit ==
    /\ part \in {"stdio", "sharing", "limits"}
    /\ BridgeInit /\ SubsInit

MCNext ==
    /\ UNCHANGED part
    /\ \/ part = "stdio" /\ BridgeNext /\ UNCHANGED subsVars
       \/ part # "stdio" /\ SubsNext /\ Situation' /\ UNCHANGED bridgeVars

\* The fairness of each module, in its part.
MCFairness ==
    /\ \A i \in SessionIds : WF_bridgeVars(part = "stdio" /\ SessionStep(i))
    /\ \A h \in Pollers : WF_bridgeVars(part = "stdio" /\ HealthStep(h))
    /\ WF_bridgeVars(part = "stdio" /\ ~exited /\ SweepIdle)
    /\ WF_subsVars(part # "stdio" /\ SweepStep)

MCSpec == MCInit /\ [][MCNext]_all /\ MCFairness
=============================================================================
