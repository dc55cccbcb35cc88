----------------------------- MODULE Endpoints ------------------------------
(***************************************************************************)
(* The replicas of an upstream (gateway/endpoints.go) and upstream.connect, *)
(* which walks them: endpoints that failed recently last, the others in    *)
(* rotation, at most maxConnectCandidates in one walk.  Each call on the   *)
(* pool is atomic; walks and probes overlap between calls.                 *)
(***************************************************************************)
EXTENDS Naturals, Sequences, SequencesExt

CONSTANTS N,              \* how many endpoints the upstream has
          MaxCandidates,  \* maxConnectCandidates
          Callers         \* connects in progress

ASSUME EndpointsAssumption == N \in Nat \ {0} /\ MaxCandidates \in Nat \ {0}

Urls == 0..N - 1

VARIABLES
    next,       \* endpointPool.next
    cooling,    \* endpoints whose downUntil is in the future
    walk,       \* the candidates each caller has still to try
    cancelled,  \* callers whose context is over
    alive       \* endpoints that answer

pool == <<next, cooling>>
evars == <<pool, walk, cancelled, alive>>

EndpointsTypeOK ==
    /\ next \in Urls
    /\ cooling \in SUBSET Urls
    /\ \A c \in Callers : walk[c] \in Seq(Urls) /\ Len(walk[c]) <= MaxCandidates
    /\ cancelled \in SUBSET Callers
    /\ alive \in SUBSET Urls

EndpointsInit ==
    /\ next = 0
    /\ cooling = {}
    /\ walk = [c \in Callers |-> <<>>]
    /\ cancelled = {}
    /\ alive \in SUBSET Urls
-----------------------------------------------------------------------------
\* candidates: a rotation, then a stable split into healthy and cooling.
candidates ==
    LET rotated == [i \in 1..N |-> (next + i - 1) % N]
    IN  SelectSeq(rotated, LAMBDA u : u \notin cooling)
        \o SelectSeq(rotated, LAMBDA u : u \in cooling)

\* Mutant of rotate: every connect begins with the same endpoint.
rotateNot == next' = next

rotate == next' = (next + 1) % N

\* upstream.connect begins.
Walk(c) ==
    /\ walk[c] = <<>>
    /\ walk' = [walk EXCEPT ![c] = SubSeq(candidates, 1,
                   IF N > MaxCandidates THEN MaxCandidates ELSE N)]
    /\ rotate
    /\ UNCHANGED <<cooling, cancelled, alive>>

markUp(u) == cooling' = cooling \ {u}
markDown(u) == cooling' = cooling \cup {u}

\* connectTo succeeds, and the walk is over.
ConnectOK(c) ==
    /\ walk[c] # <<>>
    /\ c \notin cancelled /\ Head(walk[c]) \in alive
    /\ markUp(Head(walk[c]))
    /\ walk' = [walk EXCEPT ![c] = <<>>]
    /\ UNCHANGED <<next, cancelled, alive>>

\* connectTo fails: the endpoint is ejected, also if it was the caller who
\* gave up.
ConnectFail(c) ==
    /\ walk[c] # <<>>
    /\ c \in cancelled \/ Head(walk[c]) \notin alive
    /\ markDown(Head(walk[c]))
    /\ walk' = [walk EXCEPT ![c] = Tail(@)]
    /\ cancelled' = IF Len(walk[c]) = 1 THEN cancelled \ {c} ELSE cancelled
    /\ UNCHANGED <<next, alive>>

Cancel(c) ==
    /\ walk[c] # <<>>
    /\ cancelled' = cancelled \cup {c}
    /\ UNCHANGED <<pool, walk, alive>>

\* probeEndpoints, for one endpoint.
Probe(u) ==
    /\ IF u \in alive THEN markUp(u) ELSE markDown(u)
    /\ UNCHANGED <<next, walk, cancelled, alive>>

\* downUntil has passed.
Cool(u) ==
    /\ u \in cooling
    /\ cooling' = cooling \ {u}
    /\ UNCHANGED <<next, walk, cancelled, alive>>

Change(u) ==
    /\ alive' = IF u \in alive THEN alive \ {u} ELSE alive \cup {u}
    /\ UNCHANGED <<pool, walk, cancelled>>

EndpointsNext ==
    \/ \E c \in Callers : Walk(c) \/ ConnectOK(c) \/ ConnectFail(c) \/ Cancel(c)
    \/ \E u \in Urls : Probe(u) \/ Cool(u) \/ Change(u)

\* Requests keep coming, attempts end (connectTimeout), cool-downs end.
EndpointsFairness ==
    /\ \A c \in Callers : WF_evars(Walk(c) \/ ConnectOK(c) \/ ConnectFail(c))
    /\ \A u \in Urls : WF_evars(Cool(u))
-----------------------------------------------------------------------------
\* endpoints.go: a replica is never left out for good.  If one endpoint goes
\* on answering and callers no longer give up, connects keep succeeding,
\* however the other endpoints behave, however often their ejection ends
\* early, and although a walk tries only some of the endpoints.
LiveEndpointReached ==
    \A u \in Urls :
        <>[](u \in alive /\ cancelled = {})
        => []<><<\E c \in Callers : ConnectOK(c)>>_evars
=============================================================================
