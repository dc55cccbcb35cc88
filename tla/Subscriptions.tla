---------------------------- MODULE Subscriptions ----------------------------
(***************************************************************************)
(* resources/subscribe and resources/unsubscribe in gateway/gateway.go:    *)
(* one upstream subscription per URI, shared by all downstream sessions,   *)
(* ref-counted under subMu.  The call to the upstream is made after subMu  *)
(* is released; it takes effect there (Land) before its answer is          *)
(* processed here (Mark) and may fail on either side.  The sweeper takes   *)
(* the references of disconnected sessions away.                           *)
(*                                                                         *)
(* One upstream with one shared root session; a lost session is replaced   *)
(* by rootSession, which replays the subscriptions on record.  A session   *)
(* has one request in flight at a time, and one connect is in progress at  *)
(* a time.  Sessions without an id, which the sweeper leaves alone, are    *)
(* not modelled.                                                           *)
(***************************************************************************)
EXTENDS Naturals, FiniteSets

CONSTANTS Sessions,  \* downstream sessions; an id is used once
          Uris,
          MaxSubs,   \* maxSubscriptionsPerSession
          Sweeper,   \* the goroutine of sweepLoop
          NoUri       \* no URI

ASSUME SubscriptionsAssumption ==
    /\ IsFiniteSet(Uris)
    /\ MaxSubs \in Nat
    /\ Sweeper \notin Sessions
    /\ NoUri \notin Uris

Actors == Sessions \cup {Sweeper}

VARIABLES
    subscribers,  \* Gateway.subscribers
    subCount,     \* Gateway.subCount
    status,       \* whether a downstream session is connected
    step, target,   \* the call each actor has in flight, and its URI
    snapshot,     \* reapSubscribers: the sessions it found connected
    orphaned,     \* reapSubscribers: the URIs it still has to release
    up,           \* rootEntry.session # nil
    subscribed,   \* rootEntry.subscribed
    conn, resub,  \* rootSession in progress, and the URIs it will replay
    held,         \* the subscriptions the upstream keeps for the session
    lost,         \* history: URIs whose replay failed in this session
    raced         \* history: URIs whose operations have overlapped

table == <<subscribers, subCount>>
actors == <<step, target>>
sweep == <<snapshot, orphaned>>
root == <<up, subscribed, conn, resub, held, lost>>
subsVars == <<table, status, actors, sweep, root, raced>>

Calls == {"subscribe", "subscribed", "unsubscribe", "unsubscribed"}

SubsTypeOK ==
    /\ subscribers \in [Uris -> SUBSET Sessions]
    /\ subCount \in [Sessions -> Nat]
    /\ status \in [Sessions -> {"new", "live", "gone"}]
    /\ step \in [Actors -> {"idle", "reap", "release"} \cup Calls]
    /\ target \in [Actors -> Uris \cup {NoUri}]
    /\ snapshot \in SUBSET Sessions
    /\ orphaned \in SUBSET Uris
    /\ up \in BOOLEAN
    /\ subscribed \in SUBSET Uris
    /\ conn \in {"off", "connecting", "replaying"}
    /\ resub \in SUBSET Uris
    /\ held \in SUBSET Uris
    /\ lost \in SUBSET Uris
    /\ raced \in SUBSET Uris

SubsInit ==
    /\ subscribers = [u \in Uris |-> {}]
    /\ subCount = [s \in Sessions |-> 0]
    /\ status = [s \in Sessions |-> "new"]
    /\ step = [a \in Actors |-> "idle"]
    /\ target = [a \in Actors |-> NoUri]
    /\ snapshot = {}
    /\ orphaned = {}
    /\ up = FALSE
    /\ subscribed = {}
    /\ conn = "off"
    /\ resub = {}
    /\ held = {}
    /\ lost = {}
    /\ raced = {}

\* An operation on u has left subMu and is not over.
InFlight(u) == u \in orphaned \/ \E a \in Actors : target[a] = u

\* URIs whose call the upstream has answered and markSubscribed not recorded.
Unmarked == {target[a] : a \in {b \in Actors : step[b] \in {"subscribed", "unsubscribed"}}}

Overlap(us) == raced' = raced \cup us
-----------------------------------------------------------------------------
Connect(s) ==
    /\ status[s] = "new"
    /\ status' = [status EXCEPT ![s] = "live"]
    /\ UNCHANGED <<table, actors, sweep, root, raced>>

\* A client may go away without unsubscribing, and while a request of its
\* is still being handled.
Disconnect(s) ==
    /\ status[s] = "live"
    /\ status' = [status EXCEPT ![s] = "gone"]
    /\ UNCHANGED <<table, actors, sweep, root, raced>>

Call(a, call, u) ==
    /\ step' = [step EXCEPT ![a] = call]
    /\ target' = [target EXCEPT ![a] = u]

\* Mutant of WithinLimit: one subscription too many is let through.
WithinLimitPlusOne(s, u) == s \in subscribers[u] \/ subCount[s] <= MaxSubs

\* handleSubscribe is not refused.  A refused request changes nothing.
WithinLimit(s, u) == s \in subscribers[u] \/ subCount[s] < MaxSubs

\* Mutant of Subscribe: a repeated request is counted again.
SubscribeRecounts(s, u) ==
    /\ status[s] # "new" /\ step[s] = "idle"
    /\ WithinLimit(s, u)
    /\ subscribers' = [subscribers EXCEPT ![u] = @ \cup {s}]
    /\ subCount' = [subCount EXCEPT ![s] = @ + 1]
    /\ IF subscribers[u] = {} THEN Call(s, "subscribe", u) ELSE UNCHANGED actors
    /\ Overlap({v \in {u} : InFlight(v)})
    /\ UNCHANGED <<status, sweep, root>>

\* handleSubscribe up to the release of subMu: the first subscriber of a
\* URI goes on to call the upstream, the others return.
Subscribe(s, u) ==
    /\ status[s] # "new" /\ step[s] = "idle"
    /\ WithinLimit(s, u)
    /\ subscribers' = [subscribers EXCEPT ![u] = @ \cup {s}]
    /\ subCount' = IF s \in subscribers[u] THEN subCount
                   ELSE [subCount EXCEPT ![s] = @ + 1]
    /\ IF subscribers[u] = {} THEN Call(s, "subscribe", u) ELSE UNCHANGED actors
    /\ Overlap({v \in {u} : InFlight(v)})
    /\ UNCHANGED <<status, sweep, root>>

\* A session that is not in the set is left alone.
dropSubscriberLocked(s, u) ==
    /\ subscribers' = [subscribers EXCEPT ![u] = @ \ {s}]
    /\ subCount' = IF s \notin subscribers[u] THEN subCount
                   ELSE [subCount EXCEPT ![s] = IF @ <= 1 THEN 0 ELSE @ - 1]

\* Mutant of Unsubscribe: every unsubscribe is forwarded.
UnsubscribeForwards(s, u) ==
    /\ status[s] # "new" /\ step[s] = "idle"
    /\ s \in subscribers[u]
    /\ dropSubscriberLocked(s, u)
    /\ Call(s, "unsubscribe", u)
    /\ Overlap({v \in {u} : InFlight(v)})
    /\ UNCHANGED <<status, sweep, root>>

\* handleUnsubscribe up to the release of subMu.  The last subscriber goes
\* on to call the upstream.
Unsubscribe(s, u) ==
    /\ status[s] # "new" /\ step[s] = "idle"
    /\ s \in subscribers[u]
    /\ dropSubscriberLocked(s, u)
    /\ IF subscribers[u] = {s} THEN Call(s, "unsubscribe", u) ELSE UNCHANGED actors
    /\ Overlap({v \in {u} : InFlight(v)})
    /\ UNCHANGED <<status, sweep, root>>
-----------------------------------------------------------------------------
\* The call of a takes effect at the upstream.
Land(a) ==
    LET u == target[a] IN
    /\ up
    /\ \/ /\ step[a] = "subscribe"
          /\ step' = [step EXCEPT ![a] = "subscribed"]
          /\ held' = held \cup {u}
       \/ /\ step[a] = "unsubscribe"
          /\ step' = [step EXCEPT ![a] = "unsubscribed"]
          /\ held' = held \ {u}
    /\ UNCHANGED <<table, status, target, sweep, up, subscribed, conn, resub, lost, raced>>

\* The call of a is over: a request returns, the sweep has more URIs.
Done(a) ==
    /\ step' = [step EXCEPT ![a] = IF a = Sweeper THEN "release" ELSE "idle"]
    /\ target' = [target EXCEPT ![a] = NoUri]

\* markSubscribed, after a call that succeeded.
Mark(a) ==
    LET u == target[a] IN
    /\ \/ step[a] = "subscribed" /\ subscribed' = subscribed \cup {u}
       \/ step[a] = "unsubscribed" /\ subscribed' = subscribed \ {u}
    /\ Done(a)
    /\ UNCHANGED <<table, status, sweep, up, conn, resub, held, lost, raced>>

\* u.subscribe returned an error: the reference is taken back.
SubscribeFails(a) ==
    /\ step[a] \in {"subscribe", "subscribed"}
    /\ dropSubscriberLocked(a, target[a])
    /\ Done(a)
    /\ UNCHANGED <<status, sweep, root, raced>>

\* u.unsubscribe returned an error: the reference stays gone.
UnsubscribeFails(a) ==
    /\ step[a] \in {"unsubscribe", "unsubscribed"}
    /\ Done(a)
    /\ UNCHANGED <<table, status, sweep, root, raced>>
-----------------------------------------------------------------------------
\* reapSubscribers asks the server for its sessions...
ReapStart ==
    /\ step[Sweeper] = "idle"
    /\ snapshot' = {s \in Sessions : status[s] = "live"}
    /\ step' = [step EXCEPT ![Sweeper] = "reap"]
    /\ UNCHANGED <<table, status, target, orphaned, root, raced>>

Of(s) == {u \in Uris : s \in subscribers[u]}

\* Mutant of Gone: only a URI whose subscribers are all gone is looked at.
GoneTogether(u) ==
    IF subscribers[u] \cap snapshot = {} THEN subscribers[u] ELSE {}

\* The subscribers of u that are not among them.
Gone(u) == subscribers[u] \ snapshot

\* ...and drops the references of the others under subMu.
ReapDrop ==
    /\ step[Sweeper] = "reap"
    /\ subscribers' = [u \in Uris |-> subscribers[u] \ Gone(u)]
    /\ subCount' = [s \in Sessions |->
                       LET dropped == Cardinality({u \in Uris : s \in Gone(u)})
                       IN  IF subCount[s] <= dropped /\ dropped > 0 THEN 0
                           ELSE subCount[s] - dropped]
    /\ orphaned' = {u \in Uris : Gone(u) # {} /\ subscribers[u] = Gone(u)}
    /\ step' = [step EXCEPT ![Sweeper] = "release"]
    /\ snapshot' = {}
    /\ Overlap({u \in orphaned' : InFlight(u)})
    /\ UNCHANGED <<status, target, root>>

\* It unsubscribes from the URIs nobody is left for, if isSubscribed.
ReapRelease(u) ==
    /\ step[Sweeper] = "release"
    /\ u \in orphaned
    /\ orphaned' = orphaned \ {u}
    /\ IF u \in subscribed THEN Call(Sweeper, "unsubscribe", u) ELSE UNCHANGED actors
    /\ UNCHANGED <<table, status, snapshot, root, raced>>

ReapDone ==
    /\ step[Sweeper] = "release"
    /\ orphaned = {}
    /\ step' = [step EXCEPT ![Sweeper] = "idle"]
    /\ UNCHANGED <<table, status, target, sweep, root, raced>>
-----------------------------------------------------------------------------
\* The transport fails: dropSession keeps subscribed for the reconnect.
Lose ==
    /\ up
    /\ up' = FALSE
    /\ held' = {}
    /\ Overlap(Unmarked)
    /\ UNCHANGED <<table, status, actors, sweep, subscribed, conn, resub, lost>>

\* rootSession: the URIs to replay are collected before connecting.
Reconnect ==
    /\ ~up /\ conn = "off"
    /\ resub' = subscribed
    /\ conn' = "connecting"
    /\ Overlap(Unmarked)
    /\ UNCHANGED <<table, status, actors, sweep, up, subscribed, held, lost>>

InstallRoot ==
    /\ conn = "connecting"
    /\ up' = TRUE
    /\ conn' = "replaying"
    /\ lost' = {}
    /\ UNCHANGED <<table, status, actors, sweep, subscribed, resub, held, raced>>

Replay(u) ==
    /\ conn = "replaying" /\ up
    /\ u \in resub
    /\ held' = held \cup {u}
    /\ resub' = resub \ {u}
    /\ UNCHANGED <<table, status, actors, sweep, up, subscribed, conn, lost, raced>>

\* "best effort": the error is ignored.
ReplayFails(u) ==
    /\ conn = "replaying"
    /\ u \in resub
    /\ lost' = lost \cup {u}
    /\ resub' = resub \ {u}
    /\ UNCHANGED <<table, status, actors, sweep, up, subscribed, conn, held, raced>>

Reconnected ==
    /\ conn = "replaying"
    /\ resub = {}
    /\ conn' = "off"
    /\ UNCHANGED <<table, status, actors, sweep, up, subscribed, resub, held, lost, raced>>
-----------------------------------------------------------------------------
SweepStep ==
    \/ ReapStart \/ ReapDrop \/ ReapDone
    \/ \E u \in Uris : ReapRelease(u)
    \/ Land(Sweeper) \/ Mark(Sweeper) \/ UnsubscribeFails(Sweeper)

SubsNext ==
    \/ \E s \in Sessions :
          \/ Connect(s) \/ Disconnect(s)
          \/ \E u \in Uris : Subscribe(s, u) \/ Unsubscribe(s, u)
          \/ Land(s) \/ Mark(s) \/ SubscribeFails(s) \/ UnsubscribeFails(s)
    \/ SweepStep
    \/ Lose \/ Reconnect \/ InstallRoot \/ Reconnected
    \/ \E u \in Uris : Replay(u) \/ ReplayFails(u)

SubsSpec == SubsInit /\ [][SubsNext]_subsVars

\* The sweeper's ticker fires, and its calls end (requestTimeout).
SubsFairSpec == SubsSpec /\ WF_subsVars(SweepStep)
-----------------------------------------------------------------------------
\* subCount, which enforces the limit, agrees with the table it counts, over
\* failed calls, repeated requests and sweeps; and no session exceeds it.
CountInStep ==
    \A s \in Sessions :
        subCount[s] = Cardinality(Of(s)) /\ subCount[s] <= MaxSubs

\* No operation on u is in progress, none has overlapped with another, and
\* the last replay of u did not fail.
Settled(u) ==
    /\ up /\ conn = "off"
    /\ ~InFlight(u)
    /\ u \notin lost \cup raced

\* handleSubscribe's "upstream subscription already held": once u is settled,
\* whoever subscribes to u is backed by an upstream subscription, over
\* failures, lost sessions, reconnects and sweeps.
WantedIsHeld ==
    \A u \in Uris :
        Settled(u) /\ subscribers[u] # {} => u \in held

\* reapSubscribers: "every client that subscribed and went away" loses its
\* references in the end.
GoneAreReaped ==
    \A s \in Sessions : status[s] = "gone" ~> Of(s) = {}
-----------------------------------------------------------------------------
\* gateway.go: subscriptions are ref-counted "so one client's unsubscribe
\* cannot tear down another's".
NoTearDown ==
    [][\A s, t \in Sessions :
          LET u == target[s] IN
          /\ step[s] = "unsubscribe" /\ Land(s) /\ u \in held
          /\ t # s /\ t \in subscribers[u]
          => step[t] # "idle"]_subsVars
=============================================================================
