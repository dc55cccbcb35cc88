------------------------- MODULE SubscriptionsProofs -------------------------
(***************************************************************************)
(* Proofs about Subscriptions: for any sessions, URIs and limit, with any  *)
(* overlap of requests, failures, losses and sweeps, the per-session count *)
(* stays in step with the subscription table; and what is subscribed to is *)
(* held by the upstream, or about to be, unless operations on the URI have *)
(* overlapped or the subscription was lost.                                *)
(***************************************************************************)
EXTENDS Subscriptions, FiniteSetTheorems, TLAPS

\* The URIs of a session, and any part of Uris, have a cardinality.
LEMMA UrisFinite ==
    ASSUME NEW T \in SUBSET Uris
    PROVE  IsFiniteSet(T) /\ Cardinality(T) \in Nat
  BY SubscriptionsAssumption, FS_Subset, FS_CardinalityType

\* What the steps on the table have to preserve.
TableInv ==
    /\ subscribers \in [Uris -> SUBSET Sessions]
    /\ subCount \in [Sessions -> Nat]
    /\ CountInStep

\* handleSubscribe under subMu.
LEMMA SubscribeTable ==
    ASSUME TableInv, NEW s \in Sessions, NEW u \in Uris, Subscribe(s, u)
    PROVE  TableInv'
<1>. USE DEF TableInv
<1>1. /\ subscribers' = [subscribers EXCEPT ![u] = @ \cup {s}]
      /\ subCount' = IF s \in subscribers[u] THEN subCount
                     ELSE [subCount EXCEPT ![s] = @ + 1]
      /\ s \in subscribers[u] \/ subCount[s] < MaxSubs
  BY DEF Subscribe, WithinLimit
<1>2. subscribers' \in [Uris -> SUBSET Sessions]
  BY <1>1
<1>3. subCount' \in [Sessions -> Nat]
  BY <1>1
<1>4. ASSUME NEW t \in Sessions
      PROVE  subCount'[t] = Cardinality(Of(t)') /\ subCount'[t] <= MaxSubs
  <2>1. Of(t) \in SUBSET Uris /\ subCount[t] = Cardinality(Of(t)) /\ subCount[t] <= MaxSubs
    BY <1>4 DEF Of, CountInStep
  <2>2. CASE t # s \/ s \in subscribers[u]
    <3>1. Of(t)' = Of(t)
      BY <1>1, <1>4, <2>2 DEF Of
    <3>2. subCount'[t] = subCount[t]
      BY <1>1, <1>4, <2>2
    <3>3. QED
      BY <2>1, <3>1, <3>2
  <2>3. CASE t = s /\ s \notin subscribers[u]
    <3>1. Of(t)' = Of(t) \cup {u} /\ u \notin Of(t)
      BY <1>1, <2>3 DEF Of
    <3>2. Cardinality(Of(t)') = Cardinality(Of(t)) + 1
      BY <2>1, <3>1, UrisFinite, FS_AddElement
    <3>3. subCount'[t] = subCount[t] + 1 /\ subCount[t] < MaxSubs
      BY <1>1, <2>3
    <3>4. QED
      BY <2>1, <3>2, <3>3, SubscriptionsAssumption
  <2>4. QED
    BY <2>2, <2>3
<1>5. QED
  BY <1>2, <1>3, <1>4 DEF CountInStep

\* dropSubscriberLocked, called when a client unsubscribes and when the
\* upstream refused a subscription, also one the sweeper has dropped before.
LEMMA DropTable ==
    ASSUME TableInv, NEW s \in Sessions, NEW u \in Uris, dropSubscriberLocked(s, u)
    PROVE  TableInv'
<1>. USE DEF TableInv
<1>1. /\ subscribers' = [subscribers EXCEPT ![u] = @ \ {s}]
      /\ subCount' = IF s \notin subscribers[u] THEN subCount
                     ELSE [subCount EXCEPT ![s] = IF @ <= 1 THEN 0 ELSE @ - 1]
  BY DEF dropSubscriberLocked
<1>2. subscribers' \in [Uris -> SUBSET Sessions]
  BY <1>1
<1>3. subCount' \in [Sessions -> Nat]
  BY <1>1
<1>4. ASSUME NEW t \in Sessions
      PROVE  subCount'[t] = Cardinality(Of(t)') /\ subCount'[t] <= MaxSubs
  <2>1. Of(t) \in SUBSET Uris /\ subCount[t] = Cardinality(Of(t)) /\ subCount[t] <= MaxSubs
    BY <1>4 DEF Of, CountInStep
  <2>2. CASE t # s \/ s \notin subscribers[u]
    <3>1. Of(t)' = Of(t)
      BY <1>1, <1>4, <2>2 DEF Of
    <3>2. subCount'[t] = subCount[t]
      BY <1>1, <1>4, <2>2
    <3>3. QED
      BY <2>1, <3>1, <3>2
  <2>3. CASE t = s /\ s \in subscribers[u]
    <3>1. Of(t)' = Of(t) \ {u} /\ u \in Of(t)
      BY <1>1, <2>3 DEF Of
    <3>2. Cardinality(Of(t)') = Cardinality(Of(t)) - 1
      BY <2>1, <3>1, UrisFinite, FS_RemoveElement
    <3>3. Of(t)' \in SUBSET Uris
      BY <2>1, <3>1
    <3>4. Cardinality(Of(t)') \in Nat
      BY <3>3, UrisFinite
    <3>5. subCount'[t] = IF subCount[t] <= 1 THEN 0 ELSE subCount[t] - 1
      BY <1>1, <2>3
    <3>6. QED
      BY <2>1, <3>2, <3>4, <3>5, SubscriptionsAssumption
  <2>4. QED
    BY <2>2, <2>3
<1>5. QED
  BY <1>2, <1>3, <1>4 DEF CountInStep

\* reapSubscribers under subMu: a session keeps all of its references or
\* loses all of them, and its count with them.
LEMMA ReapTable ==
    ASSUME TableInv, ReapDrop
    PROVE  TableInv'
<1>. USE DEF TableInv
<1>. DEFINE Dropped(s) == {u \in Uris : s \in Gone(u)}
<1>1. /\ subscribers' = [u \in Uris |-> subscribers[u] \ Gone(u)]
      /\ subCount' = [s \in Sessions |->
                         IF subCount[s] <= Cardinality(Dropped(s)) /\ Cardinality(Dropped(s)) > 0
                         THEN 0 ELSE subCount[s] - Cardinality(Dropped(s))]
  BY DEF ReapDrop
<1>2. subscribers' \in [Uris -> SUBSET Sessions]
  BY <1>1
<1>3. ASSUME NEW s \in Sessions
      PROVE  /\ subCount'[s] \in Nat
             /\ subCount'[s] = Cardinality(Of(s)')
             /\ subCount'[s] <= MaxSubs
  <2>. DEFINE d == Cardinality(Dropped(s))
  <2>1. Of(s) \in SUBSET Uris /\ subCount[s] = Cardinality(Of(s)) /\ subCount[s] <= MaxSubs
    BY <1>3 DEF Of, CountInStep
  <2>2. subCount'[s] = IF subCount[s] <= d /\ d > 0 THEN 0 ELSE subCount[s] - d
    BY <1>1, <1>3
  <2>3. CASE s \in snapshot
    <3>1. Dropped(s) = {}
      BY <2>3 DEF Gone
    <3>2. d = 0
      BY <3>1, FS_EmptySet
    <3>3. Of(s)' = Of(s)
      BY <1>1, <2>3 DEF Of, Gone
    <3>4. QED
      BY <1>3, <2>1, <2>2, <3>2, <3>3
  <2>4. CASE s \notin snapshot
    <3>1. Dropped(s) = Of(s)
      BY <2>4 DEF Gone, Of
    <3>2. Of(s)' = {}
      BY <1>1, <2>4 DEF Of, Gone
    <3>3. d = subCount[s] /\ d \in Nat
      BY <1>3, <2>1, <3>1
    <3>4. subCount'[s] = 0
      BY <2>2, <3>3
    <3>5. QED
      BY <3>2, <3>4, FS_EmptySet, SubscriptionsAssumption
  <2>5. QED
    BY <2>3, <2>4
<1>4. subCount' \in [Sessions -> Nat]
  BY <1>1, <1>3
<1>5. QED
  BY <1>2, <1>3, <1>4 DEF CountInStep

\* Steps that leave the table alone.
LEMMA TableStutter ==
    ASSUME TableInv, UNCHANGED table
    PROVE  TableInv'
  BY DEF TableInv, table, CountInStep, Of
-----------------------------------------------------------------------------
\* The rest of the state: what SubsTypeOK says beside the table, and that a call
\* in flight has a URI.
RestOK ==
    /\ status \in [Sessions -> {"new", "live", "gone"}]
    /\ step \in [Actors -> {"idle", "reap", "release"} \cup Calls]
    /\ target \in [Actors -> Uris \cup {NoUri}]
    /\ \A a \in Actors : step[a] \in Calls => target[a] \in Uris
    /\ snapshot \in SUBSET Sessions
    /\ orphaned \in SUBSET Uris
    /\ up \in BOOLEAN
    /\ subscribed \in SUBSET Uris
    /\ conn \in {"off", "connecting", "replaying"}
    /\ resub \in SUBSET Uris
    /\ held \in SUBSET Uris
    /\ lost \in SUBSET Uris
    /\ raced \in SUBSET Uris

Inv == TableInv /\ RestOK

\* The initial state satisfies the inductive invariant.
LEMMA InitInv == SubsInit => Inv
<1>. SUFFICES ASSUME SubsInit PROVE Inv
  OBVIOUS
<1>. USE DEF SubsInit
<1>1. TableInv
  <2>1. \A s \in Sessions : Of(s) = {}
    BY DEF Of
  <2>2. QED
    BY <2>1, FS_EmptySet, SubscriptionsAssumption DEF TableInv, CountInStep
<1>2. up \in BOOLEAN
  BY Zenon
<1>3. RestOK
  BY <1>2 DEF RestOK, Actors, Calls
<1>4. QED
  BY <1>1, <1>3 DEF Inv

\* Every step keeps the inductive invariant.
LEMMA StepInv == Inv /\ [SubsNext]_subsVars => Inv'
<1>. SUFFICES ASSUME TableInv, RestOK, [SubsNext]_subsVars
     PROVE  TableInv' /\ RestOK'
  BY DEF Inv
<1>. DEFINE Kept == UNCHANGED table /\ RestOK'
<1>1. ASSUME NEW s \in Sessions, Connect(s) \/ Disconnect(s) PROVE Kept
  BY <1>1 DEF Connect, Disconnect, RestOK, table, actors, sweep, root
<1>2. ASSUME NEW s \in Sessions, NEW u \in Uris, Subscribe(s, u)
      PROVE  TableInv' /\ RestOK'
  BY <1>2, SubscribeTable DEF Subscribe, Call, Overlap, RestOK, Actors, Calls, actors, sweep, root
<1>3. ASSUME NEW s \in Sessions, NEW u \in Uris, Unsubscribe(s, u)
      PROVE  TableInv' /\ RestOK'
  BY <1>3, DropTable DEF Unsubscribe, Call, Overlap, RestOK, Actors, Calls, actors, sweep, root
<1>4. ASSUME NEW a \in Actors, Land(a) PROVE Kept
  BY <1>4 DEF Land, RestOK, Calls, sweep, root
<1>5. ASSUME NEW a \in Actors, Mark(a) PROVE Kept
  BY <1>5 DEF Mark, Done, RestOK, Calls, sweep, root
<1>6. ASSUME NEW s \in Sessions, SubscribeFails(s)
      PROVE  TableInv' /\ RestOK'
  <2>1. s \in Actors /\ target[s] \in Uris
    BY <1>6 DEF SubscribeFails, RestOK, Actors, Calls
  <2>2. TableInv'
    BY <1>6, <2>1, DropTable DEF SubscribeFails
  <2>3. RestOK'
    BY <1>6, <2>1 DEF SubscribeFails, Done, RestOK, Calls, sweep, root
  <2>4. QED
    BY <2>2, <2>3
<1>7. ASSUME NEW a \in Actors, UnsubscribeFails(a) PROVE Kept
  BY <1>7 DEF UnsubscribeFails, Done, RestOK, Calls, sweep, root
<1>8. CASE ReapStart
  BY <1>8, TableStutter DEF ReapStart, RestOK, Actors, Calls, root
<1>9. CASE ReapDrop
  BY <1>9, ReapTable DEF ReapDrop, Overlap, RestOK, Actors, Calls, root
<1>10. ASSUME NEW u \in Uris, ReapRelease(u) PROVE Kept
  BY <1>10 DEF ReapRelease, Call, RestOK, Actors, Calls, actors, root
<1>11. CASE ReapDone
  BY <1>11, TableStutter DEF ReapDone, RestOK, Actors, Calls, sweep, root
<1>12. ASSUME Lose \/ Reconnect \/ InstallRoot \/ Reconnected PROVE Kept
  <2>1. up' \in BOOLEAN
    <3>1. Lose => up' \in BOOLEAN
      BY Zenon DEF Lose
    <3>2. InstallRoot => up' \in BOOLEAN
      BY Zenon DEF InstallRoot
    <3>3. Reconnect \/ Reconnected => up' \in BOOLEAN
      BY DEF Reconnect, Reconnected, RestOK
    <3>4. QED
      BY <1>12, <3>1, <3>2, <3>3
  <2>2. Unmarked \subseteq Uris
    BY DEF Unmarked, RestOK, Calls
  <2>3. QED
    BY <1>12, <2>1, <2>2 DEF Lose, Reconnect, InstallRoot, Reconnected, Overlap, RestOK, actors, sweep
<1>13. ASSUME NEW u \in Uris, Replay(u) \/ ReplayFails(u) PROVE Kept
  BY <1>13 DEF Replay, ReplayFails, RestOK, actors, sweep
<1>14. CASE UNCHANGED subsVars
  BY <1>14, TableStutter DEF subsVars, RestOK, actors, sweep, root
<1>15. Kept => TableInv' /\ RestOK'
  BY TableStutter
<1>. HIDE DEF Kept
<1>16. Sweeper \in Actors /\ \A s \in Sessions : s \in Actors
  BY DEF Actors
<1>17. QED
  BY <1>1, <1>2, <1>3, <1>4, <1>5, <1>6, <1>7, <1>8, <1>9, <1>10, <1>11,
     <1>12, <1>13, <1>14, <1>15, <1>16, Zenon DEF SubsNext, SweepStep

\* Subscriptions' variables always have their types: in particular subCount
\* never goes below zero, however drops and sweeps overlap.
THEOREM TypeCorrect == SubsSpec => []SubsTypeOK
<1>1. Inv => SubsTypeOK
  BY DEF Inv, TableInv, RestOK, SubsTypeOK
<1>2. QED
  BY <1>1, InitInv, StepInv, PTL DEF SubsSpec

\* maxSubscriptionsPerSession is enforced against the truth: subCount equals
\* the number of URIs the session is recorded for, and stays within the limit.
THEOREM CountCorrect == SubsSpec => []CountInStep
<1>1. Inv => CountInStep
  BY DEF Inv, TableInv
<1>2. QED
  BY <1>1, InitInv, StepInv, PTL DEF SubsSpec
-----------------------------------------------------------------------------
\* Until operations on u have overlapped, at most one is in flight, and it knows
\* who subscribes: nobody once it unsubscribes, itself alone while it subscribes.
Flight(u) ==
    u \notin raced =>
        /\ \A a, b \in Actors : target[a] = u /\ target[b] = u => a = b
        /\ u \in orphaned => subscribers[u] = {} /\ \A a \in Actors : target[a] # u
        /\ \A a \in Actors : target[a] = u =>
              /\ step[a] \in {"unsubscribe", "unsubscribed"} => subscribers[u] = {}
              /\ step[a] \in {"subscribe", "subscribed"} => a \in Sessions /\ subscribers[u] = {a}
              /\ step[a] = "subscribed" => u \in held /\ up

\* With none in flight, a URI that is subscribed to is on record, so a connect in
\* progress will replay it; and the upstream keeps it, or a replay is due.
Backed(u) ==
    u \notin raced /\ ~InFlight(u) /\ subscribers[u] # {} =>
        /\ u \in subscribed
        /\ conn = "connecting" => u \in resub
        /\ up /\ u \notin lost => u \in held \/ (conn = "replaying" /\ u \in resub)

Targeted == \A a \in Actors : target[a] # NoUri => step[a] \in Calls

HeldInv ==
    /\ Targeted
    /\ conn = "connecting" => ~up
    /\ \A u \in Uris : Flight(u) /\ Backed(u)

\* Nothing is wanted at first.
LEMMA HeldInit == SubsInit => HeldInv
  BY SubscriptionsAssumption DEF SubsInit, HeldInv, Targeted, Flight, Backed, InFlight

\* A request of a session that changes the subscribers of v.
LEMMA RequestHeld ==
    ASSUME Inv, HeldInv, NEW s \in Sessions, NEW v \in Uris, Subscribe(s, v) \/ Unsubscribe(s, v)
    PROVE  HeldInv'
<1>. USE SubscriptionsAssumption DEF Inv, TableInv, RestOK
<1>1. /\ UNCHANGED <<orphaned, up, subscribed, conn, resub, held, lost>>
      /\ raced' = raced \cup {w \in {v} : InFlight(w)}
      /\ \A u \in Uris : u # v => subscribers'[u] = subscribers[u]
  BY DEF Subscribe, Unsubscribe, dropSubscriberLocked, Overlap, root, sweep
<1>2. s \in Actors /\ step[s] = "idle" /\ target[s] = NoUri
  BY DEF Subscribe, Unsubscribe, Actors, HeldInv, Targeted, Calls
<1>3. \A a \in Actors : a # s => step'[a] = step[a] /\ target'[a] = target[a]
  BY <1>2 DEF Subscribe, Unsubscribe, Call, actors
<1>4. \/ step'[s] = "idle" /\ target'[s] = NoUri /\ (subscribers[v] # {}) /\ subscribers'[v] # {}
      \/ step'[s] = "subscribe" /\ target'[s] = v /\ subscribers'[v] = {s}
      \/ step'[s] = "unsubscribe" /\ target'[s] = v /\ subscribers'[v] = {}
  BY <1>2 DEF Subscribe, Unsubscribe, dropSubscriberLocked, Call, actors
<1>5. Targeted'
  BY <1>3, <1>4 DEF HeldInv, Targeted, Calls
<1>6. ASSUME NEW u \in Uris, u # v PROVE Flight(u)' /\ Backed(u)'
  <2>1. u \notin raced' <=> u \notin raced
    BY <1>1, <1>6
  <2>2. target'[s] # u /\ target[s] # u
    BY <1>2, <1>4, <1>6
  <2>3. Flight(u)'
    BY <1>1, <1>3, <1>6, <2>1, <2>2 DEF HeldInv, Flight
  <2>4. InFlight(u)' <=> InFlight(u)
    BY <1>1, <1>3, <2>2 DEF InFlight
  <2>5. QED
    BY <1>1, <1>6, <2>1, <2>3, <2>4 DEF HeldInv, Backed
<1>7. Flight(v)' /\ Backed(v)'
  <2>. SUFFICES ASSUME v \notin raced' PROVE Flight(v)' /\ Backed(v)'
    BY DEF Flight, Backed
  <2>1. v \notin raced /\ ~InFlight(v)
    BY <1>1
  <2>2. v \notin orphaned' /\ \A a \in Actors : a # s => target'[a] # v
    BY <1>1, <1>3, <2>1 DEF InFlight
  <2>3. Flight(v)'
    BY <1>2, <1>4, <2>2 DEF Flight
  <2>4. CASE target'[s] = v
    BY <1>2, <2>3, <2>4 DEF Backed, InFlight
  <2>5. CASE target'[s] # v
    <3>1. subscribers[v] # {}
      BY <1>4, <2>5
    <3>2. QED
      BY <1>1, <2>1, <2>3, <3>1 DEF HeldInv, Backed
  <2>6. QED
    BY <2>4, <2>5
<1>8. QED
  BY <1>1, <1>5, <1>6, <1>7 DEF HeldInv

\* The call of a takes effect at the upstream.
LEMMA LandHeld ==
    ASSUME Inv, HeldInv, NEW a \in Actors, Land(a)
    PROVE  HeldInv'
<1>. USE SubscriptionsAssumption DEF Inv, TableInv, RestOK
<1>. DEFINE v == target[a]
<1>1. /\ UNCHANGED <<subscribers, target, orphaned, up, subscribed, conn, resub, lost, raced>> /\ up
      /\ \/ step[a] = "subscribe" /\ step' = [step EXCEPT ![a] = "subscribed"] /\ held' = held \cup {v}
         \/ step[a] = "unsubscribe" /\ step' = [step EXCEPT ![a] = "unsubscribed"] /\ held' = held \ {v}
  BY DEF Land, table, sweep
<1>2. v \in Uris /\ target'[a] = v
  BY <1>1 DEF Calls
<1>. HIDE DEF v
<1>3. Targeted'
  BY <1>1 DEF HeldInv, Targeted, Calls
<1>4. \A b \in Actors : b # a => step'[b] = step[b]
  BY <1>1
<1>5. ASSUME NEW u \in Uris PROVE Flight(u)'
  <2>. SUFFICES ASSUME u \notin raced PROVE Flight(u)'
    BY <1>1 DEF Flight
  <2>1. /\ \A b, c \in Actors : target[b] = u /\ target[c] = u => b = c
        /\ u \in orphaned => subscribers[u] = {} /\ \A b \in Actors : target[b] # u
        /\ \A b \in Actors : target[b] = u =>
              /\ step[b] \in {"unsubscribe", "unsubscribed"} => subscribers[u] = {}
              /\ step[b] \in {"subscribe", "subscribed"} => b \in Sessions /\ subscribers[u] = {b}
              /\ step[b] = "subscribed" => u \in held /\ up
    BY DEF HeldInv, Flight
  <2>2. CASE u # v
    <3>1. target[a] # u /\ (u \in held' <=> u \in held)
      BY <1>1, <2>2 DEF v
    <3>2. \A b \in Actors : target[b] = u => step'[b] = step[b]
      BY <1>4, <3>1
    <3>3. QED
      BY <1>1, <2>1, <3>1, <3>2 DEF Flight
  <2>3. CASE u = v
    <3>1. \A b \in Actors : target[b] = u => b = a
      BY <2>1, <2>3 DEF v
    <3>2. CASE step[a] = "subscribe"
      <4>1. step'[a] = "subscribed" /\ u \in held'
        BY <1>1, <3>2, <2>3
      <4>2. a \in Sessions /\ subscribers[u] = {a}
        BY <2>1, <2>3, <3>2 DEF v
      <4>3. QED
        BY <1>1, <2>1, <3>1, <4>1, <4>2 DEF Flight
    <3>3. CASE step[a] = "unsubscribe"
      <4>1. step'[a] = "unsubscribed"
        BY <1>1, <3>3
      <4>2. subscribers[u] = {}
        BY <2>1, <2>3, <3>3 DEF v
      <4>3. QED
        BY <1>1, <2>1, <3>1, <4>1, <4>2 DEF Flight
    <3>4. QED
      BY <1>1, <3>2, <3>3
  <2>4. QED
    BY <2>2, <2>3
<1>6. ASSUME NEW u \in Uris PROVE Backed(u)'
  <2>1. InFlight(u)' <=> InFlight(u)
    BY <1>1 DEF InFlight
  <2>2. InFlight(v)
    BY DEF InFlight, v
  <2>3. CASE u = v
    BY <2>1, <2>2, <2>3 DEF Backed
  <2>4. CASE u # v
    <3>1. u \in held' <=> u \in held
      BY <1>1, <2>4
    <3>2. QED
      BY <1>1, <2>1, <3>1 DEF HeldInv, Backed
  <2>5. QED
    BY <2>3, <2>4
<1>7. QED
  BY <1>1, <1>3, <1>5, <1>6 DEF HeldInv

\* The call of a is over.
LEMMA DoneHeld ==
    ASSUME Inv, HeldInv, NEW a \in Actors, Mark(a) \/ SubscribeFails(a) \/ UnsubscribeFails(a)
    PROVE  HeldInv'
<1>. USE SubscriptionsAssumption DEF Inv, TableInv, RestOK
<1>. DEFINE v == target[a]
<1>1. step[a] \in Calls /\ v \in Uris
  BY DEF Mark, SubscribeFails, UnsubscribeFails, Calls
<1>2. /\ UNCHANGED <<orphaned, up, conn, resub, held, lost, raced>>
      /\ target' = [target EXCEPT ![a] = NoUri]
      /\ step' = [step EXCEPT ![a] = IF a = Sweeper THEN "release" ELSE "idle"]
  BY DEF Mark, SubscribeFails, UnsubscribeFails, Done, sweep, root
<1>3. /\ \A u \in Uris : u # v => subscribers'[u] = subscribers[u] /\ (u \in subscribed' <=> u \in subscribed)
      /\ subscribers'[v] \subseteq subscribers[v]
  <2>1. CASE SubscribeFails(a)
    BY <1>1, <2>1 DEF SubscribeFails, dropSubscriberLocked, root
  <2>2. CASE Mark(a) \/ UnsubscribeFails(a)
    BY <1>1, <2>2 DEF Mark, UnsubscribeFails, table, root
  <2>3. QED
    BY <2>1, <2>2
<1>4. \A b \in Actors : b # a => step'[b] = step[b] /\ target'[b] = target[b]
  BY <1>2
<1>5. target'[a] = NoUri /\ NoUri # v /\ target[a] = v
  BY <1>1, <1>2
<1>. HIDE DEF v
<1>6. Targeted'
  BY <1>4, <1>5 DEF HeldInv, Targeted
<1>7. ASSUME NEW u \in Uris PROVE Flight(u)'
  <2>. SUFFICES ASSUME u \notin raced PROVE Flight(u)'
    BY <1>2 DEF Flight
  <2>1. /\ \A b, c \in Actors : target[b] = u /\ target[c] = u => b = c
        /\ u \in orphaned => subscribers[u] = {} /\ \A b \in Actors : target[b] # u
        /\ \A b \in Actors : target[b] = u =>
              /\ step[b] \in {"unsubscribe", "unsubscribed"} => subscribers[u] = {}
              /\ step[b] \in {"subscribe", "subscribed"} => b \in Sessions /\ subscribers[u] = {b}
              /\ step[b] = "subscribed" => u \in held /\ up
    BY DEF HeldInv, Flight
  <2>2. \A b \in Actors : target'[b] = u => b # a /\ target[b] = u /\ step'[b] = step[b]
    BY <1>4, <1>5
  <2>3. CASE u = v
    <3>1. \A b \in Actors : target'[b] # u
      BY <1>5, <2>1, <2>2, <2>3
    <3>2. u \notin orphaned'
      BY <1>2, <1>5, <2>1, <2>3
    <3>3. QED
      BY <3>1, <3>2 DEF Flight
  <2>4. CASE u # v
    BY <1>2, <1>3, <2>1, <2>2, <2>4 DEF Flight
  <2>5. QED
    BY <2>3, <2>4
<1>8. ASSUME NEW u \in Uris PROVE Backed(u)'
  <2>1. CASE u # v
    <3>1. InFlight(u)' <=> InFlight(u)
      BY <1>2, <1>4, <1>5, <2>1 DEF InFlight
    <3>2. QED
      BY <1>2, <1>3, <2>1, <3>1 DEF HeldInv, Backed
  <2>2. CASE u = v
    <3>. SUFFICES ASSUME u \notin raced, subscribers'[u] # {} PROVE Backed(u)'
      BY <1>2 DEF Backed
    <3>1. /\ step[a] \in {"unsubscribe", "unsubscribed"} => subscribers[u] = {}
          /\ step[a] \in {"subscribe", "subscribed"} => a \in Sessions /\ subscribers[u] = {a}
          /\ step[a] = "subscribed" => u \in held /\ up
      BY <1>5, <2>2 DEF HeldInv, Flight
    <3>2. ~(step[a] \in {"unsubscribe", "unsubscribed"})
      BY <1>3, <2>2, <3>1
    <3>3. ~SubscribeFails(a)
      <4>. SUFFICES ASSUME SubscribeFails(a) PROVE FALSE
        OBVIOUS
      <4>1. subscribers'[v] = subscribers[v] \ {a} /\ step[a] \in {"subscribe", "subscribed"}
        BY <1>1, <1>5 DEF SubscribeFails, dropSubscriberLocked
      <4>2. QED
        BY <2>2, <3>1, <4>1
    <3>4. step[a] = "subscribed" /\ u \in subscribed'
      BY <1>5, <2>2, <3>2, <3>3 DEF Mark, UnsubscribeFails
    <3>5. u \in held' /\ up' /\ conn' # "connecting"
      BY <1>2, <3>1, <3>4 DEF HeldInv
    <3>6. QED
      BY <3>4, <3>5 DEF Backed
  <2>3. QED
    BY <2>1, <2>2
<1>9. QED
  BY <1>2, <1>6, <1>7, <1>8 DEF HeldInv

\* The sweep.
LEMMA SweepHeld ==
    ASSUME Inv, HeldInv, ReapStart \/ ReapDrop \/ ReapDone \/ \E v \in Uris : ReapRelease(v)
    PROVE  HeldInv'
<1>. USE SubscriptionsAssumption DEF Inv, TableInv, RestOK
<1>0. Sweeper \in Actors
  BY DEF Actors
<1>1. CASE ReapStart \/ ReapDone
  <2>1. /\ UNCHANGED <<subscribers, target, orphaned, up, subscribed, conn, resub, held, lost, raced>>
        /\ \A a \in Actors : a # Sweeper => step'[a] = step[a]
    BY <1>1 DEF ReapStart, ReapDone, table, sweep, root
  <2>2. target[Sweeper] = NoUri
    BY <1>0, <1>1 DEF ReapStart, ReapDone, HeldInv, Targeted, Calls
  <2>3. Targeted'
    BY <2>1, <2>2 DEF HeldInv, Targeted
  <2>4. ASSUME NEW u \in Uris PROVE Flight(u)' /\ Backed(u)'
    <3>1. Flight(u) /\ Backed(u) /\ target[Sweeper] # u
      BY <2>2 DEF HeldInv
    <3>2. Flight(u)'
      BY <2>1, <3>1 DEF Flight
    <3>3. Backed(u)'
      BY <2>1, <3>1 DEF Backed, InFlight
    <3>4. QED
      BY <3>2, <3>3
  <2>5. QED
    BY <2>1, <2>3, <2>4 DEF HeldInv
<1>2. CASE ReapDrop
  <2>1. /\ UNCHANGED <<target, up, subscribed, conn, resub, held, lost>>
        /\ \A a \in Actors : a # Sweeper => step'[a] = step[a]
        /\ orphaned' = {u \in Uris : Gone(u) # {} /\ subscribers[u] = Gone(u)}
        /\ raced' = raced \cup {u \in orphaned' : InFlight(u)}
        /\ \A u \in Uris : subscribers'[u] = subscribers[u] \ Gone(u)
    BY <1>2 DEF ReapDrop, Overlap, root
  <2>2. target[Sweeper] = NoUri
    BY <1>0, <1>2 DEF ReapDrop, HeldInv, Targeted, Calls
  <2>3. Targeted'
    BY <2>1, <2>2 DEF HeldInv, Targeted
  <2>4. ASSUME NEW u \in Uris PROVE Flight(u)' /\ Backed(u)'
    <3>0. target[Sweeper] # u /\ \A a \in Actors : target[a] = u => step'[a] = step[a]
      BY <2>1, <2>2
    <3>. SUFFICES ASSUME u \notin raced' PROVE Flight(u)' /\ Backed(u)'
      BY DEF Flight, Backed
    <3>1. u \notin raced /\ (u \in orphaned' => ~InFlight(u))
      BY <2>1
    <3>2. CASE u \in orphaned'
      <4>1. subscribers'[u] = {} /\ \A a \in Actors : target'[a] # u
        BY <2>1, <3>1, <3>2 DEF InFlight
      <4>2. QED
        BY <3>2, <4>1 DEF Flight, Backed
    <3>3. CASE u \notin orphaned' /\ Gone(u) = {}
      <4>1. subscribers'[u] = subscribers[u]
        BY <2>1, <3>3
      <4>2. Flight(u)'
        BY <2>1, <3>0, <3>1, <3>3, <4>1 DEF HeldInv, Flight
      <4>3. CASE u \in orphaned
        <5>1. subscribers[u] = {}
          BY <3>1, <4>3 DEF HeldInv, Flight
        <5>2. QED
          BY <4>1, <4>2, <5>1 DEF Backed
      <4>4. CASE u \notin orphaned
        <5>1. InFlight(u)' <=> InFlight(u)
          BY <2>1, <3>3, <4>4 DEF InFlight
        <5>2. QED
          BY <2>1, <3>1, <4>1, <4>2, <5>1 DEF HeldInv, Backed
      <4>5. QED
        BY <4>2, <4>3, <4>4
    <3>4. CASE u \notin orphaned' /\ Gone(u) # {}
      <4>1. subscribers[u] # Gone(u) /\ Gone(u) \subseteq subscribers[u]
        BY <2>1, <3>4 DEF Gone
      <4>0. Flight(u)
        BY DEF HeldInv
      <4>2. subscribers'[u] # {} /\ u \notin orphaned
        <5>1. subscribers'[u] = subscribers[u] \ Gone(u)
          BY <2>1
        <5>2. subscribers[u] # {}
          BY <4>1
        <5>3. u \notin orphaned
          BY <3>1, <4>0, <5>2 DEF Flight
        <5>4. QED
          BY <4>1, <5>1, <5>3
      <4>3. \A a \in Actors : target[a] # u
        <5>. SUFFICES ASSUME NEW a \in Actors, target[a] = u PROVE FALSE
          OBVIOUS
        <5>0. step[a] \in {"subscribe", "subscribed", "unsubscribe", "unsubscribed"}
          BY DEF HeldInv, Targeted, Calls
        <5>1. subscribers[u] = {} \/ subscribers[u] = {a}
          BY <3>1, <4>0, <5>0 DEF Flight
        <5>2. CASE subscribers[u] = {}
          BY <4>1, <3>4, <5>2
        <5>3. CASE subscribers[u] = {a}
          <6>1. \A x \in Gone(u) : x = a
            BY <4>1, <5>3
          <6>2. PICK x \in Gone(u) : TRUE
            BY <3>4
          <6>3. Gone(u) = {a}
            BY <6>1, <6>2
          <6>4. QED
            BY <4>1, <5>3, <6>3
        <5>4. QED
          BY <5>1, <5>2, <5>3
      <4>4. ~InFlight(u) /\ subscribers[u] # {}
        BY <4>1, <4>2, <4>3 DEF InFlight
      <4>5. Flight(u)'
        BY <2>1, <3>4, <4>3 DEF Flight
      <4>6. Backed(u)'
        BY <2>1, <3>1, <4>4 DEF HeldInv, Backed
      <4>7. QED
        BY <4>5, <4>6
    <3>5. QED
      BY <3>2, <3>3, <3>4
  <2>5. QED
    BY <2>1, <2>3, <2>4 DEF HeldInv
<1>3. ASSUME NEW v \in Uris, ReapRelease(v) PROVE HeldInv'
  <2>1. /\ UNCHANGED <<subscribers, up, subscribed, conn, resub, held, lost, raced>>
        /\ v \in orphaned /\ orphaned' = orphaned \ {v} /\ step[Sweeper] = "release"
        /\ \A a \in Actors : a # Sweeper => step'[a] = step[a] /\ target'[a] = target[a]
        /\ \/ step'[Sweeper] = "unsubscribe" /\ target'[Sweeper] = v
           \/ step'[Sweeper] = "release" /\ target'[Sweeper] = target[Sweeper]
    BY <1>0, <1>3 DEF ReapRelease, Call, table, root, actors
  <2>2. target[Sweeper] = NoUri
    BY <1>0, <2>1 DEF HeldInv, Targeted, Calls
  <2>3. Targeted'
    BY <2>1, <2>2 DEF HeldInv, Targeted, Calls
  <2>4. ASSUME NEW u \in Uris, u # v PROVE Flight(u)' /\ Backed(u)'
    <3>1. target'[Sweeper] # u /\ target[Sweeper] # u /\ (u \in orphaned' <=> u \in orphaned)
      BY <2>1, <2>2, <2>4
    <3>2. Flight(u) /\ Backed(u)
      BY DEF HeldInv
    <3>3. Flight(u)'
      BY <2>1, <3>1, <3>2 DEF Flight
    <3>4. InFlight(u)' <=> InFlight(u)
      BY <2>1, <3>1 DEF InFlight
    <3>5. QED
      BY <2>1, <3>2, <3>3, <3>4 DEF Backed
  <2>5. Flight(v)' /\ Backed(v)'
    <3>. SUFFICES ASSUME v \notin raced PROVE Flight(v)' /\ Backed(v)'
      BY <2>1 DEF Flight, Backed
    <3>1. subscribers[v] = {} /\ \A a \in Actors : target[a] # v
      BY <2>1 DEF HeldInv, Flight
    <3>2. \A a \in Actors : target'[a] = v => a = Sweeper /\ step'[Sweeper] = "unsubscribe"
      BY <2>1, <3>1
    <3>3. QED
      BY <2>1, <3>1, <3>2 DEF Flight, Backed
  <2>6. QED
    BY <2>1, <2>3, <2>4, <2>5 DEF HeldInv
<1>4. QED
  BY <1>1, <1>2, <1>3

\* The session to the upstream.
LEMMA RootHeld ==
    ASSUME Inv, HeldInv,
           Lose \/ Reconnect \/ InstallRoot \/ Reconnected \/ \E v \in Uris : Replay(v) \/ ReplayFails(v)
    PROVE  HeldInv'
<1>. USE SubscriptionsAssumption DEF Inv, TableInv, RestOK
<1>1. /\ UNCHANGED <<subscribers, step, target, orphaned, subscribed>>
      /\ raced \subseteq raced'
  BY DEF Lose, Reconnect, InstallRoot, Reconnected, Replay, ReplayFails, Overlap, table, actors, sweep
<1>2. Targeted' /\ \A u \in Uris : InFlight(u)' <=> InFlight(u)
  BY <1>1 DEF HeldInv, Targeted, InFlight
<1>3. (conn = "connecting" => ~up)'
  BY DEF HeldInv, Lose, Reconnect, InstallRoot, Reconnected, Replay, ReplayFails
<1>4. ASSUME NEW u \in Uris PROVE Flight(u)'
  <2>. SUFFICES ASSUME u \notin raced' PROVE Flight(u)'
    BY DEF Flight
  <2>1. Flight(u) /\ u \notin raced
    BY <1>1 DEF HeldInv
  <2>2. ASSUME NEW a \in Actors, target[a] = u, step[a] = "subscribed" PROVE u \in held' /\ up'
    <3>1. u \in held /\ up
      BY <2>1, <2>2 DEF Flight
    <3>2. u \in Unmarked
      BY <2>2 DEF Unmarked
    <3>3. ~Lose /\ ~Reconnect
      BY <3>2 DEF Lose, Reconnect, Overlap
    <3>4. QED
      BY <3>1, <3>3 DEF InstallRoot, Reconnected, Replay, ReplayFails
  <2>3. QED
    BY <1>1, <2>1, <2>2 DEF Flight
<1>5. ASSUME NEW u \in Uris PROVE Backed(u)'
  <2>. SUFFICES ASSUME u \notin raced', ~InFlight(u), subscribers[u] # {} PROVE Backed(u)'
    BY <1>1, <1>2 DEF Backed
  <2>1. /\ u \in subscribed
        /\ conn = "connecting" => u \in resub
        /\ up /\ u \notin lost => u \in held \/ (conn = "replaying" /\ u \in resub)
    BY <1>1 DEF HeldInv, Backed
  <2>2. CASE Lose
    BY <1>1, <2>1, <2>2 DEF Lose, Backed
  <2>3. CASE Reconnect
    BY <1>1, <2>1, <2>3 DEF Reconnect, Backed
  <2>4. CASE InstallRoot
    BY <1>1, <2>1, <2>4 DEF InstallRoot, Backed
  <2>5. CASE Reconnected
    BY <1>1, <2>1, <2>5 DEF Reconnected, Backed
  <2>6. ASSUME NEW v \in Uris, Replay(v) \/ ReplayFails(v) PROVE Backed(u)'
    BY <1>1, <2>1, <2>6 DEF Replay, ReplayFails, Backed
  <2>7. QED
    BY <2>2, <2>3, <2>4, <2>5, <2>6
<1>6. QED
  BY <1>2, <1>3, <1>4, <1>5 DEF HeldInv

\* A step of something else keeps HeldInv.
LEMMA HeldStutter ==
    ASSUME HeldInv, UNCHANGED <<table, actors, sweep, root, raced>>
    PROVE  HeldInv'
  BY DEF HeldInv, Targeted, Flight, Backed, InFlight, table, actors, sweep, root

\* Every step of a session, a sweep or a loss keeps HeldInv.
LEMMA HeldStep == Inv /\ HeldInv /\ [SubsNext]_subsVars => HeldInv'
<1>. SUFFICES ASSUME Inv, HeldInv, [SubsNext]_subsVars PROVE HeldInv'
  OBVIOUS
<1>1. ASSUME NEW s \in Sessions, Connect(s) \/ Disconnect(s) PROVE HeldInv'
  BY <1>1, HeldStutter DEF Connect, Disconnect
<1>2. CASE UNCHANGED subsVars
  BY <1>2, HeldStutter DEF subsVars
<1>3. \A s \in Sessions : s \in Actors
  BY DEF Actors
<1>4. Sweeper \in Actors
  BY DEF Actors
<1>5. ASSUME SweepStep PROVE HeldInv'
  BY <1>4, <1>5, SweepHeld, LandHeld, DoneHeld DEF SweepStep
<1>6. QED
  BY <1>1, <1>2, <1>3, <1>5, RequestHeld, LandHeld, DoneHeld, RootHeld DEF SubsNext

\* handleSubscribe's "upstream subscription already held", for any number of
\* sessions and URIs and over failures, lost sessions, reconnects and sweeps:
\* while no operations on a URI have overlapped and none is in flight, whoever
\* subscribes to it is backed by a subscription at the upstream.
THEOREM WantedIsHeldCorrect == SubsSpec => []WantedIsHeld
<1>1. HeldInv => WantedIsHeld
  BY DEF HeldInv, Backed, WantedIsHeld, Settled
<1>2. QED
  BY <1>1, InitInv, StepInv, HeldInit, HeldStep, PTL DEF SubsSpec
=============================================================================
