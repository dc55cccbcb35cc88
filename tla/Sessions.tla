------------------------------ MODULE Sessions ------------------------------
(***************************************************************************)
(* The sessions a gateway keeps to its upstreams (gateway/upstream.go) over *)
(* the life of the upstream objects: built and put in the routing snapshot, *)
(* retired by a reload, drained for their request timeout and closed.      *)
(* Requests work on the object they found in the snapshot they began with: *)
(* they look for a session under u.mu, connect outside it, and install     *)
(* what they got unless another request was faster.                        *)
(*                                                                         *)
(* Which objects come and go is left open here; Federation decides it.     *)
(* Time is counted in ticks; a deadline that has passed may be acted on    *)
(* late.  A request takes no time between the session and its call.        *)
(***************************************************************************)
EXTENDS Integers, FiniteSets

CONSTANTS Objs,            \* *upstream; an identity is reused once nobody has it
          Sess,            \* *mcp.ClientSession, likewise
          Reqs,            \* requests in flight
          Shared,          \* sharedRootKey
          ClientKeys,      \* all other keys: bridged sessions, roots of a
                           \* caller or of clients that show UI
          RequestTimeout,
          IdleTimeout,     \* bridgedIdleTimeout
          None             \* nil

ASSUME SessionsAssumption ==
    /\ RequestTimeout \in Nat /\ IdleTimeout \in Nat
    /\ Shared \notin ClientKeys
    /\ None \notin Objs \cup Sess

Keys == ClientKeys \cup {Shared}

VARIABLES
    phase,     \* of each upstream object
    drain,     \* what is left on the drain timer of a retired one
    slots,     \* roots and bridged: the session under each key
    age,       \* time since lastUsed where there is a session, saturating
    open,      \* sessions that have not been closed
    pc,        \* where each request is
    at, key,   \* the object and key it works on
    ses,       \* the session it has
    left,      \* what is left of its request timeout
    gw,        \* "stopped" once Gateway.Close has begun and closed stopSweeper
    toClose,   \* the objects Gateway.Close still has to close
    early,     \* history: requests whose call was out when its object retired
    late       \* history: sessions installed where nothing closes them

objects == <<phase, drain>>
store == <<slots, age, open, late>>
request == <<pc, at, key, ses, left, early>>
gateway == <<gw, toClose>>
svars == <<objects, store, request, gateway>>

stopped == gw = "stopped"

ObjectTypes ==
    /\ phase \in [Objs -> {"serving", "draining", "closed"}]
    /\ drain \in [Objs -> 0..RequestTimeout]
    /\ slots \in [Objs -> [Keys -> Sess \cup {None}]]
    /\ age \in [Objs -> [ClientKeys -> 0..IdleTimeout + 1]]
    /\ open \in SUBSET Sess
    /\ late \in SUBSET Sess
    /\ gw \in {"up", "stopped"}
    /\ toClose \in SUBSET Objs

RequestTypes ==
    /\ pc \in [Reqs -> {"idle", "routed", "connecting", "connected", "calling"}]
    /\ at \in [Reqs -> Objs \cup {None}]
    /\ key \in [Reqs -> Keys]
    /\ ses \in [Reqs -> Sess \cup {None}]
    /\ left \in [Reqs -> 0..RequestTimeout]
    /\ early \in SUBSET Reqs

SessionsTypeOK == ObjectTypes /\ RequestTypes

\* The gateway starts with the objects first in its snapshot.
SessionsInit(first) ==
    /\ phase = [o \in Objs |-> IF o \in first THEN "serving" ELSE "closed"]
    /\ drain = [o \in Objs |-> 0]
    /\ slots = [o \in Objs |-> [k \in Keys |-> None]]
    /\ age = [o \in Objs |-> [k \in ClientKeys |-> 0]]
    /\ open = {}
    /\ pc = [r \in Reqs |-> "idle"]
    /\ at = [r \in Reqs |-> None]
    /\ key = [r \in Reqs |-> Shared]
    /\ ses = [r \in Reqs |-> None]
    /\ left = [r \in Reqs |-> 0]
    /\ gw = "up"
    /\ toClose = {}
    /\ early = {}
    /\ late = {}

\* Identities nobody refers to.
FreshObjs == {o \in Objs : phase[o] = "closed" /\ o \notin toClose /\ \A r \in Reqs : at[r] # o}
FreshSess == {s \in Sess : /\ s \notin open
                           /\ \A r \in Reqs : ses[r] # s
                           /\ \A o \in Objs, k \in Keys : slots[o][k] # s}

\* Close on each of the sessions in ss.
Shut(ss) ==
    /\ open' = open \ ss
    /\ late' = late \ ss

\* No Close of o is to come, as long as no reload retires it.
Abandoned(o) ==
    /\ o \notin toClose
    /\ phase[o] = "closed" \/ (stopped /\ phase[o] = "serving")
-----------------------------------------------------------------------------
\* A request reads the snapshot (g.rt()) and goes to the upstream o in it.
Begin(r, o, k) ==
    /\ pc[r] = "idle"
    /\ phase[o] = "serving" \/ stopped
    /\ pc' = [pc EXCEPT ![r] = "routed"]
    /\ at' = [at EXCEPT ![r] = o]
    /\ key' = [key EXCEPT ![r] = k]
    /\ UNCHANGED <<objects, store, ses, left, early, gateway>>

\* Mutant of Use: the session counts as used when it is entered only.
UseUnmarked(r, s) ==
    /\ pc' = [pc EXCEPT ![r] = "calling"]
    /\ ses' = [ses EXCEPT ![r] = s]
    /\ left' = [left EXCEPT ![r] = RequestTimeout]
    /\ age' = age
    /\ UNCHANGED <<objects, at, key, early, gateway>>

\* The call goes out on s under a fresh request timeout; finding or
\* installing the session has set lastUsed.
Use(r, s) ==
    /\ pc' = [pc EXCEPT ![r] = "calling"]
    /\ ses' = [ses EXCEPT ![r] = s]
    /\ left' = [left EXCEPT ![r] = RequestTimeout]
    /\ age' = [o \in Objs |-> [k \in ClientKeys |->
                  IF o = at[r] /\ k = key[r] THEN 0 ELSE age[o][k]]]
    /\ UNCHANGED <<objects, at, key, early, gateway>>

\* rootSession and bridgedSession up to the first unlock.
Acquire(r) ==
    LET s == slots[at[r]][key[r]] IN
    /\ pc[r] = "routed"
    /\ \/ s # None /\ Use(r, s) /\ UNCHANGED <<slots, open, late>>
       \/ /\ s = None
          /\ pc' = [pc EXCEPT ![r] = "connecting"]
          /\ UNCHANGED <<objects, store, at, key, ses, left, early, gateway>>

Connected(r) ==
    /\ pc[r] = "connecting"
    /\ FreshSess # {}
    /\ LET s == CHOOSE s \in FreshSess : TRUE IN
       /\ open' = open \cup {s}
       /\ ses' = [ses EXCEPT ![r] = s]
    /\ pc' = [pc EXCEPT ![r] = "connected"]
    /\ UNCHANGED <<objects, slots, age, late, at, key, left, early, gateway>>

\* The request is answered.
Return(r) ==
    /\ pc' = [pc EXCEPT ![r] = "idle"]
    /\ at' = [at EXCEPT ![r] = None]
    /\ key' = [key EXCEPT ![r] = Shared]
    /\ ses' = [ses EXCEPT ![r] = None]
    /\ left' = [left EXCEPT ![r] = 0]
    /\ early' = early \ {r}
    /\ UNCHANGED <<objects, gateway>>

ConnectFails(r) ==
    /\ pc[r] = "connecting"
    /\ Return(r)
    /\ UNCHANGED store

\* The session of r is entered under its key.
Put(r) ==
    slots' = [o \in Objs |-> [k \in Keys |->
                 IF o = at[r] /\ k = key[r] THEN ses[r] ELSE slots[o][k]]]

\* Mutant of Install: the session is installed whoever was faster.
InstallAnyway(r) ==
    LET s == ses[r] IN
    /\ pc[r] = "connected"
    /\ Put(r)
    /\ late' = IF Abandoned(at[r]) THEN late \cup {s} ELSE late
    /\ open' = open
    /\ Use(r, s)

\* The second section under u.mu: the session is installed, or closed
\* again because another request has installed one.
Install(r) ==
    LET s == ses[r]
        winner == slots[at[r]][key[r]]
    IN
    /\ pc[r] = "connected"
    /\ \/ winner # None /\ Shut({s}) /\ Use(r, winner) /\ UNCHANGED slots
       \/ /\ winner = None
          /\ Put(r)
          /\ late' = IF Abandoned(at[r]) THEN late \cup {s} ELSE late
          /\ open' = open
          /\ Use(r, s)

\* The call ends: a result, an error response, or the request timeout.
Finish(r) ==
    /\ pc[r] = "calling"
    /\ Return(r)
    /\ UNCHANGED store

\* dropSession of the upstream u: s goes from wherever it is installed there,
\* and nothing else does.
dropSession(u, s) ==
    /\ slots' = [o \in Objs |-> [k \in Keys |->
                    IF o = u /\ slots[o][k] = s THEN None ELSE slots[o][k]]]
    /\ Shut({s})

\* The call ends with a connection error.
Break(r) ==
    /\ pc[r] = "calling"
    /\ dropSession(at[r], ses[r])
    /\ Return(r)
    /\ UNCHANGED age
-----------------------------------------------------------------------------
In(o) == {slots[o][k] : k \in Keys} \ {None}

\* upstream.Close.
Close(o) ==
    /\ Shut(In(o))
    /\ slots' = [slots EXCEPT ![o] = [k \in Keys |-> None]]
    /\ phase' = [phase EXCEPT ![o] = "closed"]
    /\ drain' = [drain EXCEPT ![o] = 0]
    /\ age' = [age EXCEPT ![o] = [k \in ClientKeys |-> 0]]
    /\ UNCHANGED <<request, gw>>

\* The sessions the sweep closes; the shared root is exempt.
Stale(o) == {k \in ClientKeys : slots[o][k] # None /\ age[o][k] > IdleTimeout}

\* sweepBridged of an upstream in the snapshot the sweep has read, which may
\* have been retired since; the ticker may win against stopSweeper.
Sweep(o) ==
    /\ phase[o] # "closed"
    /\ Stale(o) # {}
    /\ slots' = [p \in Objs |-> [k \in Keys |->
                    IF p = o /\ k \in Stale(o) THEN None ELSE slots[p][k]]]
    /\ Shut({slots[o][k] : k \in Stale(o)})
    /\ UNCHANGED <<objects, age, request, gateway>>

\* Mutant of DrainTime: the retired upstream is closed at once.
NoDrainTime == 0

\* How long a retired upstream stays open.
DrainTime == RequestTimeout

\* A new snapshot: new objects start to serve, retired ones to drain.
Swap(new, retired) ==
    /\ new \subseteq FreshObjs /\ retired \cap new = {}
    /\ \A o \in retired : phase[o] = "serving" \/ stopped
    /\ phase' = [o \in Objs |-> IF o \in new THEN "serving"
                                ELSE IF o \in retired THEN "draining" ELSE phase[o]]
    /\ drain' = [o \in Objs |-> IF o \in retired THEN DrainTime ELSE drain[o]]
    /\ slots' = [o \in Objs |-> IF o \in new THEN [k \in Keys |-> None] ELSE slots[o]]
    /\ early' = early \cup {r \in Reqs : pc[r] = "calling" /\ at[r] \in retired}
    /\ UNCHANGED <<age, open, late, pc, at, key, ses, left, gateway>>

\* The goroutine that waits for the drain timer or for stopSweeper.
Drain(o) ==
    /\ phase[o] = "draining"
    /\ drain[o] = 0 \/ stopped
    /\ Close(o)
    /\ UNCHANGED toClose

\* Gateway.Close with the snapshot os...  Drains do not look at their timers
\* after it; timers are cleared and time stops.
Stop(os) ==
    /\ ~stopped
    /\ gw' = "stopped"
    /\ toClose' = os
    /\ drain' = [o \in Objs |-> 0]
    /\ left' = [r \in Reqs |-> 0]
    /\ UNCHANGED <<phase, slots, age, open, late, pc, at, key, ses, early>>

\* ...whose upstreams it closes one by one.
StopOne(o) ==
    /\ o \in toClose
    /\ toClose' = toClose \ {o}
    /\ Close(o)

\* A running timer.
Dec(n) == IF n = 0 THEN 0 ELSE n - 1

Tick ==
    /\ ~stopped
    /\ drain' = [o \in Objs |-> Dec(drain[o])]
    /\ left' = [r \in Reqs |-> Dec(left[r])]
    /\ age' = [o \in Objs |-> [k \in ClientKeys |->
                  IF slots[o][k] = None THEN 0
                  ELSE IF age[o][k] > IdleTimeout THEN age[o][k] ELSE age[o][k] + 1]]
    /\ UNCHANGED <<phase, slots, open, late, pc, at, key, ses, early, gateway>>
-----------------------------------------------------------------------------
RequestStep(r) ==
    \/ Acquire(r) \/ Connected(r) \/ ConnectFails(r) \/ Install(r)
    \/ Finish(r) \/ Break(r)

UpkeepStep ==
    \/ \E o \in Objs : Sweep(o) \/ Drain(o) \/ StopOne(o)
    \/ Tick

\* Any reload, any snapshot to stop with.
SessionsNext ==
    \/ \E r \in Reqs, o \in Objs, k \in Keys : Begin(r, o, k)
    \/ \E r \in Reqs : RequestStep(r)
    \/ \E new, retired \in SUBSET Objs : Swap(new, retired)
    \/ Stop({o \in Objs : phase[o] = "serving"})
    \/ UpkeepStep

SessionsSpec == (\E first \in SUBSET Objs : SessionsInit(first)) /\ [][SessionsNext]_svars
-----------------------------------------------------------------------------
\* A request is never handed a session that was closed, and every session
\* that was opened is closed in time: it is installed where a sweep, a drop,
\* a drain or Close finds it, or is in the hands of the request that
\* connected it.  The exception the code leaves is a session installed in an
\* upstream after its Close, or made by a reload after Gateway.Close.
Accounted ==
    /\ \A o \in Objs, k \in Keys : slots[o][k] \in open \cup {None}
    /\ \A s \in open :
          \/ s \in late
          \/ \E r \in Reqs : pc[r] = "connected" /\ ses[r] = s
          \/ \E o \in Objs : s \in In(o) /\ ~Abandoned(o)

\* How long the call of r, which still has time, has been out.
Elapsed(r) == RequestTimeout - left[r]

\* applyLocked: "closing after its request timeout lets in-flight calls
\* finish".  A session is closed under a call that still has time only
\* because a call on it met a connection error, or because the gateway
\* stops, or if the call had not gone out when its upstream was retired, or
\* by the idle sweep.  The sweep does it to a client's session only, and only
\* if no call has gone out on it for longer than the idle timeout: lastUsed is
\* set when a session is acquired, and nothing keeps timeouts.requestMs below
\* bridgedIdleTimeout.
SparesCalls ==
    [][\A r \in Reqs :
          /\ pc[r] = "calling" /\ left[r] > 0
          /\ ses[r] \in open \ open'
          => \/ \E q \in Reqs : ses[q] = ses[r] /\ pc'[q] = "idle"
             \/ stopped
             \/ phase[at[r]] # "serving" /\ r \notin early
             \/ /\ key[r] \in ClientKeys
                /\ \A q \in Reqs : pc[q] = "calling" /\ left[q] > 0 /\ ses[q] = ses[r]
                                  => Elapsed(q) > IdleTimeout]_svars
=============================================================================
