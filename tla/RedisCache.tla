------------------------------ MODULE RedisCache ------------------------------
(***************************************************************************)
(* The list cache shared through Redis (redisCache in                      *)
(* internal/state/redis.go), for one key family and one key.  A data key   *)
(* carries the family's generation, which is read before the fill;         *)
(* Invalidate increments it, so what an older fill stores afterwards lands *)
(* under a generation nobody reads any more.  Callers stand for requests   *)
(* on any gateway instance.  Each Redis round trip is one step and may     *)
(* fail.  An INCR that does not reach Redis changes nothing, and nobody    *)
(* looks at its error: announced counts the ones that do.                  *)
(***************************************************************************)
EXTENDS Naturals

CONSTANTS Callers,
          MaxVersion,  \* bound on the upstream's changes
          MaxGen,      \* bound on the number of invalidations
          NoData       \* no value under a data key

Versions == 0..MaxVersion
Gens == 0..MaxGen

ASSUME RedisCacheAssumption ==
    /\ MaxVersion \in Nat
    /\ MaxGen \in Nat
    /\ NoData \notin Nat

VARIABLES
    gen,       \* the family's generation counter
    data,      \* the data keys, by generation
    pc,        \* callers in GetOrFill
    mygen,     \* the generation a caller has read
    fetched,   \* what its fill has read
    outcome,   \* whether the last call has returned a list
    ret,       \* its version
    floor,     \* history: announced when the call began
    version,   \* the upstream's current list
    announced, \* history: latest version an INCR has followed
    base       \* history: announced when each generation began

calls == <<pc, mygen, fetched, ret, outcome, floor>>
vars == <<gen, data, calls, version, announced, base>>
world == <<gen, version, announced, base>>

TypeOK ==
    /\ gen \in Gens
    /\ data \in [Gens -> Versions \cup {NoData}]
    /\ pc \in [Callers -> {"idle", "get", "fill", "set", "direct"}]
    /\ mygen \in [Callers -> Gens]
    /\ fetched \in [Callers -> Versions]
    /\ ret \in [Callers -> Versions]
    /\ outcome \in [Callers -> {"none", "list"}]
    /\ floor \in [Callers -> Versions]
    /\ version \in Versions
    /\ announced \in Versions
    /\ base \in [Gens -> Versions]

Init ==
    /\ gen = 0
    /\ data = [g \in Gens |-> NoData]
    /\ pc = [c \in Callers |-> "idle"]
    /\ mygen = [c \in Callers |-> 0]
    /\ fetched = [c \in Callers |-> 0]
    /\ ret = [c \in Callers |-> 0]
    /\ outcome = [c \in Callers |-> "none"]
    /\ floor = [c \in Callers |-> 0]
    /\ version = 0
    /\ announced = 0
    /\ base = [g \in Gens |-> 0]
-----------------------------------------------------------------------------
Begin(c, next) ==
    /\ pc[c] = "idle"
    /\ pc' = [pc EXCEPT ![c] = next]
    /\ floor' = [floor EXCEPT ![c] = announced]
    /\ outcome' = [outcome EXCEPT ![c] = "none"]
    /\ UNCHANGED ret

Return(c, v) ==
    /\ pc' = [pc EXCEPT ![c] = "idle"]
    /\ ret' = [ret EXCEPT ![c] = v]
    /\ outcome' = [outcome EXCEPT ![c] = "list"]
    /\ UNCHANGED floor

\* GET of the generation key.
ReadGen(c) ==
    /\ Begin(c, "get")
    /\ mygen' = [mygen EXCEPT ![c] = gen]
    /\ UNCHANGED <<data, fetched, world>>

\* It failed: fill without the cache.
ReadGenFails(c) ==
    /\ Begin(c, "direct")
    /\ UNCHANGED <<data, mygen, fetched, world>>

\* GET of the data key.
GetHit(c) ==
    /\ pc[c] = "get"
    /\ data[mygen[c]] # NoData
    /\ Return(c, data[mygen[c]])
    /\ UNCHANGED <<data, mygen, fetched, world>>

\* Nothing there, or the GET failed.
GetMiss(c) ==
    /\ pc[c] = "get"
    /\ pc' = [pc EXCEPT ![c] = "fill"]
    /\ UNCHANGED <<data, mygen, fetched, ret, outcome, floor, world>>

\* The upstream answers the fill.
Fetch(c) ==
    /\ pc[c] = "fill"
    /\ fetched' = [fetched EXCEPT ![c] = version]
    /\ pc' = [pc EXCEPT ![c] = "set"]
    /\ UNCHANGED <<data, mygen, ret, outcome, floor, world>>

FetchFails(c) ==
    /\ pc[c] \in {"fill", "direct"}
    /\ pc' = [pc EXCEPT ![c] = "idle"]
    /\ UNCHANGED <<data, mygen, fetched, ret, outcome, floor, world>>

\* Mutant of SetData: the value is stored under the generation of the moment.
SetDataCurrent(c) ==
    /\ pc[c] = "set"
    /\ data' = [data EXCEPT ![gen] = fetched[c]]
    /\ Return(c, fetched[c])
    /\ UNCHANGED <<mygen, fetched, world>>

\* SET under the generation read before the fill.
SetData(c) ==
    /\ pc[c] = "set"
    /\ data' = [data EXCEPT ![mygen[c]] = fetched[c]]
    /\ Return(c, fetched[c])
    /\ UNCHANGED <<mygen, fetched, world>>

SetFails(c) ==
    /\ pc[c] = "set"
    /\ Return(c, fetched[c])
    /\ UNCHANGED <<data, mygen, fetched, world>>

DirectFill(c) ==
    /\ pc[c] = "direct"
    /\ Return(c, version)
    /\ UNCHANGED <<data, mygen, fetched, world>>
-----------------------------------------------------------------------------
Change ==
    /\ version < MaxVersion
    /\ version' = version + 1
    /\ UNCHANGED <<gen, data, calls, announced, base>>

\* Mutant of Invalidate: the counter of another key family is incremented.
InvalidateOtherFamily ==
    /\ gen < MaxGen
    /\ announced' = version
    /\ UNCHANGED <<gen, data, calls, version, base>>

\* list_changed arrives at some instance: INCR of the generation key.  Each
\* instance increments for the same change.
Invalidate ==
    /\ gen < MaxGen
    /\ gen' = gen + 1
    /\ announced' = version
    /\ base' = [base EXCEPT ![gen + 1] = version]
    /\ UNCHANGED <<data, calls, version>>

\* A data key's ttl passes.
Expire(g) ==
    /\ data[g] # NoData
    /\ data' = [data EXCEPT ![g] = NoData]
    /\ UNCHANGED <<calls, world>>

Next ==
    \/ \E c \in Callers :
          \/ ReadGen(c) \/ ReadGenFails(c) \/ GetHit(c) \/ GetMiss(c)
          \/ Fetch(c) \/ FetchFails(c) \/ SetData(c) \/ SetFails(c)
          \/ DirectFill(c)
    \/ Change \/ Invalidate
    \/ \E g \in Gens : Expire(g)

Spec == Init /\ [][Next]_vars
-----------------------------------------------------------------------------
\* The promise of redisCache's generations: a value under a generation was
\* fetched after that generation began, however late it is stored.
NoOldFillUnderNewGen ==
    \A g \in Gens : data[g] # NoData => data[g] >= base[g]

\* A call that begins after list_changed was handled returns a list at least
\* as new as the announced one (docs/configuration.md: clients "see the
\* change immediately").
SeesAnnounced == \A c \in Callers : outcome[c] = "list" => ret[c] >= floor[c]
=============================================================================
