------------------------------ MODULE Exchange ------------------------------
(***************************************************************************)
(* Two exchanges of tokens.                                                *)
(*                                                                         *)
(* UpstreamCredentials (auth/upstream.go) obtains a token for an upstream, *)
(* caches it per key and fetches it once for all concurrent callers; the   *)
(* gate that serializes them is dropped by the last one to leave.  Keys    *)
(* are independent, except that the entries of other keys may push this    *)
(* one out of the cache (pruneLocked).                                     *)
(*                                                                         *)
(* EMA.ServeToken (auth/ema.go) exchanges an assertion of the identity     *)
(* provider for a token of fold's own, once: the assertion's id is put on  *)
(* record (state.Once: Redis, or the instance's own map while Redis fails) *)
(* until the assertion expires.  Validation of the assertion is a free     *)
(* choice, except for its expiry, which is checked with a leeway.          *)
(***************************************************************************)
EXTENDS Integers, FiniteSets

CONSTANTS Fetchers,         \* callers that need the upstream's token
          TokenLife,        \* ticks a token is cached for
          Redeemers,        \* presentations of one assertion
          Endpoint,         \* Endpoint[r]: the instance each is made to
          Lifetime, Leeway  \* of the assertion

Unlocked == "unlocked"

ASSUME ExchangeAssumption ==
    /\ TokenLife \in Nat \ {0} /\ Lifetime \in Nat \ {0} /\ Leeway \in Nat
    /\ IsFiniteSet(Fetchers) /\ Unlocked \notin Fetchers
    /\ DOMAIN Endpoint = Redeemers

VARIABLES
    token,    \* ticks the cached token is still used for, 0 when there is none
    current,  \* fetchMu[key]: the gate in the map, 0 when there is none
    gates,    \* the gates callers still hold: waiters, and who has the lock
    caller,   \* where each caller of cachedFetch is, and its gate
    life,     \* ticks to the assertion's exp, down to -Leeway
    once,     \* ttl of its record: in Redis, and in each instance's MemOnce
    redeem,   \* where each presentation is
    minted,   \* history: tokens minted for it
    degraded  \* history: instances that decided without Redis

cvars == <<token, current, gates, caller>>
xvars == <<life, once, redeem, minted, degraded>>

GateIds == 1..(Cardinality(Fetchers) + 1)
Endpoints == {Endpoint[r] : r \in Redeemers}

ExchangeInit ==
    /\ token = 0 /\ current = 0
    /\ gates = [g \in GateIds |-> [waiters |-> 0, lock |-> Unlocked]]
    /\ caller = [c \in Fetchers |-> [at |-> "idle", gate |-> 0]]
    /\ life = Lifetime
    /\ once = [redis |-> 0, mem |-> [i \in Endpoints |-> 0]]
    /\ redeem = [r \in Redeemers |-> "new"]
    /\ minted = 0 /\ degraded = {}
-----------------------------------------------------------------------------
Goes(c, at) == caller' = [caller EXCEPT ![c].at = at]

\* cachedFetch: the cached token, or ...
Cached(c) ==
    /\ caller[c].at = "idle" /\ token = 0
    /\ Goes(c, "join") /\ UNCHANGED <<token, current, gates, xvars>>

\* ... the key's gate, made if need be.
Join(c) ==
    /\ caller[c].at = "join"
    /\ \E g \in GateIds :
           /\ IF current # 0 THEN g = current
              ELSE gates[g].waiters = 0 /\ gates[g].lock = Unlocked
           /\ current' = g
           /\ gates' = [gates EXCEPT ![g].waiters = @ + 1]
           /\ caller' = [caller EXCEPT ![c] = [at |-> "wait", gate |-> g]]
    /\ UNCHANGED <<token, xvars>>

\* Mutant of Enter: the lock is not waited for.
EnterAnyway(c) ==
    LET g == caller[c].gate IN
    /\ caller[c].at = "wait"
    /\ gates' = [gates EXCEPT ![g].lock = c]
    /\ Goes(c, IF token > 0 THEN "leave" ELSE "fetch")
    /\ UNCHANGED <<token, current, xvars>>

\* The lock, and the second look at the cache.
Enter(c) ==
    LET g == caller[c].gate IN
    /\ caller[c].at = "wait" /\ gates[g].lock = Unlocked
    /\ gates' = [gates EXCEPT ![g].lock = c]
    /\ Goes(c, IF token > 0 THEN "leave" ELSE "fetch")
    /\ UNCHANGED <<token, current, xvars>>

\* tokenRequest fails, or its token is cached (for nothing, if its own
\* lifetime is within the minute kept as a margin).
FetchToken(c) ==
    /\ caller[c].at = "fetch" /\ Goes(c, "leave")
    /\ token' \in {token, TokenLife}
    /\ UNCHANGED <<current, gates, xvars>>

\* The deferred function: the last one out drops the gate, then unlocks it.
LeaveGate(c) ==
    LET g == caller[c].gate IN
    /\ caller[c].at = "leave" /\ Goes(c, "unlock")
    /\ gates' = [gates EXCEPT ![g].waiters = @ - 1]
    /\ current' = IF gates[g].waiters = 1 THEN 0 ELSE current
    /\ UNCHANGED <<token, xvars>>

Unlock(c) ==
    /\ caller[c].at = "unlock" /\ caller' = [caller EXCEPT ![c] = [at |-> "idle", gate |-> 0]]
    /\ gates' = [gates EXCEPT ![caller[c].gate].lock = Unlocked]
    /\ UNCHANGED <<token, current, xvars>>

\* Time passes; pruneLocked, for another key, drops the token.
TokenAges ==
    /\ token > 0 /\ token' \in {token - 1, 0}
    /\ UNCHANGED <<current, gates, caller, xvars>>

CredentialsNext ==
    \/ \E c \in Fetchers : Cached(c) \/ Join(c) \/ Enter(c) \/ FetchToken(c) \/ LeaveGate(c) \/ Unlock(c)
    \/ TokenAges
-----------------------------------------------------------------------------
\* ServeToken up to the record: a bad request or assertion is refused.
Validate(r) ==
    /\ redeem[r] = "new"
    /\ \/ redeem' = [redeem EXCEPT ![r] = "refused"]
       \/ life > -Leeway /\ redeem' = [redeem EXCEPT ![r] = "valid"]
    /\ UNCHANGED <<cvars, life, once, minted, degraded>>

\* Mutant of RecordTtl: the record is kept for the shortest time.
RecordTtlShort == 1

\* The record is kept until the assertion expires, and at least a second.
RecordTtl == IF life > 1 THEN life ELSE 1

\* TryOnce: the first use is recorded and answered with a token.
Mints(r, first) ==
    /\ redeem' = [redeem EXCEPT ![r] = IF first THEN "minted" ELSE "replayed"]
    /\ minted' = IF first THEN minted + 1 ELSE minted

TryOnce(r) ==
    /\ redeem[r] = "valid"
    /\ \/ /\ Mints(r, once.redis = 0) /\ UNCHANGED degraded
          /\ once' = IF once.redis = 0 THEN [once EXCEPT !.redis = RecordTtl] ELSE once
       \/ LET i == Endpoint[r] IN
          /\ Mints(r, once.mem[i] = 0) /\ degraded' = degraded \cup {i}
          /\ once' = IF once.mem[i] = 0 THEN [once EXCEPT !.mem[i] = RecordTtl] ELSE once
    /\ UNCHANGED <<cvars, life>>

Ages(n) == IF n = 0 THEN 0 ELSE n - 1

ExchangeTick ==
    /\ life > -Leeway /\ life' = life - 1
    /\ once' = [redis |-> Ages(once.redis), mem |-> [i \in DOMAIN once.mem |-> Ages(once.mem[i])]]
    /\ UNCHANGED <<cvars, redeem, minted, degraded>>

RedeemNext == (\E r \in Redeemers : Validate(r) \/ TryOnce(r)) \/ ExchangeTick

ExchangeSpec == ExchangeInit /\ [][CredentialsNext \/ RedeemNext]_<<cvars, xvars>>
-----------------------------------------------------------------------------
ExchangeTypeOK ==
    /\ token \in 0..TokenLife /\ current \in {0} \cup GateIds
    /\ gates \in [GateIds -> [waiters : Nat, lock : Fetchers \cup {Unlocked}]]
    /\ caller \in [Fetchers -> [at : {"idle", "join", "wait", "fetch", "leave", "unlock"},
                                gate : {0} \cup GateIds]]
    /\ life \in (-Leeway)..Lifetime /\ once \in [redis : Nat, mem : [Endpoints -> Nat]]
    /\ minted \in Nat /\ degraded \subseteq Endpoints

\* cachedFetch: "Fetches are single-flighted per key", although gates come and
\* go with their callers; and no gate is left in the map by callers that are
\* gone.
OneFetch ==
    /\ ExchangeTypeOK
    /\ \A c, d \in Fetchers : caller[c].at = "fetch" /\ caller[d].at = "fetch" => c = d
    /\ (\A c \in Fetchers : caller[c].at \in {"idle", "join", "unlock"}) => current = 0

\* ServeToken: "an ID-JAG must not be redeemable more than once within its
\* lifetime".  Until it expires it is redeemed once, and once more at most by
\* each instance that could not ask Redis.
RedeemedOnce == life > 0 => minted <= 1 + Cardinality(degraded)
=============================================================================
