-------------------------------- MODULE Jwks --------------------------------
(***************************************************************************)
(* Verification of bearer tokens against the key set of an issuer          *)
(* (auth/verifier.go, auth/jwks.go): the set is cached, refreshed when it  *)
(* is older than ttl or lacks the token's key, at most once at a time and  *)
(* not within refetchHoldoff of the last attempt, and kept when a refresh  *)
(* fails.  The issuer publishes and withdraws keys at any time.            *)
(*                                                                         *)
(* One issuer with one URI; the entries of others are independent.  Time   *)
(* is in ticks.  A fetch reads the issuer's set at one moment and stores   *)
(* it at a later one, at most FetchMax ticks after its start (the timeout  *)
(* of the client).                                                         *)
(***************************************************************************)
EXTENDS Naturals, FiniteSets

CONSTANTS Keys,       \* the keys an issuer may publish, named by their kid
          NoKid,      \* a token that names none
          Verifiers,  \* concurrent verifications
          JwksTtl, Holdoff, FetchMax   \* in ticks

GateFree == "nobody"   \* the gate is free

ASSUME JwksAssumption ==
    /\ NoKid \notin Keys /\ GateFree \notin Verifiers
    /\ JwksTtl \in Nat \ {0} /\ Holdoff \in 1..JwksTtl /\ FetchMax \in Nat

VARIABLES
    idp,     \* the issuer: whether it answers, the keys it publishes
    gone,    \* ticks since each key was withdrawn, 0 while published
    entry,   \* jwksEntry: whether there is one, its keys, age and holdoff
    fetch,   \* the holder of the gate, the set it read and for how long it fetches
    verify,  \* each verification: where it is, its token's kid, its result
    since    \* ticks since the last fetch ended, and how it ended

jvars == <<idp, gone, entry, fetch, verify, since>>

GoneCap == JwksTtl + FetchMax + 1

JwksInit ==
    /\ idp \in [up : {TRUE}, keys : (SUBSET Keys) \ {{}}]
    /\ gone = [k \in Keys |-> IF k \in idp.keys THEN 0 ELSE GoneCap]
    /\ entry = [cached |-> FALSE, keys |-> {}, age |-> 0, hold |-> 0]
    /\ fetch = [by |-> GateFree, read |-> {}, age |-> 0]
    /\ verify = [v \in Verifiers |-> [at |-> "idle", kid |-> NoKid, res |-> {}]]
    /\ since = [ticks |-> Holdoff, ok |-> TRUE]

\* lookup: the keys a kid selects, at most one.
lookup(keys, kid) == IF kid \in keys THEN {kid}
                     ELSE IF kid = NoKid /\ Cardinality(keys) = 1 THEN keys ELSE {}

\* Mutant of freshKey: a known kid is fresh for ever.
freshKeyEver(kid) == IF entry.cached THEN lookup(entry.keys, kid) ELSE {}

freshKey(kid) == IF entry.cached /\ entry.age < JwksTtl THEN lookup(entry.keys, kid) ELSE {}

Ends(v, res) == verify' = [verify EXCEPT ![v] = [at |-> "idle", kid |-> @.kid, res |-> res]]

\* Verify: a token whose issuer, audience, expiry or subject is not right is
\* refused without its key, or whatever its key; those change nothing here.
Verify(v, kid) ==
    /\ verify[v].at = "idle"
    /\ verify' = [verify EXCEPT ![v] =
           IF freshKey(kid) # {} THEN [at |-> "idle", kid |-> kid, res |-> freshKey(kid)]
           ELSE [at |-> "gate", kid |-> kid, res |-> {}]]
    /\ UNCHANGED <<idp, gone, entry, fetch, since>>

\* key, with the gate in hand: read again, answer from the set on hand during
\* the holdoff, or fetch.
Gate(v) ==
    LET kid == verify[v].kid
    IN  /\ verify[v].at = "gate" /\ fetch.by = GateFree
        /\ \/ freshKey(kid) # {} /\ Ends(v, freshKey(kid)) /\ UNCHANGED fetch
           \/ /\ freshKey(kid) = {} /\ entry.cached /\ entry.hold > 0
              /\ Ends(v, lookup(entry.keys, kid)) /\ UNCHANGED fetch
           \/ /\ freshKey(kid) = {} /\ ~(entry.cached /\ entry.hold > 0)
              /\ fetch' = [by |-> v, read |-> {}, age |-> 0]
              /\ verify' = [verify EXCEPT ![v].at = "fetch"]
        /\ UNCHANGED <<idp, gone, entry, since>>

\* The issuer answers the request.
Read(v) ==
    /\ verify[v].at = "fetch" /\ idp.up
    /\ fetch' = [fetch EXCEPT !.read = idp.keys]
    /\ verify' = [verify EXCEPT ![v].at = "read"]
    /\ UNCHANGED <<idp, gone, entry, since>>

FetchEnds(ok) == fetch' = [by |-> GateFree, read |-> {}, age |-> 0] /\ since' = [ticks |-> 0, ok |-> ok]

Store(v) ==
    /\ verify[v].at = "read"
    /\ entry' = [cached |-> TRUE, keys |-> fetch.read, age |-> 0, hold |-> Holdoff]
    /\ Ends(v, lookup(fetch.read, verify[v].kid)) /\ FetchEnds(TRUE)
    /\ UNCHANGED <<idp, gone>>

\* Mutant of FetchFails: a failed refresh does not hold off the next.
FetchFailsAtOnce(v) ==
    /\ verify[v].at \in {"fetch", "read"}
    /\ Ends(v, lookup(entry.keys, verify[v].kid)) /\ FetchEnds(FALSE)
    /\ UNCHANGED <<idp, gone, entry>>

\* The fetch fails: the issuer is down or answers nothing usable, or the
\* caller whose context it runs under has gone.  A set on hand is served on.
FetchFails(v) ==
    /\ verify[v].at \in {"fetch", "read"}
    /\ entry' = IF entry.cached THEN [entry EXCEPT !.hold = Holdoff] ELSE entry
    /\ Ends(v, lookup(entry.keys, verify[v].kid)) /\ FetchEnds(FALSE)
    /\ UNCHANGED <<idp, gone>>

Rotate ==
    /\ \E ks \in (SUBSET Keys) \ {{}} :
           idp' = [idp EXCEPT !.keys = ks] /\ gone' = [k \in Keys |-> IF k \in ks THEN 0 ELSE
                                                           IF gone[k] = 0 THEN 1 ELSE gone[k]]
    /\ UNCHANGED <<entry, fetch, verify, since>>

Outage == idp' = [idp EXCEPT !.up = ~@] /\ UNCHANGED <<gone, entry, fetch, verify, since>>

Passes(n, cap) == IF n < cap THEN n + 1 ELSE n

\* A tick; a fetch does not outlast its client's timeout.  Answers of earlier
\* ticks are forgotten.
JwksTick ==
    /\ fetch.by # GateFree => fetch.age < FetchMax
    /\ gone' = [k \in Keys |-> IF gone[k] = 0 THEN 0 ELSE Passes(gone[k], GoneCap)]
    /\ entry' = [entry EXCEPT !.age = Passes(@, JwksTtl), !.hold = IF @ = 0 THEN 0 ELSE @ - 1]
    /\ fetch' = IF fetch.by = GateFree THEN fetch ELSE [fetch EXCEPT !.age = @ + 1]
    /\ since' = [since EXCEPT !.ticks = Passes(@, Holdoff)]
    /\ verify' = [v \in Verifiers |-> [verify[v] EXCEPT !.res = {}]]
    /\ UNCHANGED idp

JwksNext ==
    \/ \E v \in Verifiers : \/ \E kid \in Keys \cup {NoKid} : Verify(v, kid)
                            \/ Gate(v) \/ Read(v) \/ Store(v) \/ FetchFails(v)
    \/ Rotate \/ Outage \/ JwksTick

JwksSpec == JwksInit /\ [][JwksNext]_jvars
-----------------------------------------------------------------------------
JwksTypeOK ==
    /\ idp \in [up : BOOLEAN, keys : (SUBSET Keys) \ {{}}]
    /\ gone \in [Keys -> 0..GoneCap]
    /\ entry \in [cached : BOOLEAN, keys : SUBSET Keys, age : 0..JwksTtl, hold : 0..Holdoff]
    /\ fetch \in [by : Verifiers \cup {GateFree}, read : SUBSET Keys, age : 0..FetchMax]
    /\ verify \in [Verifiers -> [at : {"idle", "gate", "fetch", "read"},
                                kid : Keys \cup {NoKid}, res : SUBSET Keys]]
    /\ since \in [ticks : 0..Holdoff, ok : BOOLEAN]

\* Who fetches holds the gate.
GateHeld == \A v \in Verifiers : verify[v].at \in {"fetch", "read"} <=> fetch.by = v

\* jwksCache: "a key the IdP has withdrawn must stop verifying tokens within
\* the ttl".  A key that still verifies a token was published less than ttl
\* (and the duration of a fetch) ago, unless the last fetch failed.
WithdrawnStops ==
    /\ JwksTypeOK /\ GateHeld
    /\ \A v \in Verifiers : \A k \in verify[v].res : since.ok => gone[k] <= JwksTtl + FetchMax

\* refetchHoldoff: "the minimum spacing between fetches of one URI, whatever
\* prompted them".  A fetch that begins within the holdoff of the end of
\* another follows one that failed when nothing was cached yet.
FetchesSpaced ==
    [][\A v \in Verifiers : Gate(v) /\ fetch'.by = v /\ since.ticks < Holdoff
           => ~since.ok /\ ~entry.cached]_jvars
=============================================================================
