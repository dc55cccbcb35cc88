---------------------------- MODULE RedisBreaker ----------------------------
(***************************************************************************)
(* The circuit breaker that a fleet of gateways shares through Redis       *)
(* (redisBreaker of internal/state/redis.go).  Its state is three keys,    *)
(* and every round trip is a step of its own, during which Redis may fail  *)
(* and after which the process may stop.                                   *)
(*                                                                         *)
(* openUntil and the ttl of the probe key are counted down in ticks, by    *)
(* one clock.  The decision of the local mirror, which is the breaker of   *)
(* module Breaker, is a free choice here: it is only asked while Redis     *)
(* does not answer.                                                        *)
(***************************************************************************)
EXTENDS Naturals

CONSTANTS Instances,    \* requests, each on some instance of the fleet
          FleetThreshold, Cooldown,   \* threshold, halfOpenAfter in ticks
          FailsCap      \* bound of the failures counter

ASSUME RedisBreakerAssumption ==
    /\ FleetThreshold \in Nat \ {0} /\ Cooldown \in Nat \ {0}
    /\ FailsCap \in Nat /\ FailsCap >= FleetThreshold

VARIABLES
    keys,  \* fails; open: "absent" or the ticks to openUntil; probe: its ttl
    call,  \* where each request is
    role,  \* "probe": SET NX let it through; "stale": that probe's key is gone
    bad    \* the environment: the upstream and Redis may fail

rbVars == <<keys, call, role, bad>>

Absent == Cooldown + 1   \* openKey has no value: the circuit is closed

RedisBreakerInit ==
    /\ keys = [fails |-> 0, open |-> Absent, probe |-> 0]
    /\ call = [i \in Instances |-> "idle"]
    /\ role = [i \in Instances |-> "none"]
    /\ bad = FALSE

Goto(i, at) == call' = [call EXCEPT ![i] = at]

\* Deleting the probe key, or its expiry, leaves the probes behind it out.
Orphaned == [i \in Instances |-> IF role[i] = "probe" THEN "stale" ELSE role[i]]

\* Allow, first round trip: GET openUntil.
AllowGet(i) ==
    /\ call[i] = "idle"
    /\ \/ keys.open = Absent /\ Goto(i, "call")
       \/ keys.open \in 1..Cooldown /\ Goto(i, "idle")
       \/ keys.open = 0 /\ Goto(i, "claim")
    /\ UNCHANGED <<keys, role, bad>>

\* Mutant of AllowClaim: the probe key is set without NX.
AllowClaimAnyway(i) ==
    /\ call[i] = "claim"
    /\ Goto(i, "call")
    /\ keys' = [keys EXCEPT !.probe = Cooldown]
    /\ role' = [role EXCEPT ![i] = "probe"]
    /\ UNCHANGED bad

\* Allow, second round trip: SET NX of the probe key.
AllowClaim(i) ==
    /\ call[i] = "claim"
    /\ IF keys.probe = 0
       THEN /\ Goto(i, "call")
            /\ keys' = [keys EXCEPT !.probe = Cooldown]
            /\ role' = [role EXCEPT ![i] = "probe"]
       ELSE Goto(i, "idle") /\ UNCHANGED <<keys, role>>
    /\ UNCHANGED bad

\* Redis does not answer: the local mirror decides.
Degraded(i) ==
    /\ call[i] \in {"idle", "claim"} /\ bad
    /\ Goto(i, "call") \/ Goto(i, "idle")
    /\ UNCHANGED <<keys, role, bad>>

\* Mutant of RecordOK: openUntil is not deleted.
RecordOKStaysOpen(i) ==
    /\ call[i] = "call" /\ Goto(i, "idle")
    /\ keys' = [keys EXCEPT !.fails = 0, !.probe = 0]
    /\ role' = [Orphaned EXCEPT ![i] = "none"]
    /\ UNCHANGED bad

\* Record of a success: one DEL of the three keys.
RecordOK(i) ==
    /\ call[i] = "call" /\ Goto(i, "idle")
    /\ keys' = [fails |-> 0, open |-> Absent, probe |-> 0]
    /\ role' = [Orphaned EXCEPT ![i] = "none"]
    /\ UNCHANGED bad

\* Record of a failure: INCR failures; at the threshold a second round trip
\* follows.
RecordIncr(i) ==
    /\ call[i] = "call" /\ bad
    /\ keys' = [keys EXCEPT !.fails = IF @ = FailsCap THEN @ ELSE @ + 1]
    /\ IF keys'.fails >= FleetThreshold
       THEN Goto(i, "trip") /\ UNCHANGED role
       ELSE Goto(i, "idle") /\ role' = [role EXCEPT ![i] = "none"]
    /\ UNCHANGED bad

RecordTrip(i) ==
    /\ call[i] = "trip" /\ Goto(i, "idle")
    /\ keys' = [keys EXCEPT !.open = Cooldown, !.probe = 0]
    /\ role' = [Orphaned EXCEPT ![i] = "none"]
    /\ UNCHANGED bad

\* A round trip of Record is lost, a budget refuses the call, the process dies.
Vanish(i) ==
    /\ call[i] \in {"call", "trip"} /\ bad /\ Goto(i, "idle")
    /\ role' = [role EXCEPT ![i] = "none"]
    /\ UNCHANGED <<keys, bad>>

\* One halfOpenAfter / Cooldown of time; the hour after which Redis forgets
\* the failures and the circuit.
FleetTick ==
    /\ keys.open \in 1..Cooldown \/ keys.probe > 0
    /\ keys' = [keys EXCEPT !.open = IF @ \in 1..Cooldown THEN @ - 1 ELSE @,
                            !.probe = IF @ = 0 THEN 0 ELSE @ - 1]
    /\ role' = IF keys.probe = 1 THEN Orphaned ELSE role
    /\ UNCHANGED <<call, bad>>

KeysExpire ==
    /\ \/ keys.fails > 0 /\ keys' = [keys EXCEPT !.fails = 0]
       \/ keys.open = 0 /\ keys' = [keys EXCEPT !.open = Absent]
    /\ UNCHANGED <<call, role, bad>>

Weather == bad' = ~bad /\ UNCHANGED <<keys, call, role>>

FleetStep(i) == AllowGet(i) \/ AllowClaim(i) \/ RecordOK(i) \/ RecordIncr(i) \/ RecordTrip(i)

RedisBreakerNext ==
    \/ \E i \in Instances : FleetStep(i) \/ Degraded(i) \/ Vanish(i)
    \/ FleetTick \/ KeysExpire \/ Weather

RedisBreakerSpec == RedisBreakerInit /\ [][RedisBreakerNext]_rbVars
-----------------------------------------------------------------------------
RedisBreakerTypeOK ==
    /\ keys \in [fails : 0..FailsCap, open : 0..Absent, probe : 0..Cooldown]
    /\ call \in [Instances -> {"idle", "claim", "call", "trip"}]
    /\ role \in [Instances -> {"none", "probe", "stale"}] /\ bad \in BOOLEAN

\* redisBreaker: "one probe fleet-wide is admitted".  The request that holds
\* the probe key is the only one: any other that SET NX let through has
\* outlived its key, because halfOpenAfter has passed, another call's outcome
\* was recorded, or both.
OneProbe ==
    /\ RedisBreakerTypeOK
    /\ \A i, j \in Instances : role[i] = "probe" /\ role[j] = "probe" => i = j

\* Once the upstream and Redis are well, no interleaving of round trips, lost
\* outcome or dead probe keeps the fleet's circuit from closing.
FleetRecovers == <>[]~bad => <>[](keys.open = Absent)
=============================================================================
