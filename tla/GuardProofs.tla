----------------------------- MODULE GuardProofs -----------------------------
(***************************************************************************)
(* Proofs about what a call to an upstream passes: the guards of one       *)
(* process (Guard), the breaker that instances share (RedisBreaker), the   *)
(* verification keys (Jwks) and the rate limiters and budgets (Limits).    *)
(* Each theorem is of the specification of its component, for every number *)
(* of callers or instances, threshold, cool-down, window and allowance     *)
(* that the component's assumption allows.                                 *)
(***************************************************************************)
EXTENDS Guard, RedisBreaker, Limits, Jwks, TLAPS

\* The initial state is well typed.
LEMMA InitTypeOK == Init => TypeOK
<1>1. Init => probing \in BOOLEAN /\ faults \in BOOLEAN /\ leaked \in BOOLEAN
  BY Zenon DEF Init, New
<1>2. QED
  BY BreakerAssumption, <1>1
     DEF Init, New, TypeOK, BreakerTypeOK, States, PC, Outcomes, Budgets

\* Every action leaves the variables in their types.
LEMMA TypeStep == TypeOK /\ [Next]_vars => TypeOK'
<1>. SUFFICES ASSUME TypeOK, [Next]_vars
     PROVE  TypeOK'
  OBVIOUS
<1>. USE BreakerAssumption, GuardAssumption DEF TypeOK, BreakerTypeOK, States, PC, Outcomes, Budgets, env
<1>1. ASSUME NEW c \in Callers, RateLimited(c) PROVE TypeOK'
  BY <1>1 DEF RateLimited, Return, brkVars
<1>2. ASSUME NEW c \in Callers, WithinRate(c) PROVE TypeOK'
  BY <1>2 DEF WithinRate, brkVars
<1>3. ASSUME NEW c \in Callers, CircuitOpen(c) PROVE TypeOK'
  BY <1>3 DEF CircuitOpen, Return, brkVars
<1>4. ASSUME NEW c \in Callers, Allow(c) PROVE TypeOK'
  BY <1>4 DEF Allow, Admit
<1>5. ASSUME NEW c \in Callers, ConnectError(c) PROVE TypeOK'
  <2>1. probing' \in BOOLEAN
    BY <1>5, Zenon DEF ConnectError, RecordFailure
  <2>2. QED
    BY <1>5, <2>1 DEF ConnectError, RecordFailure, Return
<1>6. ASSUME NEW c \in Callers, Acquire(c) PROVE TypeOK'
  BY <1>6 DEF Acquire, brkVars
<1>7. ASSUME NEW c \in Callers, Charge(c) PROVE TypeOK'
  BY <1>7 DEF Charge, brkVars
<1>8. ASSUME NEW c \in Callers, BudgetExhausted(c) PROVE TypeOK'
  <2>1. leaked' \in BOOLEAN
    BY <1>8, Zenon DEF BudgetExhausted
  <2>2. QED
    BY <1>8, <2>1 DEF BudgetExhausted, Return, brkVars
<1>9. ASSUME NEW c \in Callers, Succeed(c) PROVE TypeOK'
  <2>1. probing' \in BOOLEAN
    BY <1>9, Zenon DEF Succeed, RecordSuccess
  <2>2. QED
    BY <1>9, <2>1 DEF Succeed, RecordSuccess, Return
<1>10. ASSUME NEW c \in Callers, Fail(c) PROVE TypeOK'
  <2>1. probing' \in BOOLEAN
    BY <1>10, Zenon DEF Fail, RecordFailure
  <2>2. QED
    BY <1>10, <2>1 DEF Fail, RecordFailure, Return
<1>11. ASSUME NEW b \in Budgets, Roll(b) PROVE TypeOK'
  BY <1>11 DEF Roll, brkVars, callVars
<1>12. CASE Clock
  BY <1>12 DEF Clock, Tick, callVars
<1>13. CASE Environment
  BY <1>13 DEF Environment, brkVars, callVars
<1>14. CASE UNCHANGED vars
  BY <1>14 DEF vars, brkVars, callVars
<1>15. QED
  BY <1>1, <1>2, <1>3, <1>4, <1>5, <1>6, <1>7, <1>8, <1>9, <1>10, <1>11,
     <1>12, <1>13, <1>14 DEF Next, Step

\* Guard's variables always have their types: in particular the failure
\* counter, the cool-down clock and the budget index never leave their ranges.
THEOREM TypeCorrect == Spec => []TypeOK
  BY InitTypeOK, TypeStep, PTL DEF Spec
-----------------------------------------------------------------------------
\* The two breaker invariants are inductive together with BreakerTypeOK.
BreakerInv == BreakerTypeOK /\ TripIffThreshold /\ SlotIffHalfOpen

\* Each operation of the breaker keeps BreakerInv, whoever calls it.
LEMMA BreakerOps ==
    ASSUME BreakerInv,
           Admit \/ RecordSuccess \/ RecordFailure \/ Tick \/ UNCHANGED brkVars
    PROVE  BreakerInv'
<1>. USE BreakerAssumption
     DEF BreakerInv, BreakerTypeOK, TripIffThreshold, SlotIffHalfOpen, States
<1>1. CASE Admit
  BY <1>1 DEF Admit, Allowed
<1>2. CASE RecordSuccess
  <2>1. probing' \in BOOLEAN
    BY <1>2, Zenon DEF RecordSuccess
  <2>2. QED
    BY <1>2, <2>1 DEF RecordSuccess
<1>3. CASE RecordFailure
  <2>1. probing' \in BOOLEAN
    BY <1>3, Zenon DEF RecordFailure
  <2>2. QED
    BY <1>3, <2>1 DEF RecordFailure, Trips
<1>4. CASE Tick
  BY <1>4 DEF Tick
<1>5. CASE UNCHANGED brkVars
  BY <1>5 DEF brkVars
<1>6. QED
  BY <1>1, <1>2, <1>3, <1>4, <1>5

\* guardedDo touches the breaker only through its operations.
LEMMA OnlyBreakerOps ==
    ASSUME [Next]_vars
    PROVE  Admit \/ RecordSuccess \/ RecordFailure \/ Tick \/ UNCHANGED brkVars
<1>1. ASSUME NEW c \in Callers, RateLimited(c) \/ WithinRate(c) \/ Step(c)
      PROVE  Admit \/ RecordSuccess \/ RecordFailure \/ UNCHANGED brkVars
  BY <1>1 DEF RateLimited, WithinRate, Step, CircuitOpen, Allow, ConnectError,
              Acquire, Charge, BudgetExhausted, Succeed, Fail, brkVars
<1>2. ASSUME NEW b \in Budgets, Roll(b) PROVE UNCHANGED brkVars
  BY <1>2 DEF Roll
<1>3. Clock => Tick
  BY DEF Clock
<1>4. Environment => UNCHANGED brkVars
  BY DEF Environment
<1>5. UNCHANGED vars => UNCHANGED brkVars
  BY DEF vars
<1>6. QED
  BY <1>1, <1>2, <1>3, <1>4, <1>5 DEF Next

\* Whatever calls overlap, the circuit is away from closed exactly while the
\* run of failures has reached the threshold, and half-open means that the
\* slot is taken (Breaker.Allow and Breaker.Record).
THEOREM BreakerCorrect == Spec => []BreakerSound
<1>1. Init => BreakerInv
  <2>1. Init => probing \in BOOLEAN
    BY Zenon DEF Init, New
  <2>2. QED
    BY BreakerAssumption, <2>1
       DEF Init, New, BreakerInv, BreakerTypeOK, States, TripIffThreshold,
           SlotIffHalfOpen
<1>2. BreakerInv /\ [Next]_vars => BreakerInv'
  BY BreakerOps, OnlyBreakerOps
<1>3. BreakerInv /\ TypeOK => BreakerSound
  BY DEF BreakerInv, BreakerSound
<1>4. QED
  BY <1>1, <1>2, <1>3, TypeCorrect, PTL DEF Spec
-----------------------------------------------------------------------------
\* What guardedDo has charged caller c for, at each point of the attempt.
\* The two budget properties say nothing of the points before the charge;
\* without those they are not inductive.
Billed(c) ==
    /\ pc[c] # "idle" => outcome[c] = "none"
    /\ pc[c] \in {"breaker", "acquire"} => charged[c] = {}
    /\ pc[c] = "charge" => charged[c] = 1..(next[c] - 1)
    /\ pc[c] = "call" => charged[c] = Budgets
    /\ outcome[c] = "budget_exhausted" => charged[c] = 1..(next[c] - 1)
    /\ outcome[c] \in {"ok", "error"} => charged[c] = Budgets
    /\ outcome[c] \in {"rate_limited", "circuit_open", "connect_error"} =>
           charged[c] = {}

BillingInv == TypeOK /\ \A c \in Callers : Billed(c)

\* Every step of guardedDo keeps the account of every caller.
LEMMA BillingStep == BillingInv /\ [Next]_vars => BillingInv'
<1>. SUFFICES ASSUME BillingInv, [Next]_vars, NEW d \in Callers
     PROVE  Billed(d)'
  BY TypeStep DEF BillingInv
<1>. USE DEF BillingInv, TypeOK, PC, Outcomes, Budgets, Billed
<1>1. ASSUME NEW c \in Callers, RateLimited(c) PROVE Billed(d)'
  BY <1>1 DEF RateLimited, Return
<1>2. ASSUME NEW c \in Callers, WithinRate(c) PROVE Billed(d)'
  BY <1>2 DEF WithinRate
<1>3. ASSUME NEW c \in Callers, CircuitOpen(c) PROVE Billed(d)'
  BY <1>3 DEF CircuitOpen, Return
<1>4. ASSUME NEW c \in Callers, Allow(c) PROVE Billed(d)'
  BY <1>4 DEF Allow
<1>5. ASSUME NEW c \in Callers, ConnectError(c) PROVE Billed(d)'
  BY <1>5 DEF ConnectError, Return
<1>6. ASSUME NEW c \in Callers, Acquire(c) PROVE Billed(d)'
  BY <1>6 DEF Acquire
<1>7. ASSUME NEW c \in Callers, Charge(c) PROVE Billed(d)'
  <2>1. CASE d # c
    BY <1>7, <2>1 DEF Charge
  <2>2. CASE d = c
    <3>1. /\ next[c] \in 1..3
          /\ charged[c] = 1..(next[c] - 1)
          /\ charged'[c] = charged[c] \cup {next[c]}
          /\ outcome[c] = "none" /\ outcome' = outcome
      BY <1>7 DEF Charge
    <3>2. charged'[c] = 1..next[c]
      BY <3>1
    <3>3. CASE next[c] = 3
      BY <1>7, <2>2, <3>1, <3>2, <3>3 DEF Charge
    <3>4. CASE next[c] # 3
      <4>1. pc'[c] = "charge" /\ next'[c] = next[c] + 1
        BY <1>7, <3>4 DEF Charge
      <4>2. charged'[c] = 1..(next'[c] - 1)
        BY <3>1, <3>2, <4>1
      <4>3. QED
        BY <2>2, <3>1, <4>1, <4>2
    <3>5. QED
      BY <3>3, <3>4
  <2>3. QED
    BY <2>1, <2>2
<1>8. ASSUME NEW c \in Callers, BudgetExhausted(c) PROVE Billed(d)'
  BY <1>8 DEF BudgetExhausted, Return
<1>9. ASSUME NEW c \in Callers, Succeed(c) PROVE Billed(d)'
  BY <1>9 DEF Succeed, Return
<1>10. ASSUME NEW c \in Callers, Fail(c) PROVE Billed(d)'
  BY <1>10 DEF Fail, Return
<1>11. ASSUME UNCHANGED callVars PROVE Billed(d)'
  BY <1>11 DEF callVars
<1>12. ASSUME (\E b \in Budgets : Roll(b)) \/ Clock \/ Environment \/ UNCHANGED vars
       PROVE  UNCHANGED callVars
  <2>1. ASSUME NEW b \in Budgets, Roll(b) PROVE UNCHANGED callVars
    BY <2>1 DEF Roll
  <2>2. Clock => UNCHANGED callVars
    BY DEF Clock
  <2>3. Environment => UNCHANGED callVars
    BY DEF Environment
  <2>4. UNCHANGED vars => UNCHANGED callVars
    BY DEF vars
  <2>5. QED
    BY <1>12, <2>1, <2>2, <2>3, <2>4
<1>13. QED
  <2>. HIDE DEF BillingInv, TypeOK, PC, Outcomes, Budgets, Billed
  <2>1. QED
    BY <1>1, <1>2, <1>3, <1>4, <1>5, <1>6, <1>7, <1>8, <1>9, <1>10, <1>11,
       <1>12, Zenon DEF Next, Step

\* chargeBudgets consumes narrowest first and stops at the first refusal, a
\* call is made only when all budgets were charged, and an attempt stopped by
\* the rate limit, the circuit or the connect has been charged nothing.
THEOREM BillingCorrect == Spec => []BilledInOrder
<1>1. Init => BillingInv
  <2>1. Init => TypeOK
    BY InitTypeOK
  <2>2. QED
    BY <2>1 DEF Init, BillingInv, Billed
<1>2. BillingInv => BilledInOrder
  BY DEF BillingInv, Billed, BilledInOrder, ChargedInOrder, UnreachedUnbilled
<1>3. QED
  BY <1>1, <1>2, BillingStep, PTL DEF Spec
-----------------------------------------------------------------------------
\* The points of guardedDo between Allow and Record.
Admitted == {"acquire", "charge", "call"}

\* SlotHasHolder needs to know that a probe is one of those calls: then only
\* the three exits that follow the admission can end it.
HolderInv ==
    /\ TypeOK
    /\ SlotHasHolder
    /\ \A c \in Callers : probe[c] => pc[c] \in Admitted

\* Every step of guardedDo keeps HolderInv.
LEMMA HolderStep == HolderInv /\ [Next]_vars => HolderInv'
<1>. SUFFICES ASSUME HolderInv, [Next]_vars PROVE HolderInv'
  OBVIOUS
<1>0. TypeOK'
  BY TypeStep DEF HolderInv
<1>. USE <1>0 DEF HolderInv, SlotHasHolder, Admitted, TypeOK, BreakerTypeOK, PC
<1>1. ASSUME NEW c \in Callers, RateLimited(c) PROVE HolderInv'
  BY <1>1 DEF RateLimited, Return, brkVars, env
<1>2. ASSUME NEW c \in Callers, WithinRate(c) PROVE HolderInv'
  BY <1>2 DEF WithinRate, brkVars, env
<1>3. ASSUME NEW c \in Callers, CircuitOpen(c) PROVE HolderInv'
  BY <1>3 DEF CircuitOpen, Return, brkVars, env
<1>4. ASSUME NEW c \in Callers, Allow(c) PROVE HolderInv'
  BY <1>4 DEF Allow, Admit, env
<1>5. ASSUME NEW c \in Callers, ConnectError(c) PROVE HolderInv'
  BY <1>5 DEF ConnectError, RecordFailure, Return, env
<1>6. ASSUME NEW c \in Callers, Acquire(c) PROVE HolderInv'
  BY <1>6 DEF Acquire, brkVars, env
<1>7. ASSUME NEW c \in Callers, Charge(c) PROVE HolderInv'
  BY <1>7 DEF Charge, brkVars, env
<1>8. ASSUME NEW c \in Callers, BudgetExhausted(c) PROVE HolderInv'
  BY <1>8 DEF BudgetExhausted, Return, brkVars
<1>9. ASSUME NEW c \in Callers, Succeed(c) PROVE HolderInv'
  BY <1>9 DEF Succeed, RecordSuccess, Return, env
<1>10. ASSUME NEW c \in Callers, Fail(c) PROVE HolderInv'
  BY <1>10 DEF Fail, RecordFailure, Return, env
<1>11. ASSUME NEW b \in Budgets, Roll(b) PROVE HolderInv'
  BY <1>11 DEF Roll, brkVars, callVars, env
<1>12. CASE Clock
  BY <1>12 DEF Clock, Tick, callVars, env
<1>13. CASE Environment
  BY <1>13 DEF Environment, brkVars, callVars
<1>14. CASE UNCHANGED vars
  BY <1>14 DEF vars, brkVars, callVars, env
<1>15. QED
  BY <1>1, <1>2, <1>3, <1>4, <1>5, <1>6, <1>7, <1>8, <1>9, <1>10, <1>11,
     <1>12, <1>13, <1>14 DEF Next, Step

\* The half-open slot is held by a call that will report to the breaker, for
\* any number of callers: only a budget's refusal can strand it.
THEOREM HolderCorrect == Spec => []SlotHasHolder
<1>1. Init => HolderInv
  BY InitTypeOK DEF Init, New, HolderInv, SlotHasHolder
<1>2. HolderInv => SlotHasHolder
  BY DEF HolderInv
<1>3. QED
  BY <1>1, <1>2, HolderStep, PTL DEF Spec
-----------------------------------------------------------------------------
(* RedisBreaker.                                                           *)

\* A probe in flight keeps its key: nobody can claim it again.
ProbeKeyed == \A i \in Instances : role[i] = "probe" => keys.probe > 0

FleetInv == OneProbe /\ ProbeKeyed

\* The fleet starts with FleetInv.
LEMMA FleetInit == RedisBreakerInit => FleetInv
<1>1. RedisBreakerInit => bad \in BOOLEAN
  BY Zenon DEF RedisBreakerInit
<1>2. QED
  BY <1>1, RedisBreakerAssumption
     DEF RedisBreakerInit, FleetInv, OneProbe, ProbeKeyed, RedisBreakerTypeOK, Absent

\* Every round trip, and the passing of time, keeps FleetInv.
LEMMA FleetInvStep == FleetInv /\ [RedisBreakerNext]_rbVars => FleetInv'
<1>. SUFFICES ASSUME FleetInv, [RedisBreakerNext]_rbVars PROVE FleetInv'
  OBVIOUS
<1>. USE RedisBreakerAssumption DEF FleetInv, OneProbe, ProbeKeyed, RedisBreakerTypeOK, Absent, Goto, Orphaned
<1>1. ASSUME NEW i \in Instances, AllowGet(i) PROVE FleetInv'
  BY <1>1 DEF AllowGet
<1>2. ASSUME NEW i \in Instances, AllowClaim(i) PROVE FleetInv'
  BY <1>2 DEF AllowClaim
<1>3. ASSUME NEW i \in Instances, RecordOK(i) PROVE FleetInv'
  BY <1>3 DEF RecordOK
<1>4. ASSUME NEW i \in Instances, RecordIncr(i) PROVE FleetInv'
  BY <1>4 DEF RecordIncr
<1>5. ASSUME NEW i \in Instances, RecordTrip(i) PROVE FleetInv'
  <2>1. keys' = [fails |-> keys.fails, open |-> Cooldown, probe |-> 0]
    BY <1>5 DEF RecordTrip
  <2>2. QED
    BY <1>5, <2>1 DEF RecordTrip
<1>6. ASSUME NEW i \in Instances, Degraded(i) PROVE FleetInv'
  BY <1>6 DEF Degraded
<1>7. ASSUME NEW i \in Instances, Vanish(i) PROVE FleetInv'
  BY <1>7 DEF Vanish
<1>8. CASE FleetTick
  <2>1. keys' = [fails |-> keys.fails,
                 open |-> IF keys.open \in 1..Cooldown THEN keys.open - 1 ELSE keys.open,
                 probe |-> IF keys.probe = 0 THEN 0 ELSE keys.probe - 1]
    BY <1>8 DEF FleetTick
  <2>2. keys' \in [fails : 0..FailsCap, open : 0..Absent, probe : 0..Cooldown]
    BY <2>1
  <2>3. role' \in [Instances -> {"none", "probe", "stale"}]
    BY <1>8 DEF FleetTick
  <2>4. QED
    BY <1>8, <2>1, <2>2, <2>3 DEF FleetTick
<1>9. CASE KeysExpire
  BY <1>9 DEF KeysExpire
<1>10. CASE Weather
  <2>1. bad' \in BOOLEAN
    BY <1>10, Zenon DEF Weather
  <2>2. QED
    BY <1>10, <2>1 DEF Weather
<1>11. CASE UNCHANGED rbVars
  BY <1>11 DEF rbVars
<1>12. QED
  BY <1>1, <1>2, <1>3, <1>4, <1>5, <1>6, <1>7, <1>8, <1>9, <1>10, <1>11
     DEF RedisBreakerNext, FleetStep

\* Of any number of instances that share a breaker, at most one probes after a
\* cool-down; another that was let through has outlived its key (redisBreaker).
THEOREM OneProbeCorrect == RedisBreakerSpec => []OneProbe
<1>1. FleetInv => OneProbe
  BY DEF FleetInv
<1>2. QED
  BY <1>1, FleetInit, FleetInvStep, PTL DEF RedisBreakerSpec
-----------------------------------------------------------------------------
(* Jwks.                                                                   *)

\* How old what a fetch in progress and the cached entry hold can be.
KeysAged ==
    /\ \A k \in idp.keys : gone[k] = 0
    /\ \A v \in Verifiers : verify[v].at = "read" => \A k \in fetch.read : gone[k] <= fetch.age + 1
    /\ entry.age < JwksTtl => \A k \in entry.keys : gone[k] <= entry.age + FetchMax + 1

\* The holdoff measures the time since the last fetch ended.
HoldKept ==
    /\ ~entry.cached => entry.keys = {} /\ entry.hold = 0
    /\ entry.cached => entry.hold + since.ticks >= Holdoff
    /\ since.ok /\ since.ticks < Holdoff => entry.cached
    /\ since.ok /\ entry.hold > 0 => entry.age + entry.hold <= Holdoff
    /\ entry.hold > 0 => fetch.by = GateFree

\* A key withdrawn for longer only verifies while a failed fetch is held off.
AnswersAged ==
    \A v \in Verifiers : \A k \in verify[v].res :
        gone[k] <= JwksTtl + FetchMax \/ (~since.ok /\ entry.hold > 0)

JwksInv == JwksTypeOK /\ GateHeld /\ KeysAged /\ HoldKept /\ AnswersAged

\* A lookup answers with keys of the set it is made in.
LEMMA LookupInSet == \A ks, kid : lookup(ks, kid) \subseteq ks
  BY DEF lookup

\* What is answered as fresh was published within the ttl.
LEMMA FreshAged ==
    ASSUME JwksInv, NEW kid, NEW k \in freshKey(kid)
    PROVE  k \in Keys /\ gone[k] <= JwksTtl + FetchMax
<1>1. k \in entry.keys /\ entry.age < JwksTtl
  BY LookupInSet DEF freshKey
<1>2. QED
  BY <1>1, JwksAssumption DEF JwksInv, JwksTypeOK, KeysAged, GoneCap

\* The initial state satisfies the invariant.
LEMMA JwksInitInv == JwksInit => JwksInv
<1>. SUFFICES ASSUME JwksInit PROVE JwksInv
  OBVIOUS
<1>. USE JwksAssumption DEF JwksInit
<1>1. JwksTypeOK
  <2>1. gone \in [Keys -> 0..GoneCap]
    BY DEF GoneCap
  <2>2. idp \in [up : BOOLEAN, keys : (SUBSET Keys) \ {{}}]
    OBVIOUS
  <2>3. entry \in [cached : BOOLEAN, keys : SUBSET Keys, age : 0..JwksTtl, hold : 0..Holdoff]
    OBVIOUS
  <2>4. fetch \in [by : Verifiers \cup {GateFree}, read : SUBSET Keys, age : 0..FetchMax]
    OBVIOUS
  <2>5. QED
    BY <2>1, <2>2, <2>3, <2>4 DEF JwksTypeOK
<1>2. GateHeld /\ KeysAged /\ HoldKept /\ AnswersAged
  BY DEF GateHeld, KeysAged, HoldKept, AnswersAged, GateFree
<1>3. QED
  BY <1>1, <1>2 DEF JwksInv

\* Forgetting the answers of a tick keeps the types.
LEMMA AnswersForgotten ==
    JwksTypeOK => [v \in Verifiers |-> [verify[v] EXCEPT !.res = {}]]
                      \in [Verifiers -> [at : {"idle", "gate", "fetch", "read"},
                                        kid : Keys \cup {NoKid}, res : SUBSET Keys]]
  BY DEF JwksTypeOK

\* Every step of a verification, of the issuer and of time keeps the types.
LEMMA JwksTypeStep == JwksInv /\ [JwksNext]_jvars => JwksTypeOK'
<1>. SUFFICES ASSUME JwksInv, [JwksNext]_jvars PROVE JwksTypeOK'
  OBVIOUS
<1>. USE JwksAssumption DEF JwksInv, JwksTypeOK, GoneCap
<1>1. ASSUME NEW v \in Verifiers, NEW kid \in Keys \cup {NoKid}, Verify(v, kid) PROVE JwksTypeOK'
  <2>1. freshKey(kid) \subseteq Keys
    BY FreshAged
  <2>2. QED
    BY <1>1, <2>1 DEF Verify
<1>2. ASSUME NEW v \in Verifiers, Gate(v) PROVE JwksTypeOK'
  <2>1. freshKey(verify[v].kid) \subseteq Keys /\ lookup(entry.keys, verify[v].kid) \subseteq Keys
    BY FreshAged, LookupInSet
  <2>2. verify' \in [Verifiers -> [at : {"idle", "gate", "fetch", "read"},
                                   kid : Keys \cup {NoKid}, res : SUBSET Keys]]
    BY <1>2, <2>1 DEF Gate, Ends
  <2>3. fetch' \in [by : Verifiers \cup {GateFree}, read : SUBSET Keys, age : 0..FetchMax]
    BY <1>2 DEF Gate
  <2>4. QED
    BY <1>2, <2>2, <2>3 DEF Gate
<1>3. ASSUME NEW v \in Verifiers, Read(v) PROVE JwksTypeOK'
  BY <1>3 DEF Read
<1>4. ASSUME NEW v \in Verifiers, Store(v) PROVE JwksTypeOK'
  <2>1. lookup(fetch.read, verify[v].kid) \subseteq Keys
    BY LookupInSet
  <2>2. verify' \in [Verifiers -> [at : {"idle", "gate", "fetch", "read"},
                                   kid : Keys \cup {NoKid}, res : SUBSET Keys]]
    BY <1>4, <2>1 DEF Store, Ends
  <2>3. QED
    BY <1>4, <2>2 DEF Store, FetchEnds
<1>5. ASSUME NEW v \in Verifiers, FetchFails(v) PROVE JwksTypeOK'
  <2>1. lookup(entry.keys, verify[v].kid) \subseteq Keys
    BY LookupInSet
  <2>2. verify' \in [Verifiers -> [at : {"idle", "gate", "fetch", "read"},
                                   kid : Keys \cup {NoKid}, res : SUBSET Keys]]
    BY <1>5, <2>1 DEF FetchFails, Ends
  <2>3. entry' \in [cached : BOOLEAN, keys : SUBSET Keys, age : 0..JwksTtl, hold : 0..Holdoff]
    BY <1>5 DEF FetchFails
  <2>4. QED
    BY <1>5, <2>2, <2>3 DEF FetchFails, FetchEnds
<1>6. CASE Rotate
  BY <1>6 DEF Rotate
<1>7. CASE Outage
  <2>1. (~idp.up) \in BOOLEAN
    BY Zenon
  <2>2. idp' = [up |-> ~idp.up, keys |-> idp.keys]
    BY <1>7 DEF Outage
  <2>3. QED
    BY <1>7, <2>1, <2>2 DEF Outage
<1>8. CASE JwksTick
  <2>1. gone' \in [Keys -> 0..GoneCap]
    BY <1>8 DEF JwksTick, Passes
  <2>2. entry' \in [cached : BOOLEAN, keys : SUBSET Keys, age : 0..JwksTtl, hold : 0..Holdoff]
    <3>1. entry' = [cached |-> entry.cached, keys |-> entry.keys, age |-> Passes(entry.age, JwksTtl),
                    hold |-> IF entry.hold = 0 THEN 0 ELSE entry.hold - 1]
      BY <1>8 DEF JwksTick
    <3>2. QED
      BY <3>1 DEF Passes
  <2>3. fetch' \in [by : Verifiers \cup {GateFree}, read : SUBSET Keys, age : 0..FetchMax]
    BY <1>8 DEF JwksTick
  <2>4. since' \in [ticks : 0..Holdoff, ok : BOOLEAN]
    BY <1>8 DEF JwksTick, Passes
  <2>5. verify' \in [Verifiers -> [at : {"idle", "gate", "fetch", "read"},
                                   kid : Keys \cup {NoKid}, res : SUBSET Keys]]
    BY <1>8, AnswersForgotten DEF JwksTick
  <2>6. QED
    BY <1>8, <2>1, <2>2, <2>3, <2>4, <2>5 DEF JwksTick
<1>9. CASE UNCHANGED jvars
  BY <1>9 DEF jvars
<1>10. QED
  BY <1>1, <1>2, <1>3, <1>4, <1>5, <1>6, <1>7, <1>8, <1>9 DEF JwksNext

\* One fetch at a time: each step leaves the gate with the one who fetches.
LEMMA GateStep == JwksInv /\ [JwksNext]_jvars => GateHeld'
<1>. SUFFICES ASSUME JwksInv, [JwksNext]_jvars PROVE GateHeld'
  OBVIOUS
<1>. USE JwksAssumption DEF JwksInv, JwksTypeOK, GateHeld
<1>1. ASSUME NEW v \in Verifiers, NEW kid \in Keys \cup {NoKid}, Verify(v, kid) PROVE GateHeld'
  BY <1>1 DEF Verify
<1>2. ASSUME NEW v \in Verifiers, Gate(v) PROVE GateHeld'
  BY <1>2 DEF Gate, Ends
<1>3. ASSUME NEW v \in Verifiers, Read(v) PROVE GateHeld'
  BY <1>3 DEF Read
<1>4. ASSUME NEW v \in Verifiers, Store(v) PROVE GateHeld'
  BY <1>4 DEF Store, Ends, FetchEnds
<1>5. ASSUME NEW v \in Verifiers, FetchFails(v) PROVE GateHeld'
  BY <1>5 DEF FetchFails, Ends, FetchEnds
<1>6. CASE JwksTick
  BY <1>6 DEF JwksTick
<1>7. CASE Rotate \/ Outage \/ UNCHANGED jvars
  BY <1>7 DEF Rotate, Outage, jvars
<1>8. QED
  BY <1>1, <1>2, <1>3, <1>4, <1>5, <1>6, <1>7 DEF JwksNext

\* The ages of keys, of the entry and of a fetch grow together.
LEMMA KeysAgedStep == JwksInv /\ [JwksNext]_jvars => KeysAged'
<1>. SUFFICES ASSUME JwksInv, [JwksNext]_jvars PROVE KeysAged'
  OBVIOUS
<1>. USE JwksAssumption DEF JwksInv, JwksTypeOK, KeysAged, GoneCap
<1>1. ASSUME NEW v \in Verifiers, NEW kid \in Keys \cup {NoKid}, Verify(v, kid) PROVE KeysAged'
  BY <1>1 DEF Verify
<1>2. ASSUME NEW v \in Verifiers, Gate(v) PROVE KeysAged'
  BY <1>2 DEF Gate, Ends, GateHeld
<1>3. ASSUME NEW v \in Verifiers, Read(v) PROVE KeysAged'
  BY <1>3 DEF Read
<1>4. ASSUME NEW v \in Verifiers, Store(v) PROVE KeysAged'
  BY <1>4 DEF Store, Ends, FetchEnds, GateHeld
<1>5. ASSUME NEW v \in Verifiers, FetchFails(v) PROVE KeysAged'
  BY <1>5 DEF FetchFails, Ends, FetchEnds, GateHeld
<1>6. CASE JwksTick
  BY <1>6 DEF JwksTick, Passes, GateHeld
<1>7. CASE Rotate
  BY <1>7 DEF Rotate
<1>8. CASE Outage \/ UNCHANGED jvars
  BY <1>8 DEF Outage, jvars
<1>9. QED
  BY <1>1, <1>2, <1>3, <1>4, <1>5, <1>6, <1>7, <1>8 DEF JwksNext

\* The holdoff follows the end of the last fetch.
LEMMA HoldKeptStep == JwksInv /\ [JwksNext]_jvars => HoldKept'
<1>. SUFFICES ASSUME JwksInv, [JwksNext]_jvars PROVE HoldKept'
  OBVIOUS
<1>. USE JwksAssumption DEF JwksInv, JwksTypeOK, HoldKept
<1>1. ASSUME NEW v \in Verifiers, NEW kid \in Keys \cup {NoKid}, Verify(v, kid) PROVE HoldKept'
  BY <1>1 DEF Verify
<1>2. ASSUME NEW v \in Verifiers, Gate(v) PROVE HoldKept'
  BY <1>2 DEF Gate
<1>3. ASSUME NEW v \in Verifiers, Read(v) PROVE HoldKept'
  BY <1>3 DEF Read, GateHeld
<1>4. ASSUME NEW v \in Verifiers, Store(v) PROVE HoldKept'
  BY <1>4 DEF Store, FetchEnds
<1>5. ASSUME NEW v \in Verifiers, FetchFails(v) PROVE HoldKept'
  BY <1>5 DEF FetchFails, FetchEnds
<1>6. CASE JwksTick
  BY <1>6 DEF JwksTick, Passes
<1>7. CASE Rotate \/ Outage \/ UNCHANGED jvars
  BY <1>7 DEF Rotate, Outage, jvars
<1>8. QED
  BY <1>1, <1>2, <1>3, <1>4, <1>5, <1>6, <1>7 DEF JwksNext

\* An answer that is too old is one that a failed fetch left standing.
LEMMA AnswersAgedStep == JwksInv /\ [JwksNext]_jvars => AnswersAged'
<1>. SUFFICES ASSUME JwksInv, [JwksNext]_jvars PROVE AnswersAged'
  OBVIOUS
<1>. USE JwksAssumption DEF JwksInv, JwksTypeOK, AnswersAged, GoneCap
<1>1. ASSUME NEW v \in Verifiers, NEW kid \in Keys \cup {NoKid}, Verify(v, kid) PROVE AnswersAged'
  BY <1>1, FreshAged DEF Verify
<1>2. ASSUME NEW v \in Verifiers, Gate(v) PROVE AnswersAged'
  <2>1. \A k \in freshKey(verify[v].kid) : gone[k] <= JwksTtl + FetchMax
    BY FreshAged
  <2>2. entry.hold > 0 =>
            \A k \in lookup(entry.keys, verify[v].kid) :
                gone[k] <= JwksTtl + FetchMax \/ (~since.ok /\ entry.hold > 0)
    BY LookupInSet DEF KeysAged, HoldKept
  <2>3. entry' = entry /\ since' = since /\ gone' = gone /\ \A w \in Verifiers : w # v => verify'[w] = verify[w]
    BY <1>2 DEF Gate, Ends
  <2>4. \/ verify'[v].res = freshKey(verify[v].kid)
        \/ entry.hold > 0 /\ verify'[v].res = lookup(entry.keys, verify[v].kid)
        \/ verify'[v].res = verify[v].res
    BY <1>2 DEF Gate, Ends
  <2>5. \A k \in verify'[v].res : gone[k] <= JwksTtl + FetchMax \/ (~since.ok /\ entry.hold > 0)
    BY <2>1, <2>2, <2>4
  <2>6. QED
    BY <2>3, <2>5
<1>3. ASSUME NEW v \in Verifiers, Read(v) PROVE AnswersAged'
  BY <1>3 DEF Read
<1>4. ASSUME NEW v \in Verifiers, Store(v) PROVE AnswersAged'
  <2>1. fetch.by = v /\ entry.hold = 0
    BY <1>4 DEF Store, GateHeld, HoldKept
  <2>2. \A k \in lookup(fetch.read, verify[v].kid) : gone[k] <= JwksTtl + FetchMax
    BY <1>4, LookupInSet DEF Store, KeysAged
  <2>3. QED
    BY <1>4, <2>1, <2>2 DEF Store, Ends, FetchEnds
<1>5. ASSUME NEW v \in Verifiers, FetchFails(v) PROVE AnswersAged'
  <2>1. fetch.by = v /\ entry.hold = 0
    BY <1>5 DEF FetchFails, GateHeld, HoldKept
  <2>2. since'.ok = FALSE /\ gone' = gone
    BY <1>5 DEF FetchFails, FetchEnds
  <2>3. \A w \in Verifiers : w # v => verify'[w] = verify[w]
    BY <1>5 DEF FetchFails, Ends
  <2>4. entry.cached => entry'.hold > 0
    BY <1>5 DEF FetchFails
  <2>5. ~entry.cached => verify'[v].res = {}
    BY <1>5, LookupInSet DEF FetchFails, Ends, HoldKept
  <2>6. QED
    BY <2>1, <2>2, <2>3, <2>4, <2>5
<1>6. CASE JwksTick
  BY <1>6 DEF JwksTick
<1>7. CASE Rotate
  BY <1>7 DEF Rotate
<1>8. CASE Outage \/ UNCHANGED jvars
  BY <1>8 DEF Outage, jvars
<1>9. QED
  BY <1>1, <1>2, <1>3, <1>4, <1>5, <1>6, <1>7, <1>8 DEF JwksNext

\* Every step of a verification keeps JwksInv.
LEMMA JwksStep == JwksInv /\ [JwksNext]_jvars => JwksInv'
  BY JwksTypeStep, GateStep, KeysAgedStep, HoldKeptStep, AnswersAgedStep DEF JwksInv

\* However verifications, rotations, outages and time interleave, a withdrawn
\* key stops verifying tokens within the ttl and a fetch, unless fetches fail
\* (jwksCache.key); and one fetch is out at a time.
THEOREM WithdrawnStopsCorrect == JwksSpec => []WithdrawnStops
<1>1. JwksInv => WithdrawnStops
  BY DEF JwksInv, WithdrawnStops, AnswersAged
<1>2. QED
  BY <1>1, JwksInitInv, JwksStep, PTL DEF JwksSpec

\* Fetches of a key set are at least the holdoff apart, except after a failed
\* one that left nothing to serve.
THEOREM FetchesSpacedCorrect == JwksSpec => FetchesSpaced
<1>1. JwksInv /\ [JwksNext]_jvars =>
        [\A v \in Verifiers : Gate(v) /\ fetch'.by = v /\ since.ticks < Holdoff
            => ~since.ok /\ ~entry.cached]_jvars
  BY JwksAssumption DEF JwksInv, JwksTypeOK, HoldKept, Gate, GateHeld
<1>2. QED
  BY <1>1, JwksInitInv, JwksStep, PTL DEF JwksSpec, FetchesSpaced
-----------------------------------------------------------------------------
(* Limits.                                                                 *)

\* h never counts more than the two windows of w account for, and no more than
\* Rpm in either of them.
Bounded(h, w) ==
    /\ \A s, t \in Minute : s <= t => h[s] <= h[t]
    /\ w.age < Window =>
          /\ h[w.age] <= w.cur /\ h[w.age] <= Rpm
          /\ h[Window - 1] <= h[w.age] + w.prev
          /\ h[Window - 1] <= h[w.age] + Rpm
          /\ w.prev > 0 => h[w.age] < Rpm
    /\ w.age >= Window /\ w.age < 2 * Window =>
          /\ h[w.age - Window] = 0
          /\ h[Window - 1] <= w.cur /\ h[Window - 1] <= Rpm
    /\ w.age = 2 * Window => h[Window - 1] = 0

\* Who has decided so far.
Deciders ==
    /\ backed = "memory" => hits["redis"][Window - 1] = 0
    /\ backed = "redis" => hits["memory"][Window - 1] = 0

\* A counter that is gone is one whose period is over by every clock.
Kept(p) ==
    /\ ledger[p].spent <= Allowance
    /\ ledger[p].used > 0 => /\ ledger[p].spent = ledger[p].used
                             /\ clock.now + ledger[p].ttl >= (p + 1) * Period
    /\ ledger[p].used = 0 /\ ledger[p].spent > 0 => clock.now >= (p + 1) * Period

LimitsInv ==
    /\ LimitsTypeOK
    /\ Bounded(hits["memory"], local) /\ Bounded(hits["redis"], shared) /\ Deciders
    /\ \A p \in Periods : Kept(p)

Counts == [Minute -> Nat]

\* The history counts every t of the minute.
LEMMA CountsTyped ==
    ASSUME NEW h \in Counts
    PROVE  \A t \in Int : t >= 0 /\ t <= Window - 1 => h[t] \in Nat /\ t \in Minute
BY LimitsAssumption DEF Counts, Minute

\* What a window of the limiter holds.
LEMMA WindowTyped ==
    ASSUME NEW w \in WindowType
    PROVE  /\ w.age \in Nat /\ w.age <= 2 * Window /\ w.cur \in Nat /\ w.prev \in Nat
           /\ w = [age |-> w.age, cur |-> w.cur, prev |-> w.prev]
BY LimitsAssumption DEF WindowType

\* Taking a window into the present loses no call of the last minute.
LEMMA ShiftedBounded ==
    ASSUME NEW h \in Counts, NEW w \in WindowType, Bounded(h, w)
    PROVE  Shifted(w) \in WindowType /\ Shifted(w).age < Window /\ Bounded(h, Shifted(w))
<1>. USE LimitsAssumption, CountsTyped, WindowTyped
<1>1. CASE w.age < Window
  BY <1>1 DEF Shifted
<1>2. CASE w.age = 2 * Window
  <2>1. Shifted(w) = [age |-> 0, cur |-> 0, prev |-> 0]
    BY <1>2 DEF Shifted
  <2>2. h[0] = 0 /\ h[Window - 1] = 0
    BY <1>2 DEF Bounded
  <2>3. QED
    BY <2>1, <2>2 DEF Bounded, WindowType
<1>3. CASE w.age >= Window /\ w.age < 2 * Window
  <2>1. Shifted(w) = [age |-> w.age - Window, cur |-> 0, prev |-> w.cur]
    BY <1>3 DEF Shifted
  <2>2. h[w.age - Window] = 0 /\ h[Window - 1] <= w.cur /\ h[Window - 1] <= Rpm
    BY <1>3 DEF Bounded
  <2>3. QED
    BY <1>3, <2>1, <2>2 DEF Bounded, WindowType
<1>4. QED
  BY <1>1, <1>2, <1>3

\* Nor does counting one more.
LEMMA CountedBounded ==
    ASSUME NEW h \in Counts, NEW w \in WindowType, w.age < Window, Bounded(h, w)
    PROVE  Counted(w) \in WindowType /\ Counted(w).age = w.age /\ Bounded(h, Counted(w))
<1>. USE LimitsAssumption, CountsTyped, WindowTyped
<1>1. Counted(w) = [age |-> w.age, cur |-> w.cur + 1, prev |-> w.prev]
  BY DEF Counted, WindowType
<1>2. QED
  BY <1>1 DEF Bounded, WindowType

\* A call that fits leaves room for itself in the current minute.
LEMMA FitsMeans ==
    ASSUME NEW w \in WindowType, w.age < Window, Fits(w)
    PROVE  w.cur + 1 <= Rpm /\ (w.prev > 0 => w.cur + 1 < Rpm)
<1>. DEFINE a == w.prev * (Window - w.age)
            b == (w.cur + 1) * Window
<1>1. w.prev \in Nat /\ w.cur \in Nat /\ Window - w.age \in Nat \ {0}
  BY LimitsAssumption DEF WindowType
<1>2. a \in Nat /\ (w.prev > 0 => a > 0)
  BY <1>1
<1>3. b <= Rpm * Window /\ (w.prev > 0 => b < Rpm * Window)
  BY <1>1, <1>2, LimitsAssumption DEF Fits
<1>4. QED
  BY <1>1, <1>3, LimitsAssumption

\* Admitting a call that fits stays within the bound.
LEMMA AdmittedBounded ==
    ASSUME NEW h \in Counts, NEW w \in WindowType, w.age < Window, Bounded(h, w), Fits(w)
    PROVE  Bounded([t \in Minute |-> h[t] + 1], Counted(w))
<1>. USE LimitsAssumption, CountsTyped, WindowTyped
<1>. DEFINE k == [t \in Minute |-> h[t] + 1]
<1>1. w.cur + 1 <= Rpm /\ (w.prev > 0 => w.cur + 1 < Rpm)
  BY FitsMeans
<1>2. Counted(w) = [age |-> w.age, cur |-> w.cur + 1, prev |-> w.prev]
  BY DEF Counted, WindowType
<1>3. \A t \in Minute : k[t] = h[t] + 1
  OBVIOUS
<1>4. w.age \in Minute /\ Window - 1 \in Minute
  OBVIOUS
<1>5. \A s, t \in Minute : s <= t => k[s] <= k[t]
  BY <1>3 DEF Bounded, Minute
<1>. HIDE DEF k
<1>6. QED
  BY <1>1, <1>2, <1>3, <1>4, <1>5 DEF Bounded

\* What was admitted grows with the time looked back.
LEMMA Rising ==
    ASSUME NEW h \in Counts, NEW w, Bounded(h, w), NEW s \in Minute, NEW t \in Minute, s <= t
    PROVE  h[s] <= h[t] /\ h[s] \in Nat
  BY DEF Bounded, Counts

\* So does the passing of time.
LEMMA TickBounded ==
    ASSUME NEW h \in Counts, NEW w \in WindowType, Bounded(h, w),
           NEW k, k = [t \in Minute |-> IF t = 0 THEN 0 ELSE h[t - 1]],
           NEW v,
           \/ w.age < 2 * Window /\ v = [age |-> w.age + 1, cur |-> w.cur, prev |-> w.prev]
           \/ w.age = 2 * Window /\ v = w
           \/ w.age = Window - 1 /\ v = [age |-> 0, cur |-> 0, prev |-> w.cur]
    PROVE  Bounded(k, v)
<1>. USE LimitsAssumption, CountsTyped, WindowTyped
<1>1. k[0] = 0 /\ \A t \in Minute : (t # 0 => k[t] = h[t - 1] /\ t - 1 \in Minute)
  <2>1. 0 \in Minute /\ \A t \in Minute : t # 0 => t - 1 \in Minute
    BY ONLY LimitsAssumption DEF LimitsAssumption, Minute
  <2>2. k = [t \in Minute |-> IF t = 0 THEN 0 ELSE h[t - 1]]
    OBVIOUS
  <2>3. QED
    BY ONLY <2>1, <2>2
<1>2. \A t \in Minute : k[t] \in Nat /\ k[t] <= h[t]
  <2>. SUFFICES ASSUME NEW t \in Minute PROVE k[t] \in Nat /\ k[t] <= h[t]
    OBVIOUS
  <2>1. t \in Nat /\ h[t] \in Nat
    BY DEF Minute
  <2>2. CASE t = 0
    BY <1>1, <2>1, <2>2
  <2>3. CASE t # 0
    <3>1. k[t] = h[t - 1] /\ t - 1 \in Minute /\ t - 1 <= t
      BY ONLY <1>1, <2>1, <2>3, t \in Minute
    <3>2. h[t - 1] <= h[t] /\ h[t - 1] \in Nat
      BY <3>1, Rising
    <3>3. QED
      BY ONLY <3>1, <3>2
  <2>4. QED
    BY <2>2, <2>3
<1>3. \A s, t \in Minute : s <= t => k[s] <= k[t]
  <2>. SUFFICES ASSUME NEW s \in Minute, NEW t \in Minute, s <= t PROVE k[s] <= k[t]
    OBVIOUS
  <2>1. CASE s = 0
    BY <1>1, <1>2, <2>1
  <2>2. CASE s # 0
    <3>1. s \in Int /\ t \in Int /\ s >= 0 /\ t >= 0
      BY DEF Minute
    <3>2. t # 0 /\ s - 1 <= t - 1
      BY ONLY <2>2, <3>1, s <= t
    <3>3. /\ k[s] = h[s - 1] /\ s - 1 \in Minute
          /\ k[t] = h[t - 1] /\ t - 1 \in Minute
      BY ONLY <1>1, <2>2, <3>2, s \in Minute, t \in Minute
    <3>4. h[s - 1] <= h[t - 1]
      BY <3>2, <3>3, Rising
    <3>5. QED
      BY ONLY <3>3, <3>4
  <2>3. QED
    BY <2>1, <2>2
<1>4. Window - 1 \in Minute /\ 0 \in Minute /\ k[Window - 1] <= h[Window - 1]
  BY <1>2
<1>5. CASE w.age < Window /\ v = [age |-> w.age + 1, cur |-> w.cur, prev |-> w.prev]
  <2>1. CASE w.age + 1 < Window
    <3>1. k[w.age + 1] = h[w.age] /\ w.age + 1 \in Minute /\ w.age \in Minute
      BY <1>1, <2>1
    <3>2. QED
      BY <1>3, <1>4, <1>5, <2>1, <3>1 DEF Bounded
  <2>2. CASE w.age = Window - 1
    BY <1>1, <1>3, <1>4, <1>5, <2>2 DEF Bounded
  <2>3. QED
    BY <1>5, <2>1, <2>2
<1>6. CASE w.age >= Window /\ w.age < 2 * Window /\ v = [age |-> w.age + 1, cur |-> w.cur, prev |-> w.prev]
  <2>1. h[w.age - Window] = 0 /\ h[Window - 1] <= w.cur /\ h[Window - 1] <= Rpm /\ w.age - Window \in Minute
    BY <1>6 DEF Bounded
  <2>2. CASE w.age + 1 = 2 * Window
    BY <1>2, <1>3, <1>4, <1>6, <2>1, <2>2 DEF Bounded
  <2>3. CASE w.age + 1 < 2 * Window
    <3>1. w.age + 1 - Window \in Minute /\ k[w.age + 1 - Window] = h[w.age - Window]
      BY <1>1, <1>6, <2>3
    <3>2. QED
      BY <1>3, <1>4, <1>6, <2>1, <2>3, <3>1 DEF Bounded
  <2>4. QED
    BY <1>6, <2>2, <2>3
<1>7. CASE w.age = 2 * Window /\ v = w
  BY <1>2, <1>3, <1>4, <1>7 DEF Bounded
<1>8. CASE w.age = Window - 1 /\ v = [age |-> 0, cur |-> 0, prev |-> w.cur]
  BY <1>1, <1>3, <1>4, <1>8 DEF Bounded
<1>9. QED
  BY <1>5, <1>6, <1>7, <1>8

\* The period that an instant falls in.
LEMMA Quotient ==
    ASSUME NEW n \in Nat
    PROVE  /\ n \div Period \in Nat
           /\ (n \div Period) * Period <= n
           /\ n < (n \div Period + 1) * Period
BY LimitsAssumption

\* The period a gateway charges is the one of its own clock.
LEMMA KeyInRange ==
    ASSUME LimitsTypeOK, NEW g \in Gateways
    PROVE  /\ Key(g) \in Periods /\ Time(g) \in Nat /\ clock.now <= Time(g)
           /\ Time(g) <= clock.now + Slack
           /\ Time(g) < (Key(g) + 1) * Period
<1>1. Time(g) \in Nat /\ clock.now <= Time(g) /\ Time(g) <= clock.now + Slack /\ Time(g) <= TimeCap + Skew
  BY LimitsAssumption DEF LimitsTypeOK, Time
<1>. DEFINE M == TimeCap + Skew
            k == Time(g) \div Period
            K == M \div Period
<1>2. M \in Nat
  BY LimitsAssumption
<1>3. k \in Nat /\ k * Period <= Time(g) /\ Time(g) < (k + 1) * Period
  BY <1>1, Quotient
<1>4. K \in Nat /\ M < (K + 1) * Period
  BY <1>2, Quotient
<1>5. k * Period < (K + 1) * Period
  BY <1>1, <1>2, <1>3, <1>4, LimitsAssumption
<1>6. k < K + 1
  <2>. HIDE DEF k, K
  <2>1. SUFFICES ASSUME k >= K + 1 PROVE FALSE
    BY <1>3, <1>4
  <2>2. k * Period >= (K + 1) * Period
    BY <1>3, <1>4, <2>1, LimitsAssumption
  <2>3. QED
    BY <1>3, <1>4, <1>5, <2>2, LimitsAssumption
<1>7. QED
  BY <1>1, <1>3, <1>4, <1>6 DEF Key, Periods

\* The limiters and budgets start with LimitsInv.
LEMMA LimitsInitially == LimitsInit => LimitsInv
<1>. SUFFICES ASSUME LimitsInit PROVE LimitsInv
  OBVIOUS
<1>. USE LimitsAssumption
<1>1. LimitsTypeOK
  <2>1. ledger \in [Periods -> EntryType]
    BY DEF LimitsInit, EntryType
  <2>2. QED
    BY <2>1 DEF LimitsInit, LimitsTypeOK, WindowType, Meters, Minute
<1>2. Bounded(hits["memory"], local) /\ Bounded(hits["redis"], shared) /\ Deciders
  BY DEF LimitsInit, Bounded, Deciders, Meters, Minute
<1>3. \A p \in Periods : Kept(p)
  BY DEF LimitsInit, Kept
<1>4. QED
  BY <1>1, <1>2, <1>3 DEF LimitsInv

\* Every step of the limiters and of the budgets keeps LimitsInv.
LEMMA LimitsStep == LimitsInv /\ [LimiterNext \/ BudgetNext]_<<lvars, bvars>> => LimitsInv'
<1>. SUFFICES ASSUME LimitsInv, [LimiterNext \/ BudgetNext]_<<lvars, bvars>> PROVE LimitsInv'
  OBVIOUS
<1>. USE LimitsAssumption
<1>0. /\ hits["memory"] \in Counts /\ hits["redis"] \in Counts
      /\ local \in WindowType /\ shared \in WindowType /\ shared.age < Window
      /\ \A p \in Periods : ledger[p] \in EntryType
  BY DEF LimitsInv, LimitsTypeOK, Counts, Meters
<1>1. CASE Request
  <2>. DEFINE s == Shifted(local)
              up(h) == [t \in Minute |-> h[t] + 1]
  <2>1. s \in WindowType /\ s.age < Window /\ Bounded(hits["memory"], s)
    BY <1>0, ShiftedBounded DEF LimitsInv
  <2>. HIDE DEF s
  <2>2. PICK answers \in BOOLEAN :
           /\ answers => backed # "memory" /\ shared.cur < CountCap
           /\ ~answers => backed # "redis"
           /\ shared' = IF answers THEN Counted(shared) ELSE shared
           /\ hits' = IF Fits(IF answers THEN shared ELSE s)
                      THEN [hits EXCEPT ![IF answers THEN "redis" ELSE "memory"] =
                                            [t \in Minute |-> @[t] + 1]]
                      ELSE hits
    BY <1>1, Zenon DEF Request, s
  <2>3. local' = IF Fits(s) THEN Counted(s) ELSE s
    BY <1>1, Zenon DEF Request, LocalAllow, s
  <2>4. UNCHANGED <<backed, clock, ledger>>
    BY <1>1 DEF Request, bvars
  <2>5. local' \in WindowType /\ Bounded(hits["memory"], local')
    BY <1>0, <2>1, <2>3, CountedBounded
  <2>6. shared' \in WindowType /\ shared'.age < Window /\ Bounded(hits["redis"], shared')
    BY <1>0, <2>2, CountedBounded DEF LimitsInv
  <2>7. /\ hits' \in [Meters -> Counts]
        /\ hits'["memory"] = IF ~answers /\ Fits(s) THEN up(hits["memory"]) ELSE hits["memory"]
        /\ hits'["redis"] = IF answers /\ Fits(shared) THEN up(hits["redis"]) ELSE hits["redis"]
    <3>1. hits \in [Meters -> Counts] /\ \A m \in Meters : up(hits[m]) \in Counts
      BY DEF LimitsInv, LimitsTypeOK, Counts
    <3>2. CASE answers
      <4>1. hits' = IF Fits(shared) THEN [hits EXCEPT !["redis"] = up(hits["redis"])] ELSE hits
        BY <2>2, <3>2, Zenon
      <4>. HIDE DEF up
      <4>2. QED
        BY <3>1, <3>2, <4>1 DEF Meters
    <3>3. CASE ~answers
      <4>1. hits' = IF Fits(s) THEN [hits EXCEPT !["memory"] = up(hits["memory"])] ELSE hits
        BY <2>2, <3>3, Zenon
      <4>. HIDE DEF up
      <4>2. QED
        BY <3>1, <3>3, <4>1 DEF Meters
    <3>4. QED
      BY <3>2, <3>3
  <2>8. Bounded(hits'["memory"], local')
    <3>1. CASE ~answers /\ Fits(s)
      <4>1. hits'["memory"] = up(hits["memory"]) /\ local' = Counted(s)
        BY <2>3, <2>7, <3>1
      <4>2. QED
        BY <1>0, <2>1, <3>1, <4>1, AdmittedBounded
    <3>2. CASE ~(~answers /\ Fits(s))
      BY <2>5, <2>7, <3>2
    <3>3. QED
      BY <3>1, <3>2
  <2>9. Bounded(hits'["redis"], shared')
    <3>1. CASE answers /\ Fits(shared)
      <4>1. hits'["redis"] = up(hits["redis"]) /\ shared' = Counted(shared)
        BY <2>2, <2>7, <3>1
      <4>2. Bounded(hits["redis"], shared)
        BY DEF LimitsInv
      <4>3. QED
        BY <1>0, <3>1, <4>1, <4>2, AdmittedBounded
    <3>2. CASE ~(answers /\ Fits(shared))
      BY <2>6, <2>7, <3>2
    <3>3. QED
      BY <3>1, <3>2
  <2>10. Deciders'
    BY <2>2, <2>4, <2>7, Zenon DEF LimitsInv, Deciders
  <2>11. QED
    BY <2>4, <2>5, <2>6, <2>7, <2>8, <2>9, <2>10 DEF LimitsInv, LimitsTypeOK, Kept, Counts
<1>2. CASE LoseRedis
  BY <1>2 DEF LoseRedis, LimitsInv, LimitsTypeOK, Deciders, Kept, bvars
<1>3. CASE Second
  <2>. DEFINE down(h) == [t \in Minute |-> IF t = 0 THEN 0 ELSE h[t - 1]]
  <2>1. UNCHANGED <<backed, clock, ledger>>
    BY <1>3 DEF Second, bvars
  <2>2. hits'["memory"] = down(hits["memory"]) /\ hits'["redis"] = down(hits["redis"])
    BY <1>3 DEF Second, Meters
  <2>3. \A h \in Counts : down(h) \in Counts
    BY DEF Counts, Minute
  <2>4. hits' \in [Meters -> Counts]
    <3>1. hits' = [m \in Meters |-> down(hits[m])]
      BY <1>3 DEF Second
    <3>2. \A m \in Meters : hits[m] \in Counts
      BY DEF LimitsInv, LimitsTypeOK, Counts
    <3>. HIDE DEF down
    <3>3. QED
      BY <2>3, <3>1, <3>2
  <2>5. local' \in WindowType /\ Bounded(hits'["memory"], local')
    <3>1. local' = IF local.age < 2 * Window THEN [age |-> local.age + 1, cur |-> local.cur, prev |-> local.prev] ELSE local
      BY <1>0, <1>3 DEF Second, WindowType
    <3>2. local' \in WindowType
      BY <1>0, <3>1 DEF WindowType
    <3>3. Bounded(hits["memory"], local)
      BY DEF LimitsInv
    <3>4. local.age < 2 * Window \/ local.age = 2 * Window
      BY <1>0 DEF WindowType
    <3>5. QED
      BY <1>0, <2>2, <3>1, <3>2, <3>3, <3>4, TickBounded
  <2>6. shared' \in WindowType /\ shared'.age < Window /\ Bounded(hits'["redis"], shared')
    <3>1. shared' = IF shared.age = Window - 1 THEN [age |-> 0, cur |-> 0, prev |-> shared.cur]
                    ELSE [age |-> shared.age + 1, cur |-> shared.cur, prev |-> shared.prev]
      BY <1>0, <1>3 DEF Second, WindowType
    <3>2. shared' \in WindowType /\ shared'.age < Window
      BY <1>0, <3>1 DEF WindowType
    <3>3. Bounded(hits["redis"], shared) /\ shared.age < 2 * Window
      BY <1>0 DEF LimitsInv, WindowType
    <3>5. QED
      BY <1>0, <2>2, <3>1, <3>2, <3>3, TickBounded
  <2>7. Deciders'
    <3>1. \A m \in Meters : hits[m][Window - 1] = 0 => hits'[m][Window - 1] = 0
      <4>. SUFFICES ASSUME NEW m \in Meters, hits[m][Window - 1] = 0 PROVE hits'[m][Window - 1] = 0
        OBVIOUS
      <4>1. hits[m] \in Counts /\ \A s, t \in Minute : s <= t => hits[m][s] <= hits[m][t]
        BY <1>0 DEF Meters, LimitsInv, Bounded
      <4>2. hits'[m][Window - 1] = IF Window - 1 = 0 THEN 0 ELSE hits[m][Window - 2]
        BY <1>3 DEF Second, Minute
      <4>3. Window - 1 # 0 => hits[m][Window - 2] <= hits[m][Window - 1] /\ hits[m][Window - 2] \in Nat
        BY <4>1, CountsTyped
      <4>4. QED
        BY <4>2, <4>3
    <3>2. QED
      BY <2>1, <3>1 DEF Deciders, LimitsInv, Meters
  <2>8. QED
    BY <2>1, <2>4, <2>5, <2>6, <2>7 DEF LimitsInv, LimitsTypeOK, Kept, Counts
<1>4. ASSUME NEW g \in Gateways, Add(g) PROVE LimitsInv'
  <2>. DEFINE k == ledger[Key(g)]
              n == [used |-> k.used + 1, ttl |-> IF k.used = 0 THEN Ttl(g) ELSE k.ttl,
                    spent |-> k.spent + 1, own |-> k.own]
  <2>1. /\ Key(g) \in Periods /\ Time(g) \in Nat /\ clock.now <= Time(g)
        /\ Time(g) <= clock.now + Slack /\ Time(g) < (Key(g) + 1) * Period
    BY KeyInRange DEF LimitsInv
  <2>2. k \in EntryType /\ Kept(Key(g))
    BY <1>0, <2>1 DEF LimitsInv
  <2>3. k.used + 1 <= Allowance /\ UNCHANGED <<clock, lvars>>
    BY <1>4 DEF Add
  <2>4. ledger' = [ledger EXCEPT ![Key(g)] = n]
    BY <1>4 DEF Add
  <2>5. Key(g) \in Nat /\ clock.now \in Nat
    BY <2>1 DEF Periods, LimitsInv, LimitsTypeOK
  <2>. DEFINE e == (Key(g) + 1) * Period
  <2>6. e \in Nat
    BY <2>5
  <2>7. Ttl(g) = e - Time(g) + Slack
    BY DEF Ttl
  <2>8. Ttl(g) \in Nat /\ clock.now + Ttl(g) >= e /\ clock.now < e
    <3>. HIDE DEF e
    <3>1. QED
      BY <2>1, <2>5, <2>6, <2>7 DEF e
  <2>9. /\ n \in EntryType
        /\ n.spent = n.used /\ n.spent <= Allowance
        /\ clock.now + n.ttl >= e
    <3>1. /\ k.used \in Nat /\ k.spent \in Nat /\ k.ttl \in Nat /\ k.own \in [Gateways -> 0..Allowance]
      BY <2>2 DEF EntryType
    <3>2. k.spent = k.used /\ (k.used # 0 => clock.now + k.ttl >= e)
      <4>. HIDE DEF e
      <4>1. QED
        BY <2>2, <2>5, <2>8, <3>1 DEF Kept, e
    <3>. HIDE DEF e, k
    <3>3. QED
      BY <2>3, <2>5, <2>8, <3>1, <3>2 DEF EntryType
  <2>. HIDE DEF n, k
  <2>10. ledger' \in [Periods -> EntryType]
    BY <2>1, <2>4, <2>9 DEF LimitsInv, LimitsTypeOK
  <2>11. ASSUME NEW p \in Periods PROVE Kept(p)'
    <3>1. CASE p = Key(g)
      <4>1. ledger'[p] = n
        BY <2>1, <2>4, <3>1 DEF LimitsInv, LimitsTypeOK
      <4>2. n.used > 0
        BY <2>2 DEF n, EntryType
      <4>3. QED
        BY <2>3, <2>9, <3>1, <4>1, <4>2 DEF Kept
    <3>2. CASE p # Key(g)
      <4>1. ledger'[p] = ledger[p] /\ Kept(p)
        BY <2>4, <3>2 DEF LimitsInv, LimitsTypeOK
      <4>2. QED
        BY <2>3, <4>1 DEF Kept
    <3>3. QED
      BY <3>1, <3>2
  <2>12. QED
    BY <2>3, <2>10, <2>11 DEF LimitsInv, LimitsTypeOK, Deciders, Bounded, lvars
<1>5. ASSUME NEW g \in Gateways, AddDegraded(g) PROVE LimitsInv'
  <2>. DEFINE k == ledger[Key(g)]
              n == [used |-> k.used, ttl |-> k.ttl, spent |-> k.spent, own |-> [k.own EXCEPT ![g] = @ + 1]]
  <2>1. Key(g) \in Periods
    BY KeyInRange DEF LimitsInv
  <2>2. k \in EntryType
    BY <1>0, <2>1
  <2>3. k.own[g] + 1 <= Allowance /\ UNCHANGED <<clock, lvars>>
    BY <1>5 DEF AddDegraded
  <2>4. ledger' = [ledger EXCEPT ![Key(g)] = n] /\ n \in EntryType
    <3>1. ledger' = [ledger EXCEPT ![Key(g)] = [k EXCEPT !.own = [k.own EXCEPT ![g] = @ + 1]]]
      BY <1>5, <2>1 DEF AddDegraded, LimitsInv, LimitsTypeOK
    <3>. HIDE DEF k
    <3>2. [k EXCEPT !.own = [k.own EXCEPT ![g] = @ + 1]] = n
      BY <2>2 DEF EntryType
    <3>3. n \in EntryType
      BY <2>2, <2>3 DEF EntryType
    <3>4. QED
      BY <3>1, <3>2, <3>3, Zenon
  <2>5. ASSUME NEW p \in Periods PROVE Kept(p)'
    <3>1. ledger'[p].used = ledger[p].used /\ ledger'[p].ttl = ledger[p].ttl /\ ledger'[p].spent = ledger[p].spent
      BY <2>4 DEF LimitsInv, LimitsTypeOK
    <3>2. Kept(p)
      BY DEF LimitsInv
    <3>3. QED
      BY <2>3, <3>1, <3>2 DEF Kept
  <2>. HIDE DEF n, k
  <2>6. QED
    BY <2>3, <2>4, <2>5, ZenonT(30) DEF LimitsInv, LimitsTypeOK, Deciders, Bounded, lvars
<1>6. CASE Elapse
  <2>1. UNCHANGED lvars /\ clock.now < TimeCap /\ clock' = [clock EXCEPT !.now = @ + 1]
    BY <1>6 DEF Elapse
  <2>2. clock' \in [now : 0..TimeCap, ahead : [Gateways -> 0..Skew]] /\ clock'.now = clock.now + 1 /\ clock.now \in Nat
    <3>1. clock \in [now : 0..TimeCap, ahead : [Gateways -> 0..Skew]]
      BY DEF LimitsInv, LimitsTypeOK
    <3>2. clock' = [now |-> clock.now + 1, ahead |-> clock.ahead]
      BY <2>1, <3>1
    <3>3. QED
      BY <2>1, <3>1, <3>2
  <2>. DEFINE f(e) == IF e.ttl <= 1 THEN [used |-> 0, ttl |-> 0, spent |-> e.spent, own |-> e.own]
                      ELSE [used |-> e.used, ttl |-> e.ttl - 1, spent |-> e.spent, own |-> e.own]
  <2>4. \A e \in EntryType : f(e) \in EntryType
    BY DEF EntryType
  <2>5. \A p \in Periods : ledger'[p] = f(ledger[p])
    BY <1>6 DEF Elapse
  <2>6. ledger' \in [Periods -> EntryType]
    <3>1. ledger' = [p \in Periods |-> ledger'[p]]
      BY <1>6 DEF Elapse
    <3>. HIDE DEF f
    <3>2. QED
      BY <1>0, <2>4, <2>5, <3>1
  <2>7. ASSUME NEW p \in Periods PROVE Kept(p)'
    <3>. DEFINE e == (p + 1) * Period
    <3>1. e \in Nat
      BY DEF Periods
    <3>2. Kept(p) /\ ledger[p] \in EntryType
      BY <1>0 DEF LimitsInv
    <3>3. ledger[p].used \in Nat /\ ledger[p].ttl \in Nat /\ ledger[p].spent \in Nat
      BY <3>2 DEF EntryType
    <3>4. ledger'[p] = f(ledger[p])
      BY <2>5
    <3>5. /\ ledger'[p].spent = ledger[p].spent
          /\ ledger[p].ttl <= 1 => ledger'[p].used = 0
          /\ ledger[p].ttl > 1 => ledger'[p].used = ledger[p].used /\ ledger'[p].ttl = ledger[p].ttl - 1
      BY <3>3, <3>4
    <3>6. /\ ledger[p].used > 0 => ledger[p].spent = ledger[p].used /\ clock.now + ledger[p].ttl >= e
          /\ ledger[p].used = 0 /\ ledger[p].spent > 0 => clock.now >= e
          /\ ledger[p].spent <= Allowance
      BY <3>2 DEF Kept
    <3>7. SUFFICES /\ ledger'[p].used > 0 => ledger'[p].spent = ledger'[p].used /\ clock'.now + ledger'[p].ttl >= e
                   /\ ledger'[p].used = 0 /\ ledger'[p].spent > 0 => clock'.now >= e
                   /\ ledger'[p].spent <= Allowance
      BY DEF Kept
    <3>. HIDE DEF e, f
    <3>8. QED
      BY <2>2, <3>1, <3>3, <3>5, <3>6
  <2>8. QED
    BY <2>1, <2>2, <2>6, <2>7 DEF LimitsInv, LimitsTypeOK, Deciders, Bounded, lvars
<1>7. CASE UNCHANGED <<lvars, bvars>>
  BY <1>7 DEF LimitsInv, LimitsTypeOK, Deciders, Bounded, Kept, lvars, bvars
<1>8. QED
  BY <1>1, <1>2, <1>3, <1>4, <1>5, <1>6, <1>7 DEF LimiterNext, BudgetNext

\* The limiters and the budget admit no more than LimitsHold says, for every
\* window, limit, period and number of instances.
THEOREM LimitsHoldCorrect == LimitsSpec => []LimitsHold
<1>1. LimitsInv => LimitsHold
  <2>. SUFFICES ASSUME LimitsInv PROVE LimitsHold
    OBVIOUS
  <2>1. SpentOnce
    BY DEF LimitsInv, SpentOnce, Kept
  <2>2. ASSUME NEW h \in Counts, NEW w \in WindowType, Bounded(h, w) PROVE h[Window - 1] \in Nat /\ h[Window - 1] < 2 * Rpm
    <3>1. h[Window - 1] \in Nat /\ (w.age < Window => h[w.age] \in Nat)
      BY CountsTyped, WindowTyped, LimitsAssumption
    <3>2. QED
      BY <2>2, <3>1, WindowTyped, LimitsAssumption DEF Bounded
  <2>3. RollingBound
    <3>1. /\ hits["memory"][Window - 1] \in Nat /\ hits["memory"][Window - 1] < 2 * Rpm
          /\ hits["redis"][Window - 1] \in Nat /\ hits["redis"][Window - 1] < 2 * Rpm
      <4>1. hits["memory"] \in Counts /\ hits["redis"] \in Counts
        BY DEF LimitsInv, LimitsTypeOK, Counts, Meters
      <4>2. QED
        BY <2>2, <4>1 DEF LimitsInv, LimitsTypeOK
    <3>2. backed \in {"memory", "redis", "lost"} /\ Deciders
      BY DEF LimitsInv, LimitsTypeOK
    <3>3. QED
      BY <3>1, <3>2, LimitsAssumption DEF RollingBound, Deciders
  <2>4. QED
    BY <2>1, <2>3 DEF LimitsHold, LimitsInv
<1>2. QED
  BY <1>1, LimitsInitially, LimitsStep, PTL DEF LimitsSpec
=============================================================================
