------------------------------- MODULE MCGuard -------------------------------
(***************************************************************************)
(* What stands between a request and an upstream, for TLC: one behaviour   *)
(* exercises one part and leaves the state of the others as it began.      *)
(*    "guard":    guardedDo with the breaker and budgets of one process;   *)
(*    "fleet":    the circuit breaker in Redis;                            *)
(*    "limiter":  the rate limiter, in process or in Redis;                *)
(*    "budget":   the budget in Redis;                                     *)
(*    "keys":     verification of tokens and the cached key set.           *)
(***************************************************************************)
EXTENDS Guard, RedisBreaker, Limits, Jwks

CONSTANT Parts

VARIABLE part

all == <<vars, rbVars, lvars, bvars, jvars, part>>

\* The tenant's allowance runs out first.
Scarce == [i \in Budgets |-> IF i = 2 THEN 1 ELSE 2]

MCInit ==
    /\ part \in Parts
    /\ Init /\ RedisBreakerInit /\ LimitsInit /\ JwksInit
    /\ part # "limiter" => backed = "redis" /\ shared.age = 0
    /\ part # "budget" => clock.ahead = [g \in Gateways |-> 0]
    /\ part # "keys" => idp.keys = Keys

\* The clock of a budget's behaviour has reached its bound.
TimeIsUp == clock.now = TimeCap /\ UNCHANGED <<lvars, bvars>>

MCNext ==
    /\ \/ part = "guard" /\ Next /\ UNCHANGED <<rbVars, lvars, bvars, jvars>>
       \/ part = "fleet" /\ RedisBreakerNext /\ UNCHANGED <<vars, lvars, bvars, jvars>>
       \/ part = "limiter" /\ LimiterNext /\ UNCHANGED <<vars, rbVars, jvars>>
       \/ part = "budget" /\ (BudgetNext \/ TimeIsUp) /\ UNCHANGED <<vars, rbVars, jvars>>
       \/ part = "keys" /\ JwksNext /\ UNCHANGED <<vars, rbVars, lvars, bvars>>
    /\ UNCHANGED part

\* Fairness of Guard; and of the fleet: requests keep coming and reach their
\* outcome, and time passes.
MCFairness ==
    /\ \A c \in Callers : /\ WF_vars(part = "guard" /\ Step(c))
                          /\ WF_vars(part = "guard" /\ WithinRate(c))
    /\ WF_vars(part = "guard" /\ Clock)
    /\ \A i \in Instances : WF_rbVars(part = "fleet" /\ FleetStep(i))
    /\ WF_rbVars(part = "fleet" /\ FleetTick)

MCSpec == MCInit /\ [][MCNext]_all /\ MCFairness
-----------------------------------------------------------------------------
\* Recovers of Guard and FleetRecovers of RedisBreaker: once faults stop, the
\* circuit of a process and that of a fleet close for good (breaker.go,
\* redisBreaker).
MCRecovers ==
    /\ part = "guard" => Recovers
    /\ part = "fleet" => FleetRecovers
=============================================================================
