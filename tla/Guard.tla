-------------------------------- MODULE Guard --------------------------------
(***************************************************************************)
(* Every call to an upstream passes upstream.guardedDo: rate limiter,      *)
(* circuit breaker, session, budgets, then the call itself, whose outcome  *)
(* is recorded at the breaker.  Each guard takes its own lock, so calls    *)
(* interleave between any two of them; one action is one critical section. *)
(*                                                                         *)
(* The limiter is a free choice here (it has no effect on later guards).   *)
(* faults is the environment: while it is TRUE connects and calls may fail *)
(* (upstream down, timeouts, callers that cancel); a call that returns a   *)
(* JSON-RPC error counts as a success, as in the code.                     *)
(***************************************************************************)
EXTENDS Breaker

CONSTANTS Callers,  \* concurrent requests for this upstream
          Limit     \* Limit[b]: allowance of budget b, 0 when unlimited

\* The budgets in the order chargeBudgets charges them, narrowest first:
\* 1 the upstream's, 2 the tenant's, 3 the server's.
Budgets == 1..3

ASSUME GuardAssumption == Limit \in [Budgets -> Nat]

VARIABLES pc,       \* where each caller is in guardedDo
          next,     \* the budget a charging caller adds to next
          outcome,  \* how the caller's last attempt ended (observe)
          probe,    \* history: the breaker admitted the caller as its probe
          charged,  \* history: the budgets this attempt has consumed from
          used,     \* memBudget.used of each budget in its current window
          faults,   \* environment
          leaked    \* history: a budget has refused the breaker's probe

callVars == <<pc, next, outcome, probe, charged>>
env == <<faults, leaked>>
vars == <<brkVars, callVars, used, env>>

PC == {"idle", "breaker", "acquire", "charge", "call"}
Outcomes == {"none", "ok", "error", "rate_limited", "circuit_open",
             "connect_error", "budget_exhausted"}

TypeOK ==
    /\ BreakerTypeOK
    /\ pc \in [Callers -> PC]
    /\ next \in [Callers -> Budgets]
    /\ outcome \in [Callers -> Outcomes]
    /\ probe \in [Callers -> BOOLEAN]
    /\ charged \in [Callers -> SUBSET Budgets]
    /\ used \in [Budgets -> Nat]
    /\ faults \in BOOLEAN
    /\ leaked \in BOOLEAN

Init ==
    /\ New
    /\ pc = [c \in Callers |-> "idle"]
    /\ next = [c \in Callers |-> 1]
    /\ outcome = [c \in Callers |-> "none"]
    /\ probe = [c \in Callers |-> FALSE]
    /\ charged = [c \in Callers |-> {}]
    /\ used = [b \in Budgets |-> 0]
    /\ faults = FALSE
    /\ leaked = FALSE

\* Ends an attempt of caller c.
Return(c, result) ==
    /\ pc' = [pc EXCEPT ![c] = "idle"]
    /\ outcome' = [outcome EXCEPT ![c] = result]
    /\ probe' = [probe EXCEPT ![c] = FALSE]

RateLimited(c) ==
    /\ pc[c] = "idle"
    /\ outcome[c] # "rate_limited"
    /\ Return(c, "rate_limited")
    /\ charged' = [charged EXCEPT ![c] = {}]
    /\ UNCHANGED <<brkVars, next, used, env>>

WithinRate(c) ==
    /\ pc[c] = "idle"
    /\ pc' = [pc EXCEPT ![c] = "breaker"]
    /\ outcome' = [outcome EXCEPT ![c] = "none"]
    /\ charged' = [charged EXCEPT ![c] = {}]
    /\ UNCHANGED <<brkVars, next, probe, used, env>>

CircuitOpen(c) ==
    /\ pc[c] = "breaker"
    /\ ~Allowed
    /\ Return(c, "circuit_open")
    /\ UNCHANGED <<brkVars, next, charged, used, env>>

Allow(c) ==
    /\ pc[c] = "breaker"
    /\ Admit
    /\ pc' = [pc EXCEPT ![c] = "acquire"]
    /\ probe' = [probe EXCEPT ![c] = state # "closed"]
    /\ UNCHANGED <<next, outcome, charged, used, env>>

\* Mutant of ConnectError: a failed connect is not recorded.
ConnectErrorUnrecorded(c) ==
    /\ pc[c] = "acquire"
    /\ faults
    /\ Return(c, "connect_error")
    /\ UNCHANGED <<brkVars, next, charged, used, env>>

ConnectError(c) ==
    /\ pc[c] = "acquire"
    /\ faults
    /\ RecordFailure
    /\ Return(c, "connect_error")
    /\ UNCHANGED <<next, charged, used, env>>

\* Mutant of Acquire: charging starts at the tenant's budget.
AcquireSkipsUpstream(c) ==
    /\ pc[c] = "acquire"
    /\ pc' = [pc EXCEPT ![c] = "charge"]
    /\ next' = [next EXCEPT ![c] = 2]
    /\ UNCHANGED <<brkVars, outcome, probe, charged, used, env>>

Acquire(c) ==
    /\ pc[c] = "acquire"
    /\ pc' = [pc EXCEPT ![c] = "charge"]
    /\ next' = [next EXCEPT ![c] = 1]
    /\ UNCHANGED <<brkVars, outcome, probe, charged, used, env>>

\* Budget.Add(ctx, 1) would be refused; a refused Add records nothing.
Exhausted(b) == Limit[b] > 0 /\ used[b] + 1 > Limit[b]

\* One Budget.Add of chargeBudgets.  After the last one the call is made.
Charge(c) ==
    LET b == next[c] IN
    /\ pc[c] = "charge"
    /\ ~Exhausted(b)
    /\ used' = [used EXCEPT ![b] = IF Limit[b] > 0 THEN @ + 1 ELSE @]
    /\ charged' = [charged EXCEPT ![c] = @ \cup {b}]
    /\ IF b = 3
       THEN /\ pc' = [pc EXCEPT ![c] = "call"]
            /\ UNCHANGED next
       ELSE /\ next' = [next EXCEPT ![c] = b + 1]
            /\ UNCHANGED pc
    /\ UNCHANGED <<brkVars, outcome, probe, env>>

\* chargeBudgets refuses: guardedDo returns at once, nothing is recorded at
\* the breaker and nothing already added is given back.
BudgetExhausted(c) ==
    /\ pc[c] = "charge"
    /\ Exhausted(next[c])
    /\ Return(c, "budget_exhausted")
    /\ leaked' = (leaked \/ probe[c])
    /\ UNCHANGED <<brkVars, next, charged, used, faults>>

Succeed(c) ==
    /\ pc[c] = "call"
    /\ RecordSuccess
    /\ Return(c, "ok")
    /\ UNCHANGED <<next, charged, used, env>>

Fail(c) ==
    /\ pc[c] = "call"
    /\ faults
    /\ RecordFailure
    /\ Return(c, "error")
    /\ UNCHANGED <<next, charged, used, env>>

\* memBudget.roll: the calendar window of b ends.
Roll(b) ==
    /\ used[b] > 0
    /\ used' = [used EXCEPT ![b] = 0]
    /\ UNCHANGED <<brkVars, callVars, env>>

Clock == Tick /\ UNCHANGED <<callVars, used, env>>

Environment ==
    /\ faults' = ~faults
    /\ UNCHANGED <<brkVars, callVars, used, leaked>>

Step(c) ==
    \/ CircuitOpen(c) \/ Allow(c) \/ ConnectError(c) \/ Acquire(c)
    \/ Charge(c) \/ BudgetExhausted(c) \/ Succeed(c) \/ Fail(c)

Next ==
    \/ \E c \in Callers : RateLimited(c) \/ WithinRate(c) \/ Step(c)
    \/ \E b \in Budgets : Roll(b)
    \/ Clock
    \/ Environment

Spec == Init /\ [][Next]_vars

\* A request in progress is carried to its end, the clock advances and
\* clients keep sending requests.
Fairness ==
    /\ \A c \in Callers : WF_vars(Step(c)) /\ WF_vars(WithinRate(c))
    /\ WF_vars(Clock)

FairSpec == Spec /\ Fairness
-----------------------------------------------------------------------------
\* The circuit is away from closed exactly while the run of failures since
\* the last success has reached the threshold, whatever calls admitted
\* earlier report meanwhile (Record).
TripIffThreshold == state # "closed" <=> failures >= Threshold

\* The half-open state and its slot are taken and left together: half-open
\* always means that somebody was let through (Allow, Record).
SlotIffHalfOpen == state = "half-open" <=> probing

\* Breaker.Allow and Record: state, failure count and slot agree, and every
\* variable keeps its type.
BreakerSound == TypeOK /\ TripIffThreshold /\ SlotIffHalfOpen

\* While the slot is taken, a call that was admitted as a probe is still on
\* its way to Record: the slot outlives its holder only if a budget refused
\* that call, the one way out of guardedDo that records nothing.
SlotHasHolder == probing /\ ~leaked => \E c \in Callers : probe[c]

\* What guardedDo's placement of the budget charge is for: an attempt that
\* the rate limit, the open circuit or a failed connect stopped has
\* consumed from no allowance.
UnreachedUnbilled ==
    \A c \in Callers :
        outcome[c] \in {"rate_limited", "circuit_open", "connect_error"} =>
            charged[c] = {}

\* chargeBudgets: a refusal by one allowance leaves the wider ones alone,
\* and a call is made only once all three have been charged.
ChargedInOrder ==
    \A c \in Callers :
        /\ pc[c] = "charge" => charged[c] = 1..(next[c] - 1)
        /\ outcome[c] = "budget_exhausted" => charged[c] = 1..(next[c] - 1)
        /\ outcome[c] \in {"ok", "error"} => charged[c] = Budgets

\* guardedDo and chargeBudgets: what overlapping calls consume from the three
\* allowances is what they used, whichever guard stopped them.
BilledInOrder == UnreachedUnbilled /\ ChargedInOrder

\* Once faults stop for good the circuit ends up closed for good, however
\* the calls of the bad times overlap with the probes: unless the slot leaks.
Recovers == <>[]~faults /\ []~leaked => <>[](state = "closed")
-----------------------------------------------------------------------------
\* breaker.go: "its outcome closes or re-opens the circuit".  The half-open
\* slot is always given back.
ProbeResolves == probing ~> ~probing
=============================================================================
