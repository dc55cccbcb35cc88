------------------------------- MODULE Limits -------------------------------
(***************************************************************************)
(* Rate limits and shared budgets: what one more call is checked against.  *)
(*                                                                         *)
(* The limiter estimates the calls of the last minute from two fixed       *)
(* windows, in process (internal/ratelimit) or in Redis (redisLimiter,     *)
(* with the first as its mirror).  A window is Window ticks.  The budget   *)
(* is a counter per calendar period (internal/state/budget.go, and         *)
(* redisBudget) that instances with differing clocks share.                *)
(*                                                                         *)
(* The weights of the code are floats in [0, 1]; here everything is        *)
(* multiplied by Window.  Rounding of floats is not modelled.              *)
(***************************************************************************)
EXTENDS Integers

CONSTANTS Window, Rpm,          \* of the limiter
          Period, Slack,        \* ticks of a period; Period.ttl's extra hour
          Skew,                 \* the most by which two clocks differ
          Allowance,            \* limit of the budget
          Gateways,             \* the instances that share it
          TimeCap               \* bound of the budget's clock

ASSUME LimitsAssumption ==
    /\ Window \in Nat \ {0} /\ Rpm \in Nat \ {0}
    /\ Period \in Nat \ {0} /\ Slack \in Nat /\ Skew \in 0..Slack
    /\ Allowance \in Nat \ {0} /\ TimeCap \in Nat

VARIABLES
    local,   \* Limiter of one process: age of curStart, curCount, prev
    shared,  \* the counters in Redis: age of the current window, cur, prev
    hits,    \* history: hits[m][t] calls were admitted by m within the last t ticks
             \* and this one, where m is the limiter that decided
    backed,  \* the limiter in use: "memory", "redis", or "lost", Redis that may fail
    clock,   \* time, and how far ahead each instance's clock is
    ledger   \* per period: the counter and its ttl; history: what it ever
             \* admitted, and what each instance did on its own

lvars == <<local, shared, hits, backed>>
bvars == <<clock, ledger>>

CountCap == Rpm + 1   \* bound: requests that reach Redis in one window
Periods == 0..((TimeCap + Skew) \div Period)
Meters == {"memory", "redis"}
Minute == 0..(Window - 1)

LimitsInit ==
    /\ local = [age |-> 2 * Window, cur |-> 0, prev |-> 0]  \* curStart.IsZero()
    /\ shared \in [age : 0..(Window - 1), cur : {0}, prev : {0}]
    /\ hits = [m \in Meters |-> [t \in Minute |-> 0]]
    /\ backed \in {"memory", "redis"}
    /\ clock \in [now : {0}, ahead : [Gateways -> 0..Skew]]
    /\ ledger = [p \in Periods |-> [used |-> 0, ttl |-> 0, spent |-> 0, own |-> [g \in Gateways |-> 0]]]
-----------------------------------------------------------------------------
\* One more call fits the estimate.
Fits(w) == w.prev * (Window - w.age) + (w.cur + 1) * Window <= Rpm * Window

\* Mutant of Shifted: the previous window is forgotten as well.
ShiftedForgets(w) ==
    IF w.age < Window THEN w ELSE [age |-> w.age - Window, cur |-> 0, prev |-> 0]

\* The loop of Allow that moves the fixed windows up to now.
Shifted(w) ==
    CASE w.age < Window -> w
      [] w.age >= 2 * Window -> [age |-> 0, cur |-> 0, prev |-> 0]
      [] OTHER -> [age |-> w.age - Window, cur |-> 0, prev |-> w.cur]

Counted(w) == [w EXCEPT !.cur = @ + 1]

\* Limiter.Allow: counts what it admits.
LocalAllow == local' = IF Fits(Shifted(local)) THEN Counted(Shifted(local)) ELSE Shifted(local)

\* redisLimiter.Allow: INCR counts what it refuses too, and the mirror is fed
\* whatever it answers.  The mirror decides when Redis fails.
Request ==
    /\ LocalAllow
    /\ \E answers \in BOOLEAN :
           /\ answers => backed # "memory" /\ shared.cur < CountCap
           /\ ~answers => backed # "redis"
           /\ shared' = IF answers THEN Counted(shared) ELSE shared
           /\ hits' = IF Fits(IF answers THEN shared ELSE Shifted(local))
                      THEN [hits EXCEPT ![IF answers THEN "redis" ELSE "memory"] =
                                            [t \in Minute |-> @[t] + 1]]
                      ELSE hits
    /\ UNCHANGED <<backed, bvars>>

\* Redis becomes unreliable.
LoseRedis == backed = "redis" /\ backed' = "lost" /\ UNCHANGED <<local, shared, hits, bvars>>

Second ==
    /\ local' = [local EXCEPT !.age = IF @ < 2 * Window THEN @ + 1 ELSE @]
    /\ shared' = IF shared.age = Window - 1 THEN [age |-> 0, cur |-> 0, prev |-> shared.cur]
                 ELSE [shared EXCEPT !.age = @ + 1]
    /\ hits' = [m \in Meters |-> [t \in Minute |-> IF t = 0 THEN 0 ELSE hits[m][t - 1]]]
    /\ UNCHANGED <<backed, bvars>>
-----------------------------------------------------------------------------
Time(g) == clock.now + clock.ahead[g]

\* Period.key: the period an instance takes it to be.
Key(g) == Time(g) \div Period

\* Mutant of Ttl: no slack for the others' clocks.
TtlExact(g) == (Key(g) + 1) * Period - Time(g)

\* Period.ttl: to the end of the period by this clock, and an hour.
Ttl(g) == (Key(g) + 1) * Period - Time(g) + Slack

\* redisBudget.Add(1), the script: refused, or counted with the ttl set by
\* the first.
Add(g) ==
    LET k == ledger[Key(g)]
    IN  /\ k.used + 1 <= Allowance
        /\ ledger' = [ledger EXCEPT ![Key(g)] =
               [used |-> k.used + 1, ttl |-> IF k.used = 0 THEN Ttl(g) ELSE k.ttl,
                spent |-> k.spent + 1, own |-> k.own]]
    /\ UNCHANGED <<clock, lvars>>

\* Redis fails: the instance's own memBudget, which starts at nothing, decides.
AddDegraded(g) ==
    /\ ledger[Key(g)].own[g] + 1 <= Allowance
    /\ ledger' = [ledger EXCEPT ![Key(g)].own[g] = @ + 1]
    /\ UNCHANGED <<clock, lvars>>

\* Time passes; Redis drops the counters whose ttl has ended.
Elapse ==
    /\ clock.now < TimeCap
    /\ clock' = [clock EXCEPT !.now = @ + 1]
    /\ ledger' = [p \in Periods |->
           LET k == ledger[p]
           IN  IF k.ttl <= 1 THEN [used |-> 0, ttl |-> 0, spent |-> k.spent, own |-> k.own]
               ELSE [used |-> k.used, ttl |-> k.ttl - 1, spent |-> k.spent, own |-> k.own]]
    /\ UNCHANGED lvars

LimiterNext == Request \/ LoseRedis \/ Second
BudgetNext == (\E g \in Gateways : Add(g) \/ AddDegraded(g)) \/ Elapse

LimitsSpec == LimitsInit /\ [][LimiterNext \/ BudgetNext]_<<lvars, bvars>>
-----------------------------------------------------------------------------
WindowType == [age : 0..(2 * Window), cur : Nat, prev : Nat]
EntryType == [used : 0..Allowance, ttl : Nat, spent : Nat, own : [Gateways -> 0..Allowance]]

LimitsTypeOK ==
    /\ local \in WindowType /\ shared \in WindowType /\ shared.age < Window
    /\ hits \in [Meters -> [Minute -> Nat]]
    /\ backed \in {"memory", "redis", "lost"}
    /\ clock \in [now : 0..TimeCap, ahead : [Gateways -> 0..Skew]]
    /\ ledger \in [Periods -> EntryType]

\* ratelimit.go: "admits at most rpm requests per rolling minute".  The
\* estimate spreads the previous window evenly, so what holds of either limiter
\* is that any minute sees fewer than twice as many; and of the two together,
\* while Redis comes and goes, fewer than four times.
RollingBound ==
    hits["memory"][Window - 1] + hits["redis"][Window - 1]
        < (IF backed = "lost" THEN 4 ELSE 2) * Rpm

\* budgetAddScript: instances whose clocks differ by at most Slack never spend
\* more than the allowance in one period, although a later instance could find
\* the period's counter expired and begin it anew.  What an instance admits
\* without Redis comes on top, at most an allowance each (own, in EntryType).
SpentOnce == \A p \in Periods : ledger[p].spent <= Allowance

\* Neither the limiter nor the budget, in process or shared, admits more than
\* these bounds.
LimitsHold == LimitsTypeOK /\ RollingBound /\ SpentOnce
=============================================================================
