------------------------------- MODULE Breaker -------------------------------
(***************************************************************************)
(* The per-upstream circuit breaker of internal/breaker/breaker.go.        *)
(*                                                                         *)
(* Wall-clock time enters the code only through the comparison             *)
(* now - openedAt >= halfOpenAfter.  elapsed is that difference, counted   *)
(* in ticks and saturating at HalfOpenAfter, so the comparison is exact    *)
(* and the clock needs no bound.  failures is an int compared only with    *)
(* failureThreshold: it saturates at FailureCap, which is at or above the  *)
(* threshold.  A breaker built with threshold <= 0 is nil, always closed   *)
(* and stateless; it is excluded by BreakerAssumption.                     *)
(***************************************************************************)
EXTENDS Naturals

CONSTANTS Threshold,      \* failureThreshold
          HalfOpenAfter,  \* halfOpenAfter, in ticks
          FailureCap      \* bound of the failures counter

ASSUME BreakerAssumption ==
    /\ Threshold \in Nat \ {0}
    /\ HalfOpenAfter \in Nat
    /\ FailureCap \in Nat
    /\ FailureCap >= Threshold

VARIABLES state,     \* Breaker.state
          failures,  \* Breaker.failures: consecutive failures recorded
          elapsed,   \* now - openedAt, saturating
          probing    \* Breaker.probing: the half-open slot is taken

brkVars == <<state, failures, elapsed, probing>>

States == {"closed", "open", "half-open"}

BreakerTypeOK ==
    /\ state \in States
    /\ failures \in 0..FailureCap
    /\ elapsed \in 0..HalfOpenAfter
    /\ probing \in BOOLEAN

New ==
    /\ state = "closed"
    /\ failures = 0
    /\ elapsed = 0
    /\ probing = FALSE

Rested == elapsed >= HalfOpenAfter

\* Mutant of Allowed: the cool-down never ends.
AllowedOnlyClosed == state = "closed"

\* Allow returns true.
Allowed ==
    \/ state = "closed"
    \/ state = "open" /\ Rested
    \/ state = "half-open" /\ ~probing

\* The state Allow leaves behind when it returns true.  When it returns
\* false it changes nothing.
Admit ==
    /\ Allowed
    /\ state' = IF state = "closed" THEN "closed" ELSE "half-open"
    /\ probing' = (state # "closed")
    /\ UNCHANGED <<failures, elapsed>>

\* Mutant of RecordSuccess: the failure count survives a success.
RecordSuccessKeepsCount ==
    /\ state' = "closed"
    /\ probing' = FALSE
    /\ UNCHANGED <<failures, elapsed>>

RecordSuccess ==
    /\ state' = "closed"
    /\ failures' = 0
    /\ probing' = FALSE
    /\ UNCHANGED elapsed

Trips == state = "half-open" \/ failures + 1 >= Threshold

RecordFailure ==
    /\ probing' = FALSE
    /\ failures' = IF failures = FailureCap THEN FailureCap ELSE failures + 1
    /\ state' = IF Trips THEN "open" ELSE state
    /\ elapsed' = IF Trips THEN 0 ELSE elapsed

\* A tick of the clock, while it can still change an answer of Allow.
Tick ==
    /\ elapsed < HalfOpenAfter
    /\ elapsed' = elapsed + 1
    /\ UNCHANGED <<state, failures, probing>>
=============================================================================
