------------------------------ MODULE ListCache ------------------------------
(***************************************************************************)
(* The in-process list cache: internal/cache.GetOrFill and Invalidate for  *)
(* one key, as cachedList and invalidateList in gateway/upstream.go use    *)
(* them.  Lists are told apart by the upstream's version counter only.     *)
(* A fill asks the upstream over the network: the version it returns is    *)
(* the one current at some instant (Fetch) before the filler takes the     *)
(* cache's lock again.  The upstream announces each change with            *)
(* notifications/list_changed, whose handler calls Invalidate.             *)
(***************************************************************************)
EXTENDS Naturals

CONSTANTS Callers,     \* concurrent list requests
          MaxVersion   \* bound on the upstream's changes

VARIABLES
    entry,    \* the key's entry: none, in flight, a value, an expired value
    value,    \* entry.value
    pc,       \* callers in GetOrFill
    fetched,  \* what a caller's fill has read
    ret,      \* the version a caller's last call returned
    outcome,  \* whether that call has returned a list
    floor,    \* history: announced when the caller's call began
    raced,    \* history: Invalidate met the entry while it was in flight
    panicked, \* history: a fill has panicked
    version,  \* the upstream's current list
    announced \* history: latest version whose Invalidate has run

calls == <<pc, fetched, ret, outcome, floor>>
vars == <<entry, value, calls, version, announced, raced, panicked>>
world == <<version, announced, raced, panicked>>

Versions == 0..MaxVersion

\* "fill" runs on behalf of the entry, "direct" without touching the cache.
Filling == {"fill", "filled", "direct"}

TypeOK ==
    /\ entry \in {"none", "inflight", "value", "expired"}
    /\ value \in Versions
    /\ pc \in [Callers -> {"idle", "wait", "woken"} \cup Filling]
    /\ fetched \in [Callers -> Versions]
    /\ ret \in [Callers -> Versions]
    /\ outcome \in [Callers -> {"none", "list"}]
    /\ floor \in [Callers -> Versions]
    /\ version \in Versions
    /\ announced \in Versions
    /\ raced \in BOOLEAN
    /\ panicked \in BOOLEAN

Init ==
    /\ entry = "none"
    /\ value = 0
    /\ pc = [c \in Callers |-> "idle"]
    /\ fetched = [c \in Callers |-> 0]
    /\ ret = [c \in Callers |-> 0]
    /\ outcome = [c \in Callers |-> "none"]
    /\ floor = [c \in Callers |-> 0]
    /\ version = 0
    /\ announced = 0
    /\ raced = FALSE
    /\ panicked = FALSE
-----------------------------------------------------------------------------
\* A call begins.
Begin(c) ==
    /\ pc[c] = "idle"
    /\ floor' = [floor EXCEPT ![c] = announced]

\* The call of c returns list v.
Answer(c, v) ==
    /\ ret' = [ret EXCEPT ![c] = v]
    /\ outcome' = [outcome EXCEPT ![c] = "list"]

Unanswered(c) ==
    /\ outcome' = [outcome EXCEPT ![c] = "none"]
    /\ UNCHANGED ret

\* GetOrFill, first critical section.
Hit(c) ==
    /\ Begin(c)
    /\ entry = "value"
    /\ Answer(c, value)
    /\ UNCHANGED <<entry, value, pc, fetched, world>>

Join(c) ==
    /\ Begin(c)
    /\ entry = "inflight"
    /\ pc' = [pc EXCEPT ![c] = "wait"]
    /\ Unanswered(c)
    /\ UNCHANGED <<entry, value, fetched, world>>

\* Mutant of Lead: a caller does not join a fill in flight.
LeadAnyway(c) ==
    /\ Begin(c)
    /\ entry # "value"
    /\ entry' = "inflight"
    /\ raced' = FALSE
    /\ pc' = [pc EXCEPT ![c] = "fill"]
    /\ Unanswered(c)
    /\ UNCHANGED <<value, fetched, version, announced, panicked>>

Lead(c) ==
    /\ Begin(c)
    /\ entry \in {"none", "expired"}
    /\ entry' = "inflight"
    /\ raced' = FALSE
    /\ pc' = [pc EXCEPT ![c] = "fill"]
    /\ Unanswered(c)
    /\ UNCHANGED <<value, fetched, version, announced, panicked>>

\* The filler's request is answered by the upstream.
Fetch(c) ==
    /\ pc[c] = "fill"
    /\ fetched' = [fetched EXCEPT ![c] = version]
    /\ pc' = [pc EXCEPT ![c] = "filled"]
    /\ UNCHANGED <<entry, value, ret, outcome, floor, world>>

\* Closing the entry's channel wakes every waiter.
Wake(c, next) == pc' = [k \in Callers |-> IF k = c THEN next
                                          ELSE IF pc[k] = "wait" THEN "woken"
                                          ELSE pc[k]]

\* Mutant of Finish: the channel is not closed.
FinishSilently(c) ==
    /\ pc[c] = "filled"
    /\ entry' = "value"
    /\ value' = fetched[c]
    /\ Answer(c, fetched[c])
    /\ pc' = [pc EXCEPT ![c] = "idle"]
    /\ UNCHANGED <<fetched, floor, world>>

\* GetOrFill, last critical section, after a fill that succeeded.
Finish(c) ==
    /\ pc[c] = "filled"
    /\ entry' = "value"
    /\ value' = fetched[c]
    /\ Answer(c, fetched[c])
    /\ Wake(c, "idle")
    /\ UNCHANGED <<fetched, floor, world>>

\* The same after a fill that failed: the entry is deleted.
FillFails(c) ==
    /\ pc[c] = "fill"
    /\ entry' = "none"
    /\ Wake(c, "idle")
    /\ UNCHANGED <<value, fetched, ret, outcome, floor, world>>

\* The fill panics.  The deferred recover is fanOut's: GetOrFill's last
\* critical section is skipped and the entry stays in flight.
FillPanics(c) ==
    /\ pc[c] = "fill"
    /\ pc' = [pc EXCEPT ![c] = "idle"]
    /\ panicked' = TRUE
    /\ UNCHANGED <<entry, value, fetched, ret, outcome, floor, version, announced, raced>>
-----------------------------------------------------------------------------
\* A waiter after its channel was closed: hit, or a fill of its own that
\* does not touch the cache.
WokenHit(c) ==
    /\ pc[c] = "woken"
    /\ entry = "value"
    /\ Answer(c, value)
    /\ pc' = [pc EXCEPT ![c] = "idle"]
    /\ UNCHANGED <<entry, value, fetched, floor, world>>

WokenMiss(c) ==
    /\ pc[c] = "woken"
    /\ entry # "value"
    /\ pc' = [pc EXCEPT ![c] = "direct"]
    /\ UNCHANGED <<entry, value, fetched, ret, outcome, floor, world>>

DirectFill(c) ==
    /\ pc[c] = "direct"
    /\ Answer(c, version)
    /\ pc' = [pc EXCEPT ![c] = "idle"]
    /\ UNCHANGED <<entry, value, fetched, floor, world>>

DirectFails(c) ==
    /\ pc[c] = "direct"
    /\ pc' = [pc EXCEPT ![c] = "idle"]
    /\ UNCHANGED <<entry, value, fetched, ret, outcome, floor, world>>

\* The waiter's own request is cancelled or times out.
GiveUp(c) ==
    /\ pc[c] = "wait"
    /\ pc' = [pc EXCEPT ![c] = "idle"]
    /\ UNCHANGED <<entry, value, fetched, ret, outcome, floor, world>>
-----------------------------------------------------------------------------
\* Mutant of Drop: Invalidate leaves values alone.
DropNothing == entry

\* What Invalidate leaves of the entry: an entry in flight is kept.
Drop == IF entry = "inflight" THEN entry ELSE "none"

\* The upstream changes its list.
Change ==
    /\ version < MaxVersion
    /\ version' = version + 1
    /\ UNCHANGED <<entry, value, calls, announced, raced, panicked>>

\* notifications/list_changed arrives: the handler runs Invalidate.
Invalidate ==
    /\ announced < version
    /\ entry' = Drop
    /\ announced' = version
    /\ raced' = (raced \/ entry = "inflight")
    /\ UNCHANGED <<value, calls, version, panicked>>

\* The entry's ttl passes.
Expire ==
    /\ entry = "value"
    /\ entry' = "expired"
    /\ UNCHANGED <<value, calls, world>>

CallStep(c) ==
    \/ Fetch(c) \/ Finish(c) \/ FillFails(c) \/ FillPanics(c)
    \/ WokenHit(c) \/ WokenMiss(c) \/ DirectFill(c) \/ DirectFails(c)

Next ==
    \/ \E c \in Callers : Hit(c) \/ Join(c) \/ Lead(c) \/ CallStep(c) \/ GiveUp(c)
    \/ Change \/ Invalidate \/ Expire

Spec == Init /\ [][Next]_vars

\* A fill ends: guardedDo bounds it by requestTimeout.
FairSpec == Spec /\ \A c \in Callers : WF_vars(CallStep(c))
-----------------------------------------------------------------------------
\* One caller at a time fills on behalf of the entry, and an entry is in
\* flight exactly while its filler runs, so nobody waits for a fill that is
\* not running: until one panics, whose entry is in flight ever after.
SingleFlight ==
    LET fillers == {c \in Callers : pc[c] \in {"fill", "filled"}} IN
    /\ \A c, d \in fillers : c = d
    /\ entry = "inflight" <=> fillers # {} \/ panicked

\* Every caller gets an answer without its own deadline having to fire,
\* unless a fill has panicked.
Answered == \A c \in Callers : pc[c] # "idle" ~> pc[c] = "idle" \/ panicked

\* A list older than an announced change is in the cache only if it was
\* being filled while the change was announced: Invalidate drops everything
\* else, and nothing brings it back.
StaleOnlyIfRaced == entry = "value" /\ value < announced => raced
-----------------------------------------------------------------------------
\* docs/configuration.md: the cache is invalidated on list_changed "so
\* clients refetch and see the change immediately": a call that begins after
\* the handler ran returns a list at least as new as the announced one.
SeesAnnounced ==
    \A c \in Callers : outcome[c] = "list" => ret[c] >= floor[c]
=============================================================================
