----------------------------- MODULE StdioBridge -----------------------------
(***************************************************************************)
(* internal/stdiobridge: one child process per streamable-HTTP session.    *)
(*                                                                         *)
(* An id of SessionIds is one session, from the POST that opens it to its  *)
(* end; ids are random, so none is used twice.  The steps of open,         *)
(* closeSession, sweepIdle, Close, Probe and Health are split where the    *)
(* code releases a lock or waits.  Time appears as three free choices: a   *)
(* session becomes idle, a health memo expires, and a probe outlasts       *)
(* probeTimeout.                                                           *)
(*                                                                         *)
(* Close is called by fold-stdio (cmd/fold-stdio/main.go), from the        *)
(* goroutine that handles the signal and deferred in main, in either       *)
(* order.  When main's call returns, the program ends and with it all that *)
(* its goroutines still had to do; its children live on.                   *)
(***************************************************************************)
EXTENDS Naturals, FiniteSets

CONSTANTS SessionIds,  \* sessions
          Pollers,     \* health requests
          MaxSessions  \* Options.MaxSessions

ASSUME BridgeAssumption ==
    /\ IsFiniteSet(SessionIds)
    /\ IsFiniteSet(Pollers)
    /\ MaxSessions \in Nat \ {0}

Closers == {"main", "signal"}

VARIABLES
    slot,     \* Bridge.sessions[id]: no entry, a nil entry, or a session
    handler,  \* the handler running open, then serving the session
    durable,  \* the opening POST was an initialize
    once,     \* session.closeOnce
    child,    \* the session's process
    idle,     \* session.lastUsed is older than the idle timeout
    doomed,   \* sessions sweepIdle or Close has collected and not yet closed
    closed,   \* Bridge.closed
    live,     \* Close: the sessions it has collected
    closing,  \* the two calls of Close
    hpc,      \* health requests
    worker,   \* the goroutine and process of a probe, per health request
    probing,  \* Bridge.probing
    leader,   \* Bridge.healthing # nil
    memo      \* healthErr, or "stale" once older than healthTTL

sessionVars == <<slot, handler, durable, once, child, idle, doomed>>
healthVars == <<hpc, worker, probing, leader, memo>>
shutdown == <<closed, live, closing>>
bridgeVars == <<sessionVars, healthVars, shutdown>>

exited == closing["main"] = "returned"

BridgeTypeOK ==
    /\ slot \in [SessionIds -> {"none", "nil", "live"}]
    /\ handler \in [SessionIds -> {"new", "spawn", "wired", "serving", "over"}]
    /\ durable \in [SessionIds -> BOOLEAN]
    /\ once \in [SessionIds -> {"unused", "teardown", "release", "done"}]
    /\ child \in [SessionIds -> {"none", "running", "gone"}]
    /\ idle \in [SessionIds -> BOOLEAN]
    /\ doomed \in SUBSET SessionIds
    /\ closed \in BOOLEAN
    /\ live \in SUBSET SessionIds
    /\ closing \in [Closers -> {"none", "reaping", "returned"}]
    /\ hpc \in [Pollers -> {"idle", "memo", "wait", "woken", "lead",
                            "probing", "failed", "passed"}]
    /\ worker \in [Pollers -> {"off", "spawn", "running", "failed", "passed"}]
    /\ probing \in 0..MaxSessions
    /\ leader \in BOOLEAN
    /\ memo \in {"stale", "failed", "passed"}

BridgeInit ==
    /\ slot = [i \in SessionIds |-> "none"]
    /\ handler = [i \in SessionIds |-> "new"]
    /\ durable = [i \in SessionIds |-> FALSE]
    /\ once = [i \in SessionIds |-> "unused"]
    /\ child = [i \in SessionIds |-> "none"]
    /\ idle = [i \in SessionIds |-> FALSE]
    /\ doomed = {}
    /\ closed = FALSE
    /\ live = {}
    /\ closing = [c \in Closers |-> "none"]
    /\ hpc = [h \in Pollers |-> "idle"]
    /\ worker = [h \in Pollers |-> "off"]
    /\ probing = 0
    /\ leader = FALSE
    /\ memo = "stale"

Entries == {i \in SessionIds : slot[i] # "none"}

\* len(b.sessions)+b.probing >= b.maxSes
Full == Cardinality(Entries) + probing >= MaxSessions
-----------------------------------------------------------------------------
\* open: refused with errTooManySessions, or because the bridge is closed.
OpenRefused(i) ==
    /\ handler[i] = "new"
    /\ closed \/ Full
    /\ handler' = [handler EXCEPT ![i] = "over"]
    /\ UNCHANGED <<slot, durable, once, child, idle, doomed, healthVars, shutdown>>

\* open: the slot is taken before the process is started.
OpenReserve(i) ==
    /\ handler[i] = "new"
    /\ ~closed /\ ~Full
    /\ slot' = [slot EXCEPT ![i] = "nil"]
    /\ handler' = [handler EXCEPT ![i] = "spawn"]
    /\ \E d \in BOOLEAN : durable' = [durable EXCEPT ![i] = d]
    /\ UNCHANGED <<once, child, idle, doomed, healthVars, shutdown>>

\* wire fails: the process did not start, or its transport did not connect
\* and the process was closed again.
WireFails(i) ==
    /\ handler[i] = "spawn"
    /\ handler' = [handler EXCEPT ![i] = "over"]
    /\ slot' = [slot EXCEPT ![i] = "none"]
    /\ UNCHANGED <<durable, once, child, idle, doomed, healthVars, shutdown>>

\* wire: the process runs and both pumps are started.
Wire(i) ==
    /\ handler[i] = "spawn"
    /\ handler' = [handler EXCEPT ![i] = "wired"]
    /\ child' = [child EXCEPT ![i] = "running"]
    /\ UNCHANGED <<slot, durable, once, idle, doomed, healthVars, shutdown>>

\* open: the session is entered in the map, whatever its pumps did meanwhile.
Register(i) ==
    /\ handler[i] = "wired"
    /\ ~closed
    /\ slot' = [slot EXCEPT ![i] = "live"]
    /\ handler' = [handler EXCEPT ![i] = "serving"]
    /\ idle' = [idle EXCEPT ![i] = FALSE]
    /\ UNCHANGED <<durable, once, child, doomed, healthVars, shutdown>>

\* Mutant of RegisterClosed: the new process is left to Close.
RegisterClosedKeeps(i) ==
    /\ handler[i] = "wired"
    /\ closed
    /\ handler' = [handler EXCEPT ![i] = "over"]
    /\ UNCHANGED <<slot, durable, once, child, idle, doomed, healthVars, shutdown>>

\* open: Close ran meanwhile, so the new process is torn down here.
RegisterClosed(i) ==
    /\ handler[i] = "wired"
    /\ closed
    /\ handler' = [handler EXCEPT ![i] = "over"]
    /\ child' = [child EXCEPT ![i] = "gone"]
    /\ UNCHANGED <<slot, durable, once, idle, doomed, healthVars, shutdown>>
-----------------------------------------------------------------------------
\* closeSession: the first caller runs the body, later ones only wait.
StartClose(i) ==
    once' = [once EXCEPT ![i] = IF @ = "unused" THEN "teardown" ELSE @]

\* A pump ends: the child exited or closed its output, a write failed, the
\* session was torn down, or the pump panicked.  It may end before open has
\* registered the session.
PumpEnds(i) ==
    /\ child[i] # "none"
    /\ once[i] = "unused"
    /\ StartClose(i)
    /\ UNCHANGED <<slot, handler, durable, child, idle, doomed, healthVars, shutdown>>

\* The child exits on its own.
ChildExits(i) ==
    /\ child[i] = "running"
    /\ child' = [child EXCEPT ![i] = "gone"]
    /\ UNCHANGED <<slot, handler, durable, once, idle, doomed, healthVars, shutdown>>

\* A session that served one request without initialize ends with it.
ServeOnce(i) ==
    /\ handler[i] = "serving"
    /\ ~durable[i]
    /\ StartClose(i)
    /\ handler' = [handler EXCEPT ![i] = "over"]
    /\ UNCHANGED <<slot, durable, child, idle, doomed, healthVars, shutdown>>

\* serveDELETE.
Delete(i) ==
    /\ slot[i] = "live"
    /\ once[i] = "unused"
    /\ StartClose(i)
    /\ UNCHANGED <<slot, handler, durable, child, idle, doomed, healthVars, shutdown>>

\* closeSession's body, first half: teardown returns once the process is gone.
Teardown(i) ==
    /\ once[i] = "teardown"
    /\ child' = [child EXCEPT ![i] = "gone"]
    /\ once' = [once EXCEPT ![i] = "release"]
    /\ UNCHANGED <<slot, handler, durable, idle, doomed, healthVars, shutdown>>

\* Mutant of Release: the slot is freed while the process is still dying.
ReleaseEarly(i) ==
    /\ once[i] \in {"teardown", "release"}
    /\ slot' = [slot EXCEPT ![i] = "none"]
    /\ once' = [once EXCEPT ![i] = IF @ = "release" THEN "done" ELSE @]
    /\ UNCHANGED <<handler, durable, child, idle, doomed, healthVars, shutdown>>

\* closeSession's body, second half: the slot is released.
Release(i) ==
    /\ once[i] = "release"
    /\ slot' = [slot EXCEPT ![i] = "none"]
    /\ once' = [once EXCEPT ![i] = "done"]
    /\ UNCHANGED <<handler, durable, child, idle, doomed, healthVars, shutdown>>
-----------------------------------------------------------------------------
\* A request is routed to the session (lookup, touch).
Touch(i) ==
    /\ slot[i] = "live"
    /\ idle[i]
    /\ idle' = [idle EXCEPT ![i] = FALSE]
    /\ UNCHANGED <<slot, handler, durable, once, child, doomed, healthVars, shutdown>>

BecomesIdle(i) ==
    /\ slot[i] = "live"
    /\ ~idle[i]
    /\ idle' = [idle EXCEPT ![i] = TRUE]
    /\ UNCHANGED <<slot, handler, durable, once, child, doomed, healthVars, shutdown>>

\* sweepIdle collects under the lock what it will close after releasing it.
SweepIdle ==
    LET stale == {i \in SessionIds : slot[i] = "live" /\ idle[i]} IN
    /\ ~closed
    /\ doomed = {}
    /\ stale # {}
    /\ doomed' = stale
    /\ UNCHANGED <<slot, handler, durable, once, child, idle, healthVars, shutdown>>

\* closeSession of one collected session.
CloseDoomed(i) ==
    /\ i \in doomed
    /\ StartClose(i)
    /\ doomed' = doomed \ {i}
    /\ UNCHANGED <<slot, handler, durable, child, idle, healthVars, shutdown>>

\* Close collects the sessions that are registered; a second call returns.
CloseBegins(c) ==
    /\ closing[c] = "none"
    /\ \/ /\ ~closed
          /\ closed' = TRUE
          /\ live' = {i \in SessionIds : slot[i] = "live"}
          /\ doomed' = doomed \cup live'
          /\ closing' = [closing EXCEPT ![c] = "reaping"]
       \/ /\ closed
          /\ closing' = [closing EXCEPT ![c] = "returned"]
          /\ UNCHANGED <<closed, live, doomed>>
    /\ UNCHANGED <<slot, handler, durable, once, child, idle, healthVars>>

\* closeSession of each of them has returned.  Nobody waits for a session
\* that is being opened, nor for a probe.
CloseReturns(c) ==
    /\ closing[c] = "reaping"
    /\ \A i \in live : once[i] = "done"
    /\ closing' = [closing EXCEPT ![c] = "returned"]
    /\ UNCHANGED <<sessionVars, healthVars, closed, live>>
-----------------------------------------------------------------------------
\* Health: with no live entry, look at the memo.
HealthStart(h) ==
    /\ hpc[h] = "idle"
    /\ worker[h] = "off"
    /\ Entries = {}
    /\ hpc' = [hpc EXCEPT ![h] = "memo"]
    /\ UNCHANGED <<sessionVars, shutdown, worker, probing, leader, memo>>

\* Answer from the memo, or wait for the probe in flight and then answer.
HealthMemo(h) ==
    /\ hpc[h] = "memo"
    /\ memo # "stale" \/ leader
    /\ hpc' = [hpc EXCEPT ![h] = IF memo # "stale" THEN "idle" ELSE "wait"]
    /\ UNCHANGED <<sessionVars, shutdown, worker, probing, leader, memo>>

\* The channel is closed: the waiter answers from the memo.
HealthWoken(h) ==
    /\ hpc[h] = "woken"
    /\ hpc' = [hpc EXCEPT ![h] = "idle"]
    /\ UNCHANGED <<sessionVars, shutdown, worker, probing, leader, memo>>

\* A waiter's own request is cancelled.
HealthGivesUp(h) ==
    /\ hpc[h] = "wait"
    /\ hpc' = [hpc EXCEPT ![h] = "idle"]
    /\ UNCHANGED <<sessionVars, shutdown, worker, probing, leader, memo>>

\* Mutant of HealthLead: a probe in flight is not waited for.
HealthLeadAnyway(h) ==
    /\ hpc[h] = "memo"
    /\ memo = "stale"
    /\ leader' = TRUE
    /\ hpc' = [hpc EXCEPT ![h] = "lead"]
    /\ UNCHANGED <<sessionVars, shutdown, worker, probing, memo>>

HealthLead(h) ==
    /\ hpc[h] = "memo"
    /\ memo = "stale"
    /\ ~leader
    /\ leader' = TRUE
    /\ hpc' = [hpc EXCEPT ![h] = "lead"]
    /\ UNCHANGED <<sessionVars, shutdown, worker, probing, memo>>

ProbeRefused(h) ==
    /\ hpc[h] = "lead"
    /\ closed \/ Full
    /\ hpc' = [hpc EXCEPT ![h] = "failed"]
    /\ UNCHANGED <<sessionVars, shutdown, worker, probing, leader, memo>>

\* Mutant of ProbeStart: a probe takes no slot.
ProbeStartUncounted(h) ==
    /\ hpc[h] = "lead"
    /\ ~closed
    /\ hpc' = [hpc EXCEPT ![h] = "probing"]
    /\ worker' = [worker EXCEPT ![h] = "spawn"]
    /\ probing' = probing + 1
    /\ UNCHANGED <<sessionVars, shutdown, leader, memo>>

\* Probe: a probe takes a slot and starts its goroutine.
ProbeStart(h) ==
    /\ hpc[h] = "lead"
    /\ ~closed /\ ~Full
    /\ hpc' = [hpc EXCEPT ![h] = "probing"]
    /\ worker' = [worker EXCEPT ![h] = "spawn"]
    /\ probing' = probing + 1
    /\ UNCHANGED <<sessionVars, shutdown, leader, memo>>

ProbeSpawn(h) ==
    /\ worker[h] = "spawn"
    /\ worker' = [worker EXCEPT ![h] = "running"]
    /\ UNCHANGED <<sessionVars, shutdown, hpc, probing, leader, memo>>

ProbeSpawnFails(h) ==
    /\ worker[h] = "spawn"
    /\ worker' = [worker EXCEPT ![h] = "failed"]
    /\ UNCHANGED <<sessionVars, shutdown, hpc, probing, leader, memo>>

\* closeChild returns: the probe's process is gone.
ProbeReap(h) ==
    /\ worker[h] = "running"
    /\ worker' = [worker EXCEPT ![h] = "passed"]
    /\ UNCHANGED <<sessionVars, shutdown, hpc, probing, leader, memo>>

\* Probe returns what its goroutine sent.
ProbeDone(h) ==
    /\ hpc[h] = "probing"
    /\ worker[h] \in {"failed", "passed"}
    /\ hpc' = [hpc EXCEPT ![h] = worker[h]]
    /\ worker' = [worker EXCEPT ![h] = "off"]
    /\ probing' = probing - 1
    /\ UNCHANGED <<sessionVars, shutdown, leader, memo>>

\* Probe returns on its deadline.  Its goroutine goes on by itself.
ProbeDeadline(h) ==
    /\ hpc[h] = "probing"
    /\ worker[h] \in {"spawn", "running"}
    /\ hpc' = [hpc EXCEPT ![h] = "failed"]
    /\ probing' = probing - 1
    /\ UNCHANGED <<sessionVars, shutdown, worker, leader, memo>>

\* The goroutine of a probe that was given up ends.
WorkerEnds(h) ==
    /\ hpc[h] # "probing"
    /\ worker[h] \in {"failed", "passed"}
    /\ worker' = [worker EXCEPT ![h] = "off"]
    /\ UNCHANGED <<sessionVars, shutdown, hpc, probing, leader, memo>>

\* Mutant of HealthFinish: waiters are not woken.
HealthFinishSilently(h) ==
    /\ hpc[h] \in {"failed", "passed"}
    /\ memo' = hpc[h]
    /\ leader' = FALSE
    /\ hpc' = [hpc EXCEPT ![h] = "idle"]
    /\ UNCHANGED <<sessionVars, shutdown, worker, probing>>

\* Health: the leader stores the answer and wakes the waiters.
HealthFinish(h) ==
    /\ hpc[h] \in {"failed", "passed"}
    /\ memo' = hpc[h]
    /\ leader' = FALSE
    /\ hpc' = [k \in Pollers |-> IF k = h THEN "idle"
                                 ELSE IF hpc[k] = "wait" THEN "woken" ELSE hpc[k]]
    /\ UNCHANGED <<sessionVars, shutdown, worker, probing>>

MemoExpires ==
    /\ memo # "stale"
    /\ memo' = "stale"
    /\ UNCHANGED <<sessionVars, shutdown, hpc, worker, probing, leader>>
-----------------------------------------------------------------------------
\* Steps the bridge takes by itself, without a client.
SessionStep(i) ==
    /\ ~exited
    /\ \/ WireFails(i) \/ Wire(i) \/ Register(i) \/ RegisterClosed(i)
       \/ ServeOnce(i) \/ Teardown(i) \/ Release(i) \/ CloseDoomed(i)

HealthStep(h) ==
    /\ ~exited
    /\ \/ HealthMemo(h) \/ HealthWoken(h) \/ HealthLead(h)
       \/ ProbeRefused(h) \/ ProbeStart(h) \/ ProbeSpawn(h)
       \/ ProbeSpawnFails(h) \/ ProbeReap(h) \/ ProbeDone(h)
       \/ ProbeDeadline(h) \/ WorkerEnds(h) \/ HealthFinish(h)

\* What clients and the clock bring about, and the calls of Close.
InputStep ==
    /\ ~exited
    /\ \/ \E i \in SessionIds :
             \/ OpenRefused(i) \/ OpenReserve(i) \/ PumpEnds(i)
             \/ Delete(i) \/ Touch(i) \/ BecomesIdle(i)
       \/ \E h \in Pollers : HealthStart(h) \/ HealthGivesUp(h)
       \/ \E c \in Closers : CloseBegins(c) \/ CloseReturns(c)
       \/ SweepIdle \/ MemoExpires

BridgeNext ==
    \/ \E i \in SessionIds : SessionStep(i) \/ ChildExits(i)
    \/ \E h \in Pollers : HealthStep(h)
    \/ InputStep

BridgeSpec == BridgeInit /\ [][BridgeNext]_bridgeVars

\* Goroutines that can run do run, and the sweeper's ticker fires, as long as
\* the program has not ended.
BridgeFairness ==
    /\ \A i \in SessionIds : WF_bridgeVars(SessionStep(i))
    /\ \A h \in Pollers : WF_bridgeVars(HealthStep(h))
    /\ WF_bridgeVars(~exited /\ SweepIdle)

BridgeFairSpec == BridgeSpec /\ BridgeFairness
-----------------------------------------------------------------------------
RunningChildren == {i \in SessionIds : child[i] = "running"}
RunningProbes == {h \in Pollers : worker[h] = "running"}

\* Probes whose Probe call has returned at its deadline.
GivenUp == {h \in Pollers : hpc[h] # "probing"}

\* docs/stdio.md: the session limit is a process ceiling.  Sessions being
\* opened, served and torn down together with probes never run more
\* processes than MaxSessions, those of probes that were given up apart.
ProcessCeiling ==
    Cardinality(RunningChildren) + Cardinality(RunningProbes \ GivenUp) <= MaxSessions

\* No process is left without an entry that will lead to its teardown
\* (open reserves first, closeSession releases last).
NoOrphan == \A i \in SessionIds : child[i] = "running" => slot[i] # "none"

\* Close has returned to the caller whose call collected the sessions.
Reaped == closed /\ \A c \in Closers : closing[c] # "reaping"

\* Close "ends every session and stops every child": whatever it races with,
\* the only sessions whose process is left when it has done so are those whose
\* open has not come back to the lock, where it will find the bridge closed.
\* Probes are not waited for, nor are the openers: the program may end first.
ShutdownReaps == Reaped => \A i \in SessionIds : child[i] = "running" => handler[i] = "wired"

\* Health: however many requests arrive together and whatever they wait for,
\* at most one of them probes.
SingleProbe ==
    Cardinality({h \in Pollers : hpc[h] \in {"lead", "probing"}}) <= 1

\* The three together: processes are counted, owned and, for health, single.
ProcessesSound == BridgeTypeOK /\ ProcessCeiling /\ NoOrphan /\ SingleProbe

\* Every health request is answered, whether it leads a probe, waits for one
\* or finds the memo, unless the program ends.
HealthAnswers == \A h \in Pollers : hpc[h] # "idle" ~> hpc[h] = "idle" \/ exited
-----------------------------------------------------------------------------
\* bridge.go: "tears down one session exactly once and then releases its
\* slot".
SlotReleased == \A i \in SessionIds : once[i] = "done" => slot[i] = "none"
=============================================================================
