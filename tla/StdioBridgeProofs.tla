------------------------- MODULE StdioBridgeProofs -------------------------
(***************************************************************************)
(* Proofs about StdioBridge: for any number of sessions and health         *)
(* requests, the processes of sessions and of the probes that are waited   *)
(* for stay within MaxSessions, none is without a slot, and at most one    *)
(* health request probes; and once Close has returned to the caller whose  *)
(* call collected the sessions, no registered session has a process.       *)
(*                                                                         *)
(* The map's size is no invariant bound: open may enter a session whose    *)
(* pump has already released its slot.  The slots that count are those of  *)
(* sessions not yet closed (Claimed).                                      *)
(***************************************************************************)
EXTENDS StdioBridge, FiniteSetTheorems, TLAPS

SessionTypes ==
    /\ slot \in [SessionIds -> {"none", "nil", "live"}]
    /\ handler \in [SessionIds -> {"new", "spawn", "wired", "serving", "over"}]
    /\ durable \in [SessionIds -> BOOLEAN]
    /\ once \in [SessionIds -> {"unused", "teardown", "release", "done"}]
    /\ child \in [SessionIds -> {"none", "running", "gone"}]
    /\ idle \in [SessionIds -> BOOLEAN]
    /\ doomed \in SUBSET SessionIds

\* How a session's slot, process and closeOnce hang together.
SessionInv(i) ==
    /\ handler[i] \in {"new", "spawn"} =>
           once[i] = "unused" /\ child[i] = "none" /\ slot[i] # "live" /\ i \notin doomed
    /\ handler[i] = "spawn" => slot[i] # "none"
    /\ handler[i] = "wired" /\ once[i] # "done" => slot[i] # "none"
    /\ once[i] \in {"release", "done"} => child[i] # "running"
    /\ child[i] = "running" => slot[i] # "none"
    /\ handler[i] \in {"serving", "over"} /\ child[i] = "running" => slot[i] = "live"

Sound == SessionTypes /\ \A i \in SessionIds : SessionInv(i)

\* The sessions that hold a slot and have not been closed.
Claimed == {i \in SessionIds : slot[i] # "none" /\ once[i] # "done"}

\* Every step of a session after its reservation keeps the session sound and
\* claims no further slot.
LEMMA SessionSteps ==
    ASSUME Sound, NEW i \in SessionIds,
           \/ OpenRefused(i) \/ WireFails(i) \/ Wire(i) \/ Register(i)
           \/ RegisterClosed(i) \/ PumpEnds(i) \/ ChildExits(i) \/ ServeOnce(i)
           \/ Delete(i) \/ Teardown(i) \/ Release(i)
           \/ Touch(i) \/ BecomesIdle(i) \/ CloseDoomed(i)
    PROVE  Sound' /\ Claimed' \subseteq Claimed
<1>. USE DEF Sound, SessionTypes, SessionInv, Claimed
<1>1. CASE OpenRefused(i)
  BY <1>1 DEF OpenRefused
<1>2. CASE WireFails(i)
  BY <1>2 DEF WireFails
<1>3. CASE Wire(i)
  BY <1>3 DEF Wire
<1>4. CASE Register(i)
  BY <1>4 DEF Register
<1>5. CASE RegisterClosed(i)
  BY <1>5 DEF RegisterClosed
<1>6. CASE PumpEnds(i)
  BY <1>6 DEF PumpEnds, StartClose
<1>7. CASE ChildExits(i)
  BY <1>7 DEF ChildExits
<1>8. CASE ServeOnce(i)
  BY <1>8 DEF ServeOnce, StartClose
<1>9. CASE Delete(i)
  BY <1>9 DEF Delete, StartClose
<1>10. CASE Teardown(i)
  BY <1>10 DEF Teardown
<1>11. CASE Release(i)
  BY <1>11 DEF Release
<1>12. CASE Touch(i)
  BY <1>12 DEF Touch
<1>13. CASE BecomesIdle(i)
  BY <1>13 DEF BecomesIdle
<1>14. CASE CloseDoomed(i)
  BY <1>14 DEF CloseDoomed, StartClose
<1>. HIDE DEF Sound, Claimed
<1>15. QED
  BY <1>1, <1>2, <1>3, <1>4, <1>5, <1>6, <1>7, <1>8, <1>9, <1>10, <1>11, <1>12, <1>13, <1>14

\* open reserves one slot.
LEMMA ReserveStep ==
    ASSUME Sound, NEW i \in SessionIds, OpenReserve(i)
    PROVE  Sound' /\ Claimed' \subseteq Claimed \cup {i}
  BY DEF OpenReserve, Sound, SessionTypes, SessionInv, Claimed

\* The sweeper and Close only collect.
LEMMA CollectStep ==
    ASSUME Sound, SweepIdle \/ \E c \in Closers : CloseBegins(c) \/ CloseReturns(c)
    PROVE  Sound' /\ Claimed' \subseteq Claimed
<1>1. UNCHANGED <<slot, handler, durable, once, child, idle>> /\ doomed' \in SUBSET SessionIds
      /\ \A i \in doomed' \ doomed : slot[i] = "live"
  BY DEF SweepIdle, CloseBegins, CloseReturns, sessionVars, Sound, SessionTypes
<1>2. QED
  BY <1>1 DEF Sound, SessionTypes, SessionInv, Claimed

\* Health requests and probes leave the sessions alone.
LEMMA SessionStutter ==
    ASSUME Sound, UNCHANGED sessionVars
    PROVE  Sound' /\ Claimed' \subseteq Claimed
  BY DEF sessionVars, Sound, SessionTypes, SessionInv, Claimed
-----------------------------------------------------------------------------
HealthTypes ==
    /\ hpc \in [Pollers -> {"idle", "memo", "wait", "woken", "lead",
                            "probing", "failed", "passed"}]
    /\ worker \in [Pollers -> {"off", "spawn", "running", "failed", "passed"}]
    /\ memo \in {"stale", "failed", "passed"}

\* The health requests whose probe holds a slot.
Probers == {h \in Pollers : hpc[h] = "probing"}

ProbesSound == HealthTypes

\* Steps of a health request that do not touch the probe counter.
LEMMA HealthSteps ==
    ASSUME ProbesSound, NEW h \in Pollers,
           \/ HealthStart(h) \/ HealthMemo(h) \/ HealthWoken(h) \/ HealthGivesUp(h)
           \/ HealthLead(h) \/ ProbeRefused(h) \/ ProbeSpawn(h) \/ ProbeSpawnFails(h)
           \/ ProbeReap(h) \/ WorkerEnds(h) \/ HealthFinish(h)
    PROVE  ProbesSound' /\ Probers' = Probers /\ probing' = probing
<1>. USE DEF ProbesSound, HealthTypes, Probers
<1>1. CASE HealthStart(h)
  BY <1>1 DEF HealthStart
<1>2. CASE HealthMemo(h)
  BY <1>2 DEF HealthMemo
<1>3. CASE HealthWoken(h)
  BY <1>3 DEF HealthWoken
<1>4. CASE HealthGivesUp(h)
  BY <1>4 DEF HealthGivesUp
<1>5. CASE HealthLead(h)
  BY <1>5 DEF HealthLead
<1>6. CASE ProbeRefused(h)
  BY <1>6 DEF ProbeRefused
<1>7. CASE ProbeSpawn(h)
  BY <1>7 DEF ProbeSpawn
<1>8. CASE ProbeSpawnFails(h)
  BY <1>8 DEF ProbeSpawnFails
<1>9. CASE ProbeReap(h)
  BY <1>9 DEF ProbeReap
<1>10. CASE WorkerEnds(h)
  BY <1>10 DEF WorkerEnds
<1>11. CASE HealthFinish(h)
  BY <1>11 DEF HealthFinish
<1>. HIDE DEF ProbesSound, Probers
<1>12. QED
  BY <1>1, <1>2, <1>3, <1>4, <1>5, <1>6, <1>7, <1>8, <1>9, <1>10, <1>11

\* A probe takes a slot when it starts and gives it back once, whether it
\* is done or gives up on its deadline.
LEMMA ProbeSlots ==
    ASSUME ProbesSound, NEW h \in Pollers
    PROVE  /\ ProbeStart(h) => /\ ProbesSound'
                              /\ h \notin Probers /\ Probers' = Probers \cup {h}
                              /\ probing' = probing + 1
           /\ ProbeDone(h) \/ ProbeDeadline(h) =>
                 /\ ProbesSound'
                 /\ h \in Probers /\ Probers' = Probers \ {h}
                 /\ probing' = probing - 1
<1>. USE DEF ProbesSound, HealthTypes, Probers
<1>1. CASE ProbeStart(h)
  BY <1>1 DEF ProbeStart, ProbeDone, ProbeDeadline
<1>2. CASE ProbeDone(h)
  BY <1>2 DEF ProbeStart, ProbeDone, ProbeDeadline
<1>3. CASE ProbeDeadline(h)
  BY <1>3 DEF ProbeStart, ProbeDone, ProbeDeadline
<1>4. QED
  BY <1>1, <1>2, <1>3

\* Sessions, the sweeper, Close and the clock leave the probes alone.
LEMMA HealthStutter ==
    ASSUME ProbesSound, UNCHANGED <<hpc, worker, probing>>, memo' \in {memo, "stale"}
    PROVE  ProbesSound' /\ Probers' = Probers /\ probing' = probing
  BY DEF ProbesSound, HealthTypes, Probers
-----------------------------------------------------------------------------
\* The counters: the bridge's probe counter counts the probes, and claimed
\* slots and probes together stay within the limit.
Counted ==
    /\ probing = Cardinality(Probers)
    /\ Cardinality(Claimed) + probing <= MaxSessions

Inv == Sound /\ ProbesSound /\ Counted

\* Cardinalities of parts of the finite sets SessionIds and Pollers.
LEMMA Finite ==
    /\ \A T \in SUBSET SessionIds : IsFiniteSet(T) /\ Cardinality(T) \in Nat
    /\ \A T \in SUBSET Pollers : IsFiniteSet(T) /\ Cardinality(T) \in Nat
  BY BridgeAssumption, FS_Subset, FS_CardinalityType

\* The sets counted are parts of SessionIds and Pollers.
LEMMA CountedSets == Claimed \in SUBSET SessionIds /\ Entries \in SUBSET SessionIds /\ Probers \in SUBSET Pollers
  BY DEF Claimed, Entries, Probers

\* Nothing is claimed and no probe started: the counts cannot grow.
LEMMA CountedKept ==
    ASSUME Counted, Claimed' \subseteq Claimed, Probers' = Probers, probing' = probing
    PROVE  Counted'
<1>1. Cardinality(Claimed') <= Cardinality(Claimed)
  BY CountedSets, Finite, FS_Subset
<1>2. Cardinality(Claimed') \in Nat /\ Cardinality(Claimed) \in Nat /\ probing \in Nat
  <2>1. Claimed' \in SUBSET SessionIds
    BY CountedSets
  <2>2. QED
    BY <2>1, CountedSets, Finite DEF Counted
<1>3. QED
  BY <1>1, <1>2, BridgeAssumption DEF Counted

\* What ~Full guarantees: room for one more claim or probe.
LEMMA RoomLeft ==
    ASSUME Counted, ~Full
    PROVE  Cardinality(Claimed) + probing + 1 <= MaxSessions
<1>1. Claimed \subseteq Entries
  BY DEF Claimed, Entries
<1>2. Cardinality(Claimed) <= Cardinality(Entries)
  BY <1>1, CountedSets, Finite, FS_Subset
<1>3. /\ Cardinality(Claimed) \in Nat /\ Cardinality(Entries) \in Nat
      /\ probing \in Nat
  BY CountedSets, Finite DEF Counted
<1>4. QED
  BY <1>2, <1>3, BridgeAssumption DEF Full

\* Every step keeps the inductive invariant.
LEMMA StepInv == Inv /\ [BridgeNext]_bridgeVars => Inv'
<1>. SUFFICES ASSUME Sound, ProbesSound, Counted, [BridgeNext]_bridgeVars PROVE Inv'
  BY DEF Inv
<1>. DEFINE SessionOK == Sound' /\ Claimed' \subseteq Claimed
            HealthOK == ProbesSound' /\ Probers' = Probers /\ probing' = probing
<1>1. SessionOK /\ HealthOK => Inv'
  BY CountedKept DEF Inv
<1>2. ASSUME NEW i \in SessionIds,
             SessionStep(i) \/ OpenRefused(i) \/ PumpEnds(i) \/ ChildExits(i)
             \/ Delete(i) \/ Touch(i) \/ BecomesIdle(i)
      PROVE  SessionOK /\ HealthOK
  <2>1. SessionOK
    BY <1>2, SessionSteps DEF SessionStep
  <2>2. UNCHANGED healthVars
    BY <1>2 DEF SessionStep, OpenRefused, WireFails, Wire, Register, RegisterClosed,
                PumpEnds, ChildExits, ServeOnce, Delete, Teardown, Release, Touch,
                BecomesIdle, CloseDoomed, healthVars
  <2>3. HealthOK
    BY <2>2, HealthStutter DEF healthVars
  <2>4. QED
    BY <2>1, <2>3
<1>3. ASSUME NEW i \in SessionIds, OpenReserve(i) PROVE Inv'
  <2>1. Sound' /\ Claimed' \subseteq Claimed \cup {i}
    BY <1>3, ReserveStep
  <2>2. HealthOK
    BY <1>3, HealthStutter DEF OpenReserve, healthVars
  <2>3. Cardinality(Claimed) + probing + 1 <= MaxSessions
    BY <1>3, RoomLeft DEF OpenReserve
  <2>4. Cardinality(Claimed') <= Cardinality(Claimed) + 1
    <3>1. IsFiniteSet(Claimed) /\ Cardinality(Claimed) \in Nat
      BY CountedSets, Finite
    <3>2. /\ IsFiniteSet(Claimed \cup {i})
          /\ Cardinality(Claimed \cup {i}) <= Cardinality(Claimed) + 1
      BY <3>1, FS_AddElement
    <3>3. Cardinality(Claimed') <= Cardinality(Claimed \cup {i})
      BY <2>1, <3>2, FS_Subset
    <3>4. Claimed' \in SUBSET SessionIds /\ Claimed \cup {i} \in SUBSET SessionIds
      BY DEF Claimed
    <3>5. Cardinality(Claimed') \in Nat /\ Cardinality(Claimed \cup {i}) \in Nat
      BY <3>4, Finite
    <3>6. QED
      BY <3>1, <3>2, <3>3, <3>5
  <2>5. Cardinality(Claimed') \in Nat /\ Cardinality(Claimed) \in Nat /\ probing \in Nat
    <3>1. Claimed' \in SUBSET SessionIds
      BY DEF Claimed
    <3>2. QED
      BY <3>1, CountedSets, Finite DEF Counted
  <2>6. Counted'
    BY <2>2, <2>3, <2>4, <2>5, BridgeAssumption DEF Counted
  <2>7. QED
    BY <2>1, <2>2, <2>6 DEF Inv
<1>4. ASSUME NEW h \in Pollers, HealthStart(h) \/ HealthGivesUp(h) \/ HealthStep(h)
      PROVE  Inv'
  <2>1. UNCHANGED sessionVars
    BY <1>4 DEF HealthStep, HealthStart, HealthMemo, HealthWoken, HealthGivesUp,
                HealthLead, ProbeRefused, ProbeStart, ProbeSpawn, ProbeSpawnFails,
                ProbeReap, ProbeDone, ProbeDeadline, WorkerEnds, HealthFinish,
                sessionVars
  <2>2. Sound' /\ Claimed' = Claimed
    BY <2>1, SessionStutter DEF sessionVars, Claimed
  <2>3. /\ Cardinality(Claimed) \in Nat /\ probing \in Nat
        /\ IsFiniteSet(Probers) /\ probing = Cardinality(Probers)
    BY CountedSets, Finite DEF Counted
  <2>4. CASE ProbeStart(h)
    <3>1. ProbesSound' /\ h \notin Probers /\ Probers' = Probers \cup {h} /\ probing' = probing + 1
      BY <2>4, ProbeSlots
    <3>2. probing' = Cardinality(Probers')
      BY <2>3, <3>1, FS_AddElement
    <3>3. Cardinality(Claimed) + probing + 1 <= MaxSessions
      BY <2>4, RoomLeft DEF ProbeStart
    <3>4. Cardinality(Claimed') + probing' <= MaxSessions
      BY <2>2, <2>3, <3>1, <3>3, BridgeAssumption
    <3>5. Counted'
      BY <3>2, <3>4 DEF Counted
    <3>6. QED
      BY <2>2, <3>1, <3>5 DEF Inv
  <2>5. CASE ProbeDone(h) \/ ProbeDeadline(h)
    <3>1. ProbesSound' /\ h \in Probers /\ Probers' = Probers \ {h} /\ probing' = probing - 1
      BY <2>5, ProbeSlots
    <3>2. probing' = Cardinality(Probers')
      BY <2>3, <3>1, FS_RemoveElement
    <3>3. Cardinality(Claimed') + probing' <= MaxSessions
      BY <2>2, <2>3, <3>1, BridgeAssumption DEF Counted
    <3>4. Counted'
      BY <3>2, <3>3 DEF Counted
    <3>5. QED
      BY <2>2, <3>1, <3>4 DEF Inv
  <2>6. CASE ~(ProbeStart(h) \/ ProbeDone(h) \/ ProbeDeadline(h))
    <3>1. HealthOK
      BY <1>4, <2>6, HealthSteps DEF HealthStep
    <3>2. QED
      BY <1>1, <2>2, <3>1
  <2>7. QED
    BY <2>4, <2>5, <2>6
<1>5. ASSUME SweepIdle \/ \E c \in Closers : CloseBegins(c) \/ CloseReturns(c)
      PROVE  SessionOK /\ HealthOK
  <2>1. UNCHANGED healthVars
    BY <1>5 DEF SweepIdle, CloseBegins, CloseReturns
  <2>2. QED
    BY <1>5, <2>1, CollectStep, HealthStutter DEF healthVars
<1>6. ASSUME MemoExpires \/ UNCHANGED bridgeVars PROVE SessionOK /\ HealthOK
  <2>1. UNCHANGED sessionVars /\ UNCHANGED <<hpc, worker, probing>> /\ memo' \in {memo, "stale"}
    BY <1>6 DEF MemoExpires, bridgeVars, healthVars
  <2>2. QED
    BY <2>1, SessionStutter, HealthStutter
<1>. HIDE DEF SessionOK, HealthOK
<1>7. QED
  BY <1>1, <1>2, <1>3, <1>4, <1>5, <1>6, Zenon DEF BridgeNext, InputStep

\* The initial state satisfies the inductive invariant.
LEMMA InitInv == BridgeInit => Inv
<1>. SUFFICES ASSUME BridgeInit PROVE Inv
  OBVIOUS
<1>1. Sound
  BY DEF BridgeInit, Sound, SessionTypes, SessionInv
<1>2. ProbesSound
  BY DEF BridgeInit, ProbesSound, HealthTypes
<1>3. Claimed = {} /\ Probers = {} /\ probing = 0
  BY DEF BridgeInit, Claimed, Probers
<1>4. Counted
  BY <1>3, FS_EmptySet, BridgeAssumption DEF Counted
<1>5. QED
  BY <1>1, <1>2, <1>4 DEF Inv
-----------------------------------------------------------------------------
\* Processes run only in claimed slots.
LEMMA Ceilings ==
    ASSUME Inv
    PROVE  ProcessCeiling /\ NoOrphan
<1>1. RunningChildren \subseteq Claimed
  BY DEF Inv, Sound, SessionTypes, SessionInv, RunningChildren, Claimed
<1>2. Cardinality(RunningChildren) <= Cardinality(Claimed)
  BY <1>1, CountedSets, Finite, FS_Subset
<1>3. RunningProbes \ GivenUp \subseteq Probers
  BY DEF RunningProbes, GivenUp, Probers
<1>4. Cardinality(RunningProbes \ GivenUp) <= Cardinality(Probers)
  BY <1>3, CountedSets, Finite, FS_Subset
<1>5. RunningChildren \in SUBSET SessionIds /\ RunningProbes \ GivenUp \in SUBSET Pollers
  BY DEF RunningChildren, RunningProbes
<1>6. /\ Cardinality(RunningChildren) \in Nat /\ Cardinality(Claimed) \in Nat
      /\ Cardinality(RunningProbes \ GivenUp) \in Nat /\ probing \in Nat
  BY <1>5, CountedSets, Finite DEF Inv, Counted
<1>7. Cardinality(Probers) = probing /\ Cardinality(Claimed) + probing <= MaxSessions
  BY DEF Inv, Counted
<1>8. ProcessCeiling
  BY <1>2, <1>4, <1>6, <1>7, BridgeAssumption DEF ProcessCeiling
<1>9. NoOrphan
  BY DEF NoOrphan, Inv, Sound, SessionInv
<1>10. QED
  BY <1>8, <1>9

-----------------------------------------------------------------------------
\* The health request that leads, from HealthLead to HealthFinish.
Leading(h) == hpc[h] \in {"lead", "probing", "failed", "passed"}

\* One leads at a time, and healthing says so.
Led ==
    /\ closed \in BOOLEAN /\ leader \in BOOLEAN
    /\ \A h \in Pollers : Leading(h) => leader /\ \A k \in Pollers : Leading(k) => k = h

\* Steps of a health request that neither begin nor end a lead.
LEMMA LeadKept ==
    ASSUME HealthTypes, Led, NEW h \in Pollers,
           \/ HealthStart(h) \/ HealthGivesUp(h) \/ HealthMemo(h) \/ HealthWoken(h)
           \/ ProbeRefused(h) \/ ProbeStart(h) \/ ProbeSpawn(h) \/ ProbeSpawnFails(h)
           \/ ProbeReap(h) \/ ProbeDone(h) \/ ProbeDeadline(h) \/ WorkerEnds(h)
    PROVE  Led'
<1>1. UNCHANGED <<closed, leader>>
  BY DEF HealthStart, HealthGivesUp, HealthMemo, HealthWoken, ProbeRefused, ProbeStart, ProbeSpawn,
         ProbeSpawnFails, ProbeReap, ProbeDone, ProbeDeadline, WorkerEnds, shutdown
<1>2. \A k \in Pollers : k # h => hpc'[k] = hpc[k]
  BY DEF HealthTypes, HealthStart, HealthGivesUp, HealthMemo, HealthWoken, ProbeRefused, ProbeStart,
         ProbeSpawn, ProbeSpawnFails, ProbeReap, ProbeDone, ProbeDeadline, WorkerEnds
<1>3. hpc'[h] \in {"lead", "probing", "failed", "passed"} => Leading(h)
  BY DEF HealthTypes, Leading, HealthStart, HealthGivesUp, HealthMemo, HealthWoken, ProbeRefused,
         ProbeStart, ProbeSpawn, ProbeSpawnFails, ProbeReap, ProbeDone, ProbeDeadline, WorkerEnds
<1>4. \A k \in Pollers : Leading(k)' => Leading(k)
  BY <1>2, <1>3 DEF Leading
<1>5. QED
  BY <1>1, <1>4 DEF Led

\* No probe is under way at first.
LEMMA LedInit == BridgeInit => Led
  BY DEF BridgeInit, Led, Leading

\* Every step of the bridge keeps Led.
LEMMA LedStep == HealthTypes /\ Led /\ [BridgeNext]_bridgeVars => Led'
<1>. SUFFICES ASSUME HealthTypes, Led, [BridgeNext]_bridgeVars PROVE Led'
  OBVIOUS
<1>1. CASE UNCHANGED <<hpc, leader>> /\ (closed' = closed \/ closed' = TRUE)
  BY <1>1 DEF Led, Leading
<1>2. ASSUME NEW i \in SessionIds,
             SessionStep(i) \/ OpenRefused(i) \/ OpenReserve(i) \/ PumpEnds(i) \/ ChildExits(i)
             \/ Delete(i) \/ Touch(i) \/ BecomesIdle(i)
      PROVE  UNCHANGED <<hpc, leader, closed>>
  BY <1>2 DEF SessionStep, OpenRefused, OpenReserve, WireFails, Wire, Register, RegisterClosed,
              PumpEnds, ChildExits, ServeOnce, Delete, Teardown, Release, Touch,
              BecomesIdle, CloseDoomed, healthVars, shutdown
<1>3. ASSUME \/ SweepIdle \/ MemoExpires \/ UNCHANGED bridgeVars
             \/ \E c \in Closers : CloseBegins(c) \/ CloseReturns(c)
      PROVE  UNCHANGED <<hpc, leader>> /\ (closed' = closed \/ closed' = TRUE)
  BY <1>3 DEF SweepIdle, CloseBegins, CloseReturns, MemoExpires, bridgeVars, healthVars, shutdown
<1>4. ASSUME NEW h \in Pollers, HealthLead(h) PROVE Led'
  <2>1. leader' = TRUE /\ leader = FALSE /\ UNCHANGED closed
        /\ \A k \in Pollers : k # h => hpc'[k] = hpc[k]
    BY <1>4 DEF HealthLead, HealthTypes, Led, shutdown
  <2>2. \A k \in Pollers : ~Leading(k)
    BY <2>1 DEF Led
  <2>3. \A k \in Pollers : Leading(k)' => k = h
    BY <2>1, <2>2 DEF Leading
  <2>4. QED
    BY <2>1, <2>3 DEF Led
<1>5. ASSUME NEW h \in Pollers, HealthFinish(h) PROVE Led'
  <2>1. leader' = FALSE /\ UNCHANGED closed /\ Leading(h)
        /\ \A k \in Pollers : hpc'[k] = IF k = h THEN "idle"
                                        ELSE IF hpc[k] = "wait" THEN "woken" ELSE hpc[k]
    BY <1>5 DEF HealthFinish, Leading, shutdown
  <2>2. \A k \in Pollers : Leading(k)' => Leading(k) /\ k # h
    BY <2>1 DEF Leading
  <2>3. \A k \in Pollers : ~Leading(k)'
    BY <2>1, <2>2 DEF Led
  <2>4. QED
    BY <2>1, <2>3 DEF Led
<1>6. ASSUME NEW h \in Pollers, HealthStart(h) \/ HealthGivesUp(h) \/ HealthStep(h) PROVE Led'
  BY <1>4, <1>5, <1>6, LeadKept DEF HealthStep
<1>7. QED
  BY <1>1, <1>2, <1>3, <1>6, Zenon DEF BridgeNext, InputStep

-----------------------------------------------------------------------------
\* Once the bridge is closed the processes are those of the sessions Close has
\* collected and of those still being opened, and once Close has returned the
\* former have been closed.
Shut ==
    /\ live \in SUBSET SessionIds
    /\ closing \in [Closers -> {"none", "reaping", "returned"}]
    /\ closed => \A i \in SessionIds : child[i] = "running" => handler[i] = "wired" \/ i \in live
    /\ Reaped => \A i \in live : once[i] = "done"

\* No session is collected at first.
LEMMA ShutInit == BridgeInit => Shut
  BY DEF BridgeInit, Shut, Reaped

\* A step of a session that leaves Close alone.
LEMMA ShutSession ==
    ASSUME Sound, Shut, NEW i \in SessionIds,
           SessionStep(i) \/ OpenRefused(i) \/ OpenReserve(i) \/ PumpEnds(i) \/ ChildExits(i)
           \/ Delete(i) \/ Touch(i) \/ BecomesIdle(i)
    PROVE  Shut'
<1>. USE DEF Sound, SessionTypes, SessionInv
<1>1. UNCHANGED shutdown
  BY DEF SessionStep, OpenRefused, OpenReserve, WireFails, Wire, Register, RegisterClosed, PumpEnds,
         ChildExits, ServeOnce, Delete, Teardown, Release, Touch, BecomesIdle, CloseDoomed
<1>2. \A j \in SessionIds : once[j] = "done" => once'[j] = "done"
  BY DEF SessionStep, OpenRefused, OpenReserve, WireFails, Wire, Register, RegisterClosed, PumpEnds,
         ChildExits, ServeOnce, Delete, Teardown, Release, Touch, BecomesIdle, CloseDoomed, StartClose
<1>3. ASSUME closed, NEW j \in SessionIds, child'[j] = "running"
      PROVE  handler'[j] = "wired" \/ (child[j] = "running" /\ handler[j] # "wired")
  BY <1>3 DEF SessionStep, OpenRefused, OpenReserve, WireFails, Wire, Register, RegisterClosed,
              PumpEnds, ChildExits, ServeOnce, Delete, Teardown, Release, Touch, BecomesIdle,
              CloseDoomed
<1>4. QED
  BY <1>1, <1>2, <1>3 DEF Shut, Reaped, shutdown

\* Every step of the bridge keeps Shut.
LEMMA ShutStep == Sound /\ Shut /\ [BridgeNext]_bridgeVars => Shut'
<1>. SUFFICES ASSUME Sound, Shut, [BridgeNext]_bridgeVars PROVE Shut'
  OBVIOUS
<1>1. CASE UNCHANGED <<handler, once, child, shutdown>>
  BY <1>1 DEF Shut, Reaped, shutdown
<1>2. ASSUME NEW h \in Pollers, HealthStart(h) \/ HealthGivesUp(h) \/ HealthStep(h)
      PROVE  UNCHANGED <<handler, once, child, shutdown>>
  BY <1>2 DEF HealthStep, HealthStart, HealthMemo, HealthWoken, HealthGivesUp, HealthLead,
              ProbeRefused, ProbeStart, ProbeSpawn, ProbeSpawnFails, ProbeReap, ProbeDone,
              ProbeDeadline, WorkerEnds, HealthFinish, sessionVars
<1>3. ASSUME SweepIdle \/ MemoExpires \/ UNCHANGED bridgeVars
      PROVE  UNCHANGED <<handler, once, child, shutdown>>
  BY <1>3 DEF SweepIdle, MemoExpires, bridgeVars, sessionVars
<1>4. ASSUME NEW c \in Closers, CloseBegins(c) PROVE Shut'
  <2>1. UNCHANGED <<handler, once, child>>
    BY <1>4 DEF CloseBegins
  <2>2. CASE ~closed
    <3>1. live' = {i \in SessionIds : slot[i] = "live"} /\ closing' = [closing EXCEPT ![c] = "reaping"]
      BY <1>4, <2>2 DEF CloseBegins
    <3>2. \A i \in SessionIds : child[i] = "running" => handler[i] = "wired" \/ i \in live'
      BY <3>1 DEF Sound, SessionTypes, SessionInv
    <3>3. ~Reaped' /\ closing' \in [Closers -> {"none", "reaping", "returned"}]
      BY <3>1 DEF Shut, Reaped
    <3>4. QED
      BY <2>1, <3>1, <3>2, <3>3 DEF Shut
  <2>3. CASE closed
    <3>1. UNCHANGED <<closed, live>> /\ closing' = [closing EXCEPT ![c] = "returned"] /\ closing[c] = "none"
      BY <1>4, <2>3 DEF CloseBegins
    <3>2. Reaped' => Reaped
      BY <3>1 DEF Shut, Reaped
    <3>3. QED
      BY <2>1, <3>1, <3>2 DEF Shut
  <2>4. QED
    BY <2>2, <2>3
<1>5. ASSUME NEW c \in Closers, CloseReturns(c) PROVE Shut'
  <2>1. /\ UNCHANGED <<handler, once, child, closed, live>> /\ \A i \in live : once[i] = "done"
        /\ closing' = [closing EXCEPT ![c] = "returned"]
    BY <1>5 DEF CloseReturns, sessionVars
  <2>2. QED
    BY <2>1 DEF Shut
<1>6. QED
  BY <1>1, <1>2, <1>3, <1>4, <1>5, ShutSession, Zenon DEF BridgeNext, InputStep

\* open, closeSession, sweepIdle, Close, Probe and Health, in any interleaving
\* of any number of sessions and health requests: the processes stay within
\* MaxSessions (those of probes given up apart), no session's process is without
\* a slot, and one health request at a time probes.
THEOREM ProcessesSoundCorrect == BridgeSpec => []ProcessesSound
<1>1. Inv => HealthTypes
  BY DEF Inv, ProbesSound
<1>2. Inv /\ Led /\ Shut => ProcessesSound
  <2>. SUFFICES ASSUME Inv, Led, Shut PROVE ProcessesSound
    OBVIOUS
  <2>1. ProcessCeiling /\ NoOrphan
    BY Ceilings
  <2>2. BridgeTypeOK
    <3>1. probing \in Nat /\ Cardinality(Claimed) \in Nat /\ Cardinality(Claimed) + probing <= MaxSessions
      BY CountedSets, Finite DEF Inv, Counted
    <3>2. probing \in 0..MaxSessions
      BY <3>1, BridgeAssumption
    <3>3. QED
      BY <3>2 DEF Inv, Sound, SessionTypes, ProbesSound, HealthTypes, Led, Shut, BridgeTypeOK
  <2>3. SingleProbe
    <3>. DEFINE P == {h \in Pollers : hpc[h] \in {"lead", "probing"}}
    <3>1. CASE P = {}
      BY <3>1, FS_EmptySet DEF SingleProbe
    <3>2. CASE P # {}
      <4>1. PICK h \in Pollers : h \in P
        BY <3>2
      <4>2. P = {h}
        BY <4>1 DEF Led, Leading
      <4>. HIDE DEF P
      <4>3. Cardinality(P) = 1
        BY <4>2, FS_Singleton
      <4>4. QED
        BY <4>3 DEF SingleProbe, P
    <3>3. QED
      BY <3>1, <3>2
  <2>4. QED
    BY <2>1, <2>2, <2>3 DEF ProcessesSound
<1>3. Inv => Sound
  BY DEF Inv
<1>4. QED
  BY <1>1, <1>2, <1>3, InitInv, StepInv, LedInit, LedStep, ShutInit, ShutStep, PTL DEF BridgeSpec

\* Close against open, closeSession, the pumps, the sweeper and a second Close:
\* when it has returned to the caller whose call collected the sessions, the
\* processes left are those of sessions whose open has not come back to the lock.
THEOREM ShutdownReapsCorrect == BridgeSpec => []ShutdownReaps
<1>1. Sound /\ Shut => ShutdownReaps
  BY DEF Sound, SessionInv, Shut, ShutdownReaps, Reaped
<1>2. Inv => Sound
  BY DEF Inv
<1>3. QED
  BY <1>1, <1>2, InitInv, StepInv, ShutInit, ShutStep, PTL DEF BridgeSpec
=============================================================================
