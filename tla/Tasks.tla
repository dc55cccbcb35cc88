------------------------------- MODULE Tasks -------------------------------
(***************************************************************************)
(* Who owns a task (gateway/tasks.go).  A task that a tool call mints is   *)
(* recorded with the upstream that holds it and the principal it was       *)
(* minted for; later task calls are routed by that record, and a task      *)
(* without one is looked for on every upstream.  The record lives in the   *)
(* Store of the fleet: Redis, with a mirror in every instance that is read *)
(* while Redis fails (redisStore).                                         *)
(*                                                                         *)
(* Records are keyed by task id and ids are unique, so one task is enough. *)
(* Its upstream never changes.  A record is NoRecord, or its owner: a      *)
(* principal, or Unowned for a task whose mint the gateway did not see.    *)
(***************************************************************************)
EXTENDS Naturals, FiniteSets

CONSTANTS NoRecord, Unowned,
          Owner,       \* the principal the task is minted for
          Others,      \* other principals
          Replicas     \* gateway instances

ASSUME TasksAssumption ==
    /\ NoRecord # Unowned /\ {NoRecord, Unowned, Owner, "mint"} \cap Others = {}
    /\ Owner \notin {NoRecord, Unowned, "mint"}

Principals == {Owner} \cup Others
Records == {NoRecord, Unowned} \cup Principals
Jobs == {"mint"} \cup Principals   \* the minting call, and one task call of each

VARIABLES
    record,   \* the record in Redis
    mirror,   \* MemStore of each instance
    job,      \* what each call is doing, where, and the record it has read
    reached,  \* history: the principals whose calls were forwarded or shown the task,
              \* since its mint is on record
    held,     \* whether the task exists at its upstream
    expired,  \* history: a record was lost to its ttl, or an operation of Redis failed
    overlap   \* history: the mint was recorded while a call that had not seen it was out

tvars == <<record, mirror, job, reached, held, expired, overlap>>

TasksInit ==
    /\ record = NoRecord
    /\ mirror = [r \in Replicas |-> NoRecord]
    /\ job \in [Jobs -> [at : {"new"}, on : Replicas, seen : {NoRecord}]]
    /\ reached = {} /\ held = FALSE /\ expired = FALSE /\ overlap = FALSE

Moves(j, at, seen) == job' = [job EXCEPT ![j] = [at |-> at, on |-> @.on, seen |-> seen]]

\* redisStore.Get; an operation that fails reads the mirror.
Get(j, v) ==
    \/ v = record /\ UNCHANGED expired
    \/ v = mirror[job[j].on] /\ expired' = TRUE

\* redisStore.Set: the mirror, then Redis, which may fail.
Save(j, v) ==
    /\ mirror' = [mirror EXCEPT ![job[j].on] = v]
    /\ \/ record' = v /\ UNCHANGED expired
       \/ UNCHANGED record /\ expired' = TRUE

\* Mutant of mergeTaskOwner: the discovering caller's view replaces the owner.
mergeTaskOwnerReassigns(prev, owner) == owner

\* The owner on record stays.
mergeTaskOwner(prev, owner) == IF prev \in {NoRecord, Unowned} THEN owner ELSE prev

\* A tool call mints the task: the upstream holds it before fold knows.
Mint == ~held /\ held' = TRUE /\ UNCHANGED <<record, mirror, job, reached, expired, overlap>>

\* noteMintedTask, storeTaskAffinity: load ...
MintLoad ==
    /\ held /\ job["mint"].at = "new"
    /\ \E v \in Records : Get("mint", v) /\ Moves("mint", "store", v)
    /\ UNCHANGED <<record, mirror, reached, held, overlap>>

\* ... and put.
MintStore ==
    /\ job["mint"].at = "store" /\ Moves("mint", "done", NoRecord)
    /\ Save("mint", mergeTaskOwner(job["mint"].seen, Owner))
    /\ overlap' = \E p \in Principals :
                      job[p].at \in {"locate", "pin", "store", "refresh", "listed"} /\ job[p].seen \in {NoRecord, Unowned}
    /\ reached' = {}
    /\ UNCHANGED held

\* routeTask: the record of another principal answers "not found", one of the
\* caller's own or of nobody is refreshed, none sends the call to the probes.
RouteLoad(p) ==
    /\ job[p].at = "new"
    /\ \E v \in Records :
           /\ Get(p, v)
           /\ CASE v = NoRecord -> Moves(p, "locate", NoRecord)
                [] v \in {Unowned, p} -> Moves(p, "refresh", v)
                [] OTHER -> Moves(p, "done", NoRecord)
    /\ UNCHANGED <<record, mirror, reached, held, overlap>>

\* The refresh and the forward.
Refresh(p) ==
    /\ job[p].at = "refresh" /\ Moves(p, "done", NoRecord)
    /\ Save(p, job[p].seen)
    /\ reached' = reached \cup {p}
    /\ UNCHANGED <<held, overlap>>

\* locateTaskOwner: tasks/get on the upstreams the caller's tenant sees.
Locate(p) ==
    /\ job[p].at = "locate"
    /\ \/ held /\ Moves(p, "pin", NoRecord)
       \/ Moves(p, "done", NoRecord)   \* not held, not visible, or not answering
    /\ UNCHANGED <<record, mirror, reached, held, expired, overlap>>

\* storeTaskAffinity of the located task, again load and put, and the forward.
PinLoad(p) ==
    /\ job[p].at = "pin"
    /\ \E v \in Records : Get(p, v) /\ Moves(p, "store", v)
    /\ UNCHANGED <<record, mirror, reached, held, overlap>>

PinStore(p) ==
    /\ job[p].at = "store" /\ Moves(p, "done", NoRecord)
    /\ Save(p, mergeTaskOwner(job[p].seen, Unowned))
    /\ reached' = reached \cup {p}
    /\ UNCHANGED <<held, overlap>>

\* listTasks: one load for the page; another's task is hidden, and only a
\* record that is new or changed is written.
ListLoad(p) ==
    /\ job[p].at = "new" /\ held
    /\ \E v \in Records :
           /\ Get(p, v)
           /\ reached' = IF mergeTaskOwner(v, Unowned) \in {Unowned, p} THEN reached \cup {p} ELSE reached
           /\ Moves(p, IF v = NoRecord THEN "listed" ELSE "done", v)
    /\ UNCHANGED <<record, mirror, held, overlap>>

ListStore(p) ==
    /\ job[p].at = "listed" /\ Moves(p, "done", NoRecord)
    /\ Save(p, mergeTaskOwner(job[p].seen, Unowned))
    /\ UNCHANGED <<reached, held, overlap>>

\* A caller makes its next task call, on any instance.
Again(p) ==
    /\ job[p].at = "done"
    /\ \E r \in Replicas : job' = [job EXCEPT ![p] = [at |-> "new", on |-> r, seen |-> NoRecord]]
    /\ UNCHANGED <<record, mirror, reached, held, expired, overlap>>

\* taskOwnerTTL ends without a use of the record.
Expire ==
    /\ record # NoRecord /\ record' = NoRecord /\ expired' = TRUE
    /\ UNCHANGED <<mirror, job, reached, held, overlap>>

TasksNext ==
    \/ Mint \/ MintLoad \/ MintStore \/ Expire
    \/ \E p \in Principals : \/ RouteLoad(p) \/ Refresh(p) \/ Locate(p) \/ PinLoad(p) \/ PinStore(p)
                             \/ ListLoad(p) \/ ListStore(p) \/ Again(p)

TasksSpec == TasksInit /\ [][TasksNext]_tvars
-----------------------------------------------------------------------------
JobStages == {"new", "locate", "pin", "store", "refresh", "listed", "done"}

TasksTypeOK ==
    /\ record \in Records /\ mirror \in [Replicas -> Records] /\ reached \subseteq Principals
    /\ job \in [Jobs -> [at : JobStages, on : Replicas, seen : Records]]
    /\ held \in BOOLEAN /\ expired \in BOOLEAN /\ overlap \in BOOLEAN

\* mergeTaskOwner: "discovery via list or probe updates routing but never
\* reassigns ownership".  Once the mint is on record, whatever probes, lists,
\* refreshes and instances do, the record keeps its owner and nobody else's call
\* reaches the task; the exceptions are a call that had read the store before
\* the mint was recorded (overlap), and a lost record or Redis (expired).
OwnerKept ==
    /\ TasksTypeOK
    /\ job["mint"].at = "done" /\ ~expired /\ ~overlap => record = Owner /\ reached \subseteq {Owner}
=============================================================================
