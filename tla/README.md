# fold in TLA+

Models of [fold](../src/README.md), a gateway that federates MCP servers: one
endpoint towards clients, many upstream servers behind it. The modules here
model the parts of fold whose correctness depends on interleavings, failures
and bounds; TLC checks them on small instances, and TLAPS proves the central
results for every instance. `PROJECT.json` maps every definition to the lines
of source it stands for.

## The system

| component | state it keeps | operations | interacts with |
|---|---|---|---|
| `gateway` request path | routing table (swapped on reload) | list, call, read, subscribe, tasks | everything below |
| `gateway/upstream.go` | root and per-client sessions, endpoint pool, list cache, limiter, breaker, budgets | `guardedDo`, `rootSession`, `bridgedSession`, `dropSession`, sweep, `Close` | SDK client, `internal/state` |
| subscriptions (`gateway.go`) | `subscribers`, `subCount` under `subMu` | subscribe, unsubscribe, sweep | upstream root sessions, reload |
| `internal/breaker` | state, failure run, opening time, probe slot | `Allow`, `Record` | `guardedDo` |
| `internal/state` | limiter, breaker, cache, budget, once, store; in process or in Redis | one interface, two providers | Redis |
| `internal/cache` | entries with in-flight markers | `GetOrFill`, `Invalidate` | list fan-out, `list_changed` |
| `internal/bounded` | two generations of entries | `Load`, `Store`, `LoadOrStore`, `Delete` | tasks, ownership, replay, limiters, icons |
| reload, `discovery.go` | current and retired upstreams, last good document | reload, sync, drain | routes, subscriptions |
| `auth` | JWKS sets, replay records, upstream tokens | verify, exchange, fetch | IdPs |
| `audit` | bounded queue, retry state, dead letters | `Emit`, deliver, `Close` | collectors |
| `policy`, `tenant.go`, `hook.go`, `router.go`, `paginate.go` | documents of the routing snapshot; the index from URI to upstream | decide, scope, ask, route, page | request path |
| `tasks.go`, `pinning.go` | records in a shared store | route by owner; compare definitions | `internal/state` |
| bridging (`gateway.go`) | a stack of invocation contexts per session | push, pop, forward | upstream sessions, clients |
| HTTP front (`gateway.go`, `iconproxy.go`, `rescue.go`) | health report, icon bytes, limiters | the layers of `buildHandler` | every request |
| `config` | the document | `Validate` | start-up, reload, discovery |
| `internal/stdiobridge` | session map, process per session, health memo | open, pump, close, sweep, `Probe`, `Health` | child processes, `/health` |
| `internal/kubediscovery`, `internal/mcpregistry` | last good document | watch, sync, serve | discovery |

What is hard: calls to an upstream are made after the lock that decided on them
is released (subscriptions, sessions, cache fills, session opens); guards with
locks of their own are crossed one after the other by overlapping calls
(`guardedDo`); notifications and timeouts race what they are about
(`list_changed` against a fill, a probe's deadline against its process, a late
failure against the half-open probe); several instances share Redis without
transactions; clients, children and upstreams go away without saying so. The
`hazards` of `PROJECT.json` list these at their lines.

## Modules

| module | models | state ↔ code | actions ↔ code |
|---|---|---|---|
| `Breaker` | `internal/breaker` | the four fields; `elapsed` is `now - openedAt`, saturating | `Allowed`/`Admit` = `Allow`; `RecordSuccess`, `RecordFailure` = `Record` |
| `Guard` (extends `Breaker`) | `guardedDo`, `chargeBudgets`, `memBudget` | `pc`, `next` the position of each call; `used` the counters | one action per critical section on the way, in the code's order; `Roll` the end of a budget window |
| `RedisBreaker` | `redisBreaker` | `keys`: failures, openUntil, probe, with their ttls | one action per round trip of `Allow` and `Record`; `FleetTick` |
| `Limits` | `internal/ratelimit`, `redisLimiter`, `redisBudget` | two windows, local and shared; one counter per calendar period, clocks that differ | `Allow` of either limiter, `Add` of the budget, time, Redis failing |
| `Jwks` | `auth/jwks.go`, `verifier.go` | `entry` is `jwksEntry`, `fetch` the holder of its gate; `idp` the issuer | lookup, gate, fetch and its outcomes; the issuer publishes, withdraws, fails |
| `LossyMap` | what `internal/bounded` promises | one value or none per key | abstract `Load`, `Store`, `LoadOrStore`, loss |
| `BoundedMap` | `internal/bounded` | `cur`, `prev` | one action per method (each holds the lock throughout) and `Expire` |
| `ListCache` | `internal/cache` under `cachedList` and `invalidateList` | `entry`, `value` of one key; `version` the upstream's list | the sections of `GetOrFill` between lock operations; `Invalidate`; `Change`, `Expire` |
| `RedisCache` | `redisCache` in `internal/state` | `gen`, `data` by generation | one action per Redis round trip, each of which may fail |
| `Front` | `buildHandler` on: host, body, auth, limits, health, icons | `req` the layer each request is in; `audited` its events in the trail; the health report and the icon entry | one action per layer; what `ServeToken` reports; the fan-out of pings; the flight of an icon; panics; reloads |
| `Exchange` | `auth/upstream.go` and the token endpoint of `auth/ema.go` | gates, waiters and cached token of one key; the record of one assertion | the sections of `cachedFetch`; redemption at any instance, Redis failing |
| `Policy` | `policy/policy.go` | `document` in force; `asked` the last call with its answer | `decide` on both paths and in both modes, `match`, `subjectsMatch`, shortfall; reloads |
| `Tenancy` (extends `Policy`) | `tenant.go` | `tenants`, `counter` of each budget object | `resolveTenant` through the indexes; `wire` on reload; spending |
| `Paging` | `paginate.go`, `shaping.go` | `merged` list, each caller's `walk` | one request per page; changes of the list between |
| `Routing` | `router.go`, `hook.go`, the URIs of `gateway.go` | `snapshot`, `resourceOwner`, `req` with its audit event | list, call with the stages and methods of the hook, read with affinity and probe; reloads |
| `Tasks` | `tasks.go` over `redisStore` | the record and each instance's mirror | mint, task call, list, refresh in their round trips; expiry, Redis failing |
| `Audit` | `src/audit` | `ch`, `worker`, `file` with its numbered files, `logger`; `fate` what was reported | `New` and its guard, `Emit` in two steps, collect, deliver, back off, dead-letter, rotate with any of its renames failing, drain, `Close` |
| `Bridging` | invocation contexts and forwarded requests | `callCtx`, `stacks`; `dead` the contexts that are done | push, pop in two steps, cancellation, forward, reload |
| `Config` | `Validate`, `checkDiscoveredCredentials`, `resolve`, `uiOwner`, `buildHandler` | `running`, `base`, `found` | start, `Reload`, `setDiscovered` |
| `Subscriptions` | subscribe, unsubscribe, `reapSubscribers`, `rootSession`, `dropSession`, `markSubscribed` | `subscribers`, `subCount`; `subscribed` of the root entry; `held` what the upstream keeps | sections under `subMu`; `Land` the effect at the upstream; `Mark` its record; the sweep in four steps; loss, reconnect and replay |
| `StdioBridge` | `internal/stdiobridge` | `slot` the session map (a nil entry while opening), `once`, `probing`, `leader`, `memo`; `child`, `worker` the processes; `live`, `closing` the calls of `Close` by `main` and by the signal handler | `open` in three steps, `closeSession` in three, sweep and `Close` in two, `Probe`, `Health`; nothing but the children runs on after `main` has returned |
| `Sessions` | sessions of upstream objects (`rootSession`, `bridgedSession`, `dropSession`, `sweepBridged`, `Close`), drain, `Gateway.Close` | `phase`, `drain` of each object; `slots` is `roots` and `bridged`; `age` is the time since `lastUsed`; `open` the sessions not closed | a request's critical sections under `u.mu` and the calls between them; `Swap` any reload, `Drain` its goroutine, `Stop`/`StopOne` `Gateway.Close` |
| `Federation` (extends `Sessions`) | `Reload`, `setDiscovered`, `applyLocked`, `buildRoutes`, `discovery.go` | `baseCfg`, `discovered`, `routes`; `lastDoc` is `lastHash` | `Apply` is `applyLocked` and makes the `Swap`; `Fetch` and `Sync` the discoverer |
| `Endpoints` | `endpoints.go` and `upstream.connect` | `next`, `cooling` the pool; `walk` what each connect has left to try | `Walk` = `candidates`, cut to the limit; `ConnectOK`, `ConnectFail`, `Probe` with `markUp`, `markDown` |

The MC modules put the components a request meets at one stage side by side.
`part` says which of them a behaviour exercises; the others keep the state they
began in, so that a run explores the sum of its parts' states and not their
product, and the invariants of every part are looked at in every state.

| module | parts |
|---|---|
| `MCGuard` | `Guard`, `RedisBreaker`, `Limits` (limiter; budget), `Jwks` |
| `MCCaches` | `ListCache` or `RedisCache` with the same callers and upstream, `BoundedMap`, `Front`, `Exchange` (credentials; redemption) |
| `MCRequests` | `Policy`, `Tenancy`, `Paging`, `Routing`, `Config`, `Tasks`, `Audit`, `Bridging` |
| `MCUpstreams` | `Federation` with its `Sessions` under traffic, the same under discovery, `Endpoints` |
| `MCClients` | `StdioBridge`, `Subscriptions` |

The theorems are in eight modules, each about components that meet in one run:
`GuardProofs` (`Guard`, `RedisBreaker`, `Limits`, `Jwks`), `CachesProofs`
(`BoundedMap`, `RedisCache`, `ListCache`, `Front`, `Exchange` and `MCCaches`,
their composition), `RequestsProofs` (`Policy`, `Tenancy`, `Routing`, `Paging`,
`Config`, `Tasks`, `Bridging`), `AuditProofs`, `SubscriptionsProofs`,
`StdioBridgeProofs`, `SessionsProofs` and `FederationProofs`.

Variables marked *history* in a module record what happened and guard nothing.
Definitions whose comment begins with "Mutant of" are deliberate errors in the
definition that follows: with one substituted for the original, TLC reports the
property it is listed with in `PROJECT.json`. No specification uses them.

### What the models leave out

- `Breaker`: a breaker with threshold 0 is nil and does nothing. The branch of
  `Allow` that grants a free slot while half-open is kept, but unreachable:
  half-open and a taken slot begin and end together (`SlotIffHalfOpen`).
- `Guard`: the limiter is a free choice, since nothing later depends on it; a
  rate-limited call is repeated only after another attempt. Sessions are
  reduced to success or failure of `acquire`; `dropSession` is in
  `Subscriptions`. A client that cancels is a failed call, as in the code. A
  call that panics is not modelled. An allowance of 0 is `unlimitedBudget`.
- `RedisBreaker`: the decision of the local mirror, used while Redis fails, is
  free; the mirror itself is `Breaker`.
- `Limits`: weights are whole ticks, floats and the retry hint are left out.
- `Jwks`, `Exchange`: one issuer, one key, one assertion; what else a token or
  an assertion must satisfy is a free choice.
- `ListCache`: lists are version numbers. The error branch after a wait
  (cache.go 60-67) cannot be taken, as a failed fill deletes its entry.
- `RedisCache`: an `INCR` that never reaches Redis changes nothing, so it is no
  step; `announced` follows the ones that do.
- `Front`: what the SDK, the token endpoint and upstreams answer is free. Of a
  body it matters only how it fares. A panic with `http.ErrAbortHandler`, which is
  passed on to `net/http`, is left out.
- `Policy`: redaction of result fields is left out; names are short sequences
  because the matcher walks them, everything else is a model value.
- `Tenancy`: the in-memory provider's counters (with Redis the count is outside
  the object); the limiter is kept by the same rule as the budget.
- `Paging`: fingerprints are exact, a cursor is the record it encodes.
- `Routing`: completion requests route as calls do; passthrough is in `Config`.
- `Tasks`: one task, whose upstream does not change; payloads are left out.
- `Audit`: one sink. Scrubbing and encoding are left out, except that encoding
  may fail; the buffer and worker of the OTLP sink are the SDK's, which makes room
  by dropping the oldest record and says so to nobody.
- `Bridging`: one session; a call may be cancelled at any time, by its client or
  its deadline; the bodies and ids of forwarded requests are left out.
- `Config`: checks of a single field are one Boolean of its section.
- `Subscriptions`: one upstream and its plain shared root session; sessions
  without an id, policy refusals and `subscribeTarget` are left out; one
  connect at a time.
- `StdioBridge`: messages are not modelled. Idleness, the age of the health
  memo and the probe's deadline are free choices. Session ids are never reused
  (`rand.Text`). A `Touch` of a session that is not idle changes nothing.
- `Sessions`: a key stands for a bridged session, a caller's root or the root of
  clients that show UI; all but the shared root are swept alike. A root entry
  that has no session is not kept (only its subscriptions are lost with it,
  which `Subscriptions` models for the shared root). No time passes between
  getting a session and the call, although the replay of subscriptions and a
  shared budget store take some. All requests have one timeout; the time to
  connect is unbounded.
- `Federation`: settings are opaque, a name is id and namespace at once.
  Sections that cannot change without a restart, policy, tenants, the move of
  subscriptions and the `list_changed` that follows a swap are left out. The
  check of a document against the allowlists comes before the lock in the code
  and is part of `Malformed` here (`Config` models it).
- `Endpoints`: whether an endpoint answers is decided in the step that marks it.

### Not modelled

Definition pinning (`pinning.go`), which reports drift and decides nothing; the
two discovery feeds (`kubediscovery`, `mcpregistry`), separate processes whose
output `Federation` takes as any sequence of documents; metrics, tracing,
introspection and the console, which only observe; the rewriting of icons, UI
addresses and errors inside results, and the redaction of fields, which are
formatting; the commands and tools.

## Runs

| run | shows |
|---|---|
| `Guard` | breaker and slot stay consistent however calls overlap (`BreakerSound`, `SlotHasHolder`); nobody is billed for a call that never went out (`BilledInOrder`); one probe fleet-wide (`OneProbe`); a rolling minute admits less than twice the rate (four times when Redis fails in it and the local mirror decides too), a period its allowance once (`LimitsHold`); withdrawn keys stop verifying, fetches of keys are spaced (`WithdrawnStops`, `FetchesSpaced`); once faults stop for good the circuits end up closed for good (`MCRecovers`) |
| `Caches` | lists are as new as announced, in process except after a race (`MCFresh`); lists, icons and tokens are fetched by one request at a time (`MCSingleFlight`); every refusal of a layer and every answer of the token endpoint is audited once, except a body cut off inside that endpoint, which is audited twice (`RefusedOnce`); health is of a snapshot in force (`HealthOfOwnWorld`); an assertion is redeemed once (`RedeemedOnce`); keys in use survive rotations (`InUseSurvives`); refinement of `LossyMap`; everyone is answered, except the followers of an icon fetch that panicked (`MCAnswered`) |
| `Requests` | a document is read one way by every path, and what may be called is listed (`OnePolicy`); globs mean what they say (`GlobExact`); a shortfall is a remedy (`Remedy`); tenant indexes are exact and spending survives reloads (`IndexExact`, `AllowanceKept`); walks are whole (`WalkIsWhole`); reads stay in the tenant's subset and miss nothing (`ReadsSound`); the event of a call carries the hook's outcome exactly if the hook inspects it, and says so if it failed open (`UninspectedIsRecorded`); tasks keep their owner (`OwnerKept`); every event is accounted for but those the OTLP SDK drops, and what is said to be on disk is there until it ages out or a failed rename lets it be overwritten (`TrailComplete`); names and UI addresses lead back to their upstream and handlers fit on one mux (`AddressesLead`); discovered upstreams get no secret they may not have (`SecretsConfined`); traffic never rides a call that is finished or cancelled (`NoDeadContext`) |
| `Upstreams` | the snapshot is the merged document (`ServesMerged`); no closed session is handed out, none is forgotten unless installed too late (`Accounted`); the drain spares calls that are out, and the sweep those on a session used within the idle timeout (`SparesCalls`); discovery converges (`Converges`); the endpoint that answers is reached (`MCLiveEndpointReached`) |
| `Clients` | ceiling, no orphans, one probe at a time (`ProcessesSound`), health requests answered (`HealthAnswers`); when `Close` has closed its sessions, only a session still being opened has a process (`ShutdownReaps`); subscription counts in step with the table and within the limit (`CountInStep`), undisturbed subscriptions survive reconnects (`WantedIsHeld`), departed clients are reaped (`GoneAreReaped`) |
| `GuardProbeLeak` | **violated**: a refused probe keeps the half-open slot for ever |
| `ListCacheStale` | **violated**: an announcement during a fill is lost |
| `SubsTearDown` | **violated**: a late unsubscribe ends another client's subscription |
| `BridgeZombieSlot` | **violated**: a dead session is registered and its slot never freed |
| `PolicyUnknown` | **violated**: unknown annotations disable a deny clause |
| `AuditDurable` | **violated**: a sink without its dead-letter file counts as durable |
| `BridgeContext` | **violated**: traffic of a call in flight finds no invocation |

Bounds. Two callers are the least that race, and every race found needs no more;
the theorems cover any number.

- `Guard`: threshold 2 separates a failure that trips from one that does not.
  `FailureCap` is one above the threshold: the code only compares the counter
  with the threshold. Three requests of a fleet let a probe's key expire and be
  claimed again while a third reports. The window of 4 ticks and a rate of 3 let
  calls bunch at both sides of a change of window; `TimeCap` is two periods, so
  that a counter can be dropped early in one and recreated. Keys: two, so that
  one is withdrawn while another is published; `Holdoff` below `JwksTtl`.
- `Caches`: three keys over generations of one rotate twice before a key
  returns. One change and two generations are enough for a late fill to meet a
  newer one. Two HTTP requests, one of any shape and one it competes with, over
  two snapshots. Three callers for a token: one fetches, one waits, one arrives
  after the gate is dropped. Three presentations of an assertion at two
  instances.
- `Requests`: documents of up to two rules out of eight that use every feature;
  four callers; names of up to three letters, against patterns whose parts may
  overlap. Tenant documents over two tenants and seven selectors, so that every
  index and every ambiguity occurs. Lists of up to four items in pages of two.
  Two snapshots of three upstreams with different subsets, policy and hook: one
  hook inspects both stages of every method and fails open, the other the results
  of `tools/call` and fails closed, so that `prompts/get` goes uninspected. Three
  audit events against a buffer and batches of two, and files of one line of which
  two are kept, so that a numbered file is shifted; that lines age out needs more
  rotations than three events make and rests on the theorem. Two calls of a
  session over at most two stacks. Audit events come in one order and the mint is
  at the first instance, since events and instances are alike; `tools/call` and
  `prompts/get` run beside reloads but not beside the other client's requests,
  with which they share nothing else. Configurations vary one group of sections at a time
  around a plain one; namespaces begin one another, names contain the separator.
- `Upstreams`: identities of objects and sessions are used again once nobody has
  them, so the behaviours are not cut. Traffic is on two objects of one upstream, with a
  request timeout of 2 and an idle timeout of 0, so that the sweep meets calls
  that have been out for longer than that and calls that have not;
  discovery has two names, three configurations, of which one collides with a
  document, and a malformed document; a walk tries 2 of 3 endpoints.
- `Clients`: subscriptions in two situations. Two sessions share one URI, with
  losses and reconnects at any time; and one session asks for three URIs under a
  limit of two, so that requests are refused, counts go up and down between 0 and
  2, and a refused URI is accepted after another was given up. In the second the
  upstream is lost only while nothing is held, and operations overlap on one URI.
  The contended slot of the bridge is one, over which one session and two probes
  compete while the two calls of `Close` come in either order; opens that race
  each other rest on the theorems.

`CHECK_DEADLOCK FALSE`: in `Clients`, a program that has ended does nothing
more; in `Requests`, a closed log, tasks that were all called, and a
session whose calls are over. `MCGuard` and `MCCaches` let a behaviour stutter
where only a bound ends it (`TimeIsUp`, `Over`).

Fairness. A goroutine that can run does: the steps of a call in progress are
weakly fair per caller (each waits under a deadline: `requestTimeout`,
`probeTimeout`, `opCtx` of Redis, the SDK's kill after its grace period).
Tickers fire: `Clock`, `FleetTick`, `SweepIdle`, the subscription sweep. In
`StdioBridge` all of this holds only until `main` returns: nothing is assumed of
openers, teardowns and probes after that, and neither call of `Close` is assumed
to be made.
`MCRecovers` also assumes that clients keep sending requests, since only a
request can probe. Nothing is assumed of clients that subscribe, connect or
leave, of upstream changes, faults or expiry. The discoverer polls until it is
stopped; its sync is strongly fair, because `reloadMu` is a `sync.Mutex`, which
does not starve a waiter however many reloads go on; drains end and time passes,
so that there are identities for new objects. HTTP requests go through their
layers, and pings and icon fetches end by their timeouts. Connects of one
upstream keep coming and each attempt ends (`connectTimeout`); cool-downs end.
Probes of endpoints are not assumed: they are off unless configured.

## Findings

1. *Half-open slot leak.* `chargeBudgets` refuses after `breaker.Allow`
   admitted the call as its probe and `guardedDo` returns without `Record`. The
   upstream stays refused until restart. `SlotHasHolder` and `MCRecovers`, which
   hold until this happens, show that it is the only leak.
2. *Lost invalidation.* `Cache.Invalidate` skips entries in flight; a fill that
   read the old list caches it after clients were told to refetch. The Redis
   provider does not have this race (`FreshCorrect`).
3. *Torn-down subscription.* `handleUnsubscribe` calls the upstream after
   `subMu` is released.
4. *Zombie slot.* `Bridge.open` registers a session whose pumps may already
   have closed it.
5. *Unknown annotations admit.* A deny clause with a `toolKind` is skipped when
   the annotations are not known, like an allow clause; the documentation says
   that unknown annotations deny.
6. *Durability credited too early.* `audit.New` counts a sink as durable when it
   was built, also if its dead-letter file did not open.
7. *Stack deleted under a new call.* The pop of `pushCallCtx` deletes the
   session's stack after releasing its lock; a call pushed meanwhile is not
   found by the traffic of its upstream.

Other places where the code does less than a comment says: an audit event sent
after the worker left is not counted, nor is one that the OTLP SDK's queue drops
or that comes after its `Shutdown`, although audit.go promises a count
(`TrailComplete` excepts both); `rotate` ignores a rename that fails and moves the
next file over the one that stayed (the same); a body over the limit is audited
twice when it is cut off inside the token endpoint (`RefusedOnce`); an icon fetch
that panics leaves its followers waiting until their clients hang up
(`MCAnswered`); the idle sweep closes a session under a call that has been out for
longer than the idle timeout, which `timeouts.requestMs` may exceed
(`SparesCalls`); `Close` of the stdio bridge waits neither for sessions being
opened nor for probes, and the second of the two calls returns at once, so that
`fold-stdio` can end before their children do, against "no process is left
orphaned" in its main.go (`ShutdownReaps`); an owner can
be lost to a call that read the store before the mint (`OwnerKept`); an
assertion can be redeemed again within the leeway after its expiry
(`RedeemedOnce`); the first fetch of a key set records no hold-off when it fails
(`FetchesSpaced`); residency of `bounded.Map` can exceed twice its limit; a
second probe can run beside a slow first one; allowances are spent before a
wider one refuses; abandoned probes leave processes behind for a while; the
waiters of a failed fill each repeat it; sessions can be installed after the
`Close` of their upstream; a document refused for a collision is not tried again
when a reload removes the collision; a caller that gives up ejects healthy
endpoints; and icon addresses are minted also where `/icons/` is not mounted
(icons switched off, or a gateway that started in passthrough and was reloaded to
several upstreams).

## Proofs

All theorems but two are about the components' own specifications, whose steps
are the steps of their part in the runs; `FreshInBoth` and `SingleFlightCorrect`
are about the composition `MCCaches`. They hold for every value of the constants
allowed by the modules' assumptions, which say that bounds are naturals, sets that
are counted are finite, markers are not values and documents, snapshots, lists and
configurations have the shape the code gives them: a pattern has at least one part
(`strings.Split`), a separator at least one character (`NamespaceSeparator`
defaults an empty one), and the path-scoped metadata address is none of the others
(it ends in the path of `auth.resource`). Beyond that `Limits` assumes
that clocks differ by no more than the hour a counter outlives its period, `Jwks`
that the hold-off is not longer than the ttl, `Policy` that every rule has an id (`Validate`
requires it), and `Tenancy` that every tenant has selectors (so does it).

`GuardProofs`

- `TypeCorrect`; `BreakerCorrect` (`BreakerSound`), which needs only that the
  failure counter never exceeds its cap and that each `Record` moves state, count
  and slot together; `HolderCorrect`: `HolderInv` adds that a caller marked as a
  probe is between `Allow` and `Record` and that each exit of `guardedDo` but the
  budget refusal records; `BillingCorrect` from what a call at each position has
  been charged.
- `OneProbeCorrect`: `OneProbe` is inductive with `ProbeKeyed`, which says that
  while somebody holds the probe the probe key exists. A claim needs the key to
  be absent, and what removes the key makes its holder stale.
- `WithdrawnStopsCorrect`, `FetchesSpacedCorrect`: `JwksInv` bounds how long ago a
  key was withdrawn by the age of the fetch that has read it (`KeysAged`), then of
  the cached set; the gate has one holder (`GateHeld`); what is left of the
  hold-off and the time since the last fetch make up a whole one (`HoldKept`); an
  older key verifies only while a failed fetch is held off (`AnswersAged`).
- `LimitsHoldCorrect`. A window's estimate bounds a rolling minute only through
  `Bounded`: what was admitted since the window began is at most its count and the
  rate, what was admitted before it in the same minute at most the previous
  window's count, and a window that has a previous one never admits the full
  rate. The step that admits is arithmetic on the weighted estimate. For the
  budget, `Kept` says that the counter of a period lives until no clock within
  the slack is in that period any more, so that it is never begun anew.

`CachesProofs`

- `HomesCorrect`: `OneHome` is inductive only with "keys in use are in the live
  generation"; `InUseSurvivesCorrect` is the action property that follows;
  `Refinement`: every method maps to a step of `LossyMap` on what a reader sees,
  a rotation is a `Store` that loses others.
- `GenerationsCorrect`, `FreshCorrect`: generations to come are empty, a caller's
  generation has begun, what it fetched is no older than that generation; and
  the current generation began with the latest announcement.
- `RefusedOnceCorrect`, `HealthOfOwnWorldCorrect`: `FrontInv` gives for the
  place of each request how many events it has had (one before the tripwire
  unwinds exactly if the token endpoint was reading), that a snapshot is
  taken after the request began, and that who rechecks or fetches an icon leads
  its flight.
- `RedeemedOnceCorrect`: while the assertion lives, a record outlives it wherever
  there is one, each degraded instance has a record of its own, and no more was
  minted than one for the record in Redis and one per degraded instance.
- `FreshInBoth` (`MCFresh`) and `SingleFlightCorrect` (`MCSingleFlight`): `MemInv`
  says of the in-process cache that one caller fills, exactly while the entry says
  so or until a fill panicked, and that a list older than an announcement was being filled when it came.
  `GatesInv` says of tokens that a gate is in the map exactly while somebody is on
  it and that its lock has one holder. `CachesInv` combines the parts.

`RequestsProofs`

- `OnePolicyCorrect`: lemmas on `decide` show, for every document, caller and
  item, that neither the order of the rules nor the path taken matters and that an
  item allowed with some arguments is visible; `RemedyCorrect`: the scopes a
  refusal names come from a rule whose allow clause matches, which the caller then
  satisfies.
- `GlobExactCorrect`: `match` walks the parts as a recursive function, which
  `WalkExists` shows to exist. If a name is covered by places `at`, the walk is
  never past `at[k] + Len(parts[k])` after part `k`, since `Index` finds the first
  occurrence (`CoveredIsWalked`); if the walk arrives, its own places cover the
  name (`WalkedIsCovered`). The induction on the parts is `UpTo`: a set of numbers
  that leaves one out has a least one it leaves out (`LeastIsOne`, from the
  library's theorem that `<` is well-founded), a form of induction that has no
  operator as a parameter.
- `IndexExactCorrect`: the selectors filed under each index, with those that
  cannot be indexed, are all that can match a caller. `AllowanceKeptCorrect` is
  an action property: `wire` keeps the object of a budget that is declared alike.
- `ReadsSoundCorrect`, `UninspectedIsRecordedCorrect`: `RoutingInv` says for every
  position of a request that the upstream it goes to is one it may ask
  (`Placed`), that a probe's upstreams are ahead of it, refused or noted as denied
  (`Probed`), and what the audit event says of the hook so far, which depends on whether the
  stages behind it inspect the method of the call (`Noted`). The
  shared index occurs in none of the three: what it holds is never believed.
- `WalkIsWholeCorrect` (an action property): a walk in progress holds the prefix,
  up to its cursor's position, of the list whose fingerprint the cursor carries
  (`UnderWay`).
- `AddressesLeadCorrect`: `ServingInv` says that the document the gateway was built
  with and the one in force, discovered upstreams included, validate; neither
  follows from `base` alone, since a document is validated together with what was
  discovered. Then `CutAtEnd` shows that a name is cut exactly where its namespace
  ends, because no character of a namespace can begin the separator; namespaces
  are distinct, so one upstream is found (`NamesLead`). The patterns of
  `buildHandler` are joined one group after the other, each disjoint from what is
  there (`OnceMore`), for every combination of sections.
- `SecretsConfinedCorrect`: what was discovered passed the check of the discovery
  section in force, because `applyLocked` refuses to change that section.
- `OwnerKeptCorrect`: before the mint is recorded the record has no owner; after
  it, every call that is out has read the owner's record and is the owner's.
- `NoDeadContextCorrect`: a context is on a stack once, and exactly while its call
  is in flight there; a pop takes off its own context wherever it is, and
  `invocationCtx` passes over those that are done.

`AuditProofs`

- `TrailCompleteCorrect`: where the worker is tells what it holds and what the
  buffer may still hold (`Working`); no event is held twice (`Queued`); what was
  reported of an event fits where the event is (`Told`); what was reported as
  written is written (`Recorded`); which sinks have a dead-letter file or are
  cancelled (`Sinks`). On disk, a line in file `k` is at least `k` rotations old
  (`Aging`), a line that is nowhere has aged out or was overwritten after a failed
  rename (`Kept`), and files are in order (`InOrder`). A rotation in which any
  set of renames fails keeps the three (`ShiftsAre`, `TurnedIs`): `Remove` and
  `Rename` move a file by one place or not at all, for any number of files.

`SubscriptionsProofs`, `StdioBridgeProofs`

- `TypeCorrect` and `CountCorrect`, by cardinality of the URIs a session is
  registered for; `WantedIsHeldCorrect`: `HeldInv` says that what was not raced or
  is not in flight is on record at the root entry, and held, lost or about to be
  replayed.
- `ProcessesSoundCorrect`: the invariant counts reserved entries and probers
  against the limit, ties each running process to its entry or to its prober, says
  where a session can be in `closeSession` and that who probes leads.
- `ShutdownReapsCorrect`: `Shut` says that once the bridge is closed a process
  belongs to a session that `Close` has collected or to one whose `open` has yet
  to look at `closed`; and `Close` returns after `closeSession` of all it has
  collected, whoever began it.

`SessionsProofs`, `FederationProofs`

- `SessionsAccounted` and `SessionsSpareCalls` (an action property) rest on one
  inductive invariant: a session being connected belongs to one request and is
  installed nowhere (`Private`), an installed one is in one place (`OnePlace`),
  where its users found it (`Found`); and a call with time left has `age + left <=
  RequestTimeout`, and if it was out when its upstream retired, `left <= drain`
  (`TimeInv`). So the drain cannot reach such a call, and the sweep only one that
  has been out for longer than the idle timeout.
- `SnapshotServesMerged`, by what `Apply` does to kept, new and retired objects;
  and `FederationImplementsSessions`: every step of `Federation` is a step of
  `Sessions` or leaves its variables alone (the snapshot `Gateway.Close` reads is
  the set of serving objects only because of `ServesMerged`), so that the theorems
  on `Sessions` hold of reloads and discovery (`FederationKeepsSessions`).

What the proofs corrected. The bound first stated for the rolling minute with a
failing Redis, three times the rate, does not hold for every rate: window and
mirror may each admit almost twice the rate. The rotation of `Audit` first kept
too few lines with two files or more, which a run with one file cannot see; and a
rotation that fails after it closed the live file leaves a stale handle, which is
now a state of its own. `Cut` of `Config` now says, as `strings.Cut`
does, whether the separator was found, and `uiOwner` refuses in passthrough.

Left to TLC: every liveness property (`MCRecovers`, `MCAnswered`,
`GoneAreReaped`, `HealthAnswers`, `Converges`, `MCLiveEndpointReached`), which rests on fairness and `ENABLED`; and the
violations, which are counterexamples. Every invariant and every action property
of the passing runs is stated by a theorem.

## Plan

What would come next:

1. `Subscriptions` composed with `Federation`: the move of subscriptions to a
   replaced upstream.
2. `Routing` with the decisions of `Policy` and `Tenancy` in place of the
   relations of its snapshots; `Tasks` with the tenant's subset.
3. Pinning over the shared store, and the two discovery feeds as sources of
   `Federation`.
