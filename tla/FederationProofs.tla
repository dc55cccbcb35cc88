-------------------------- MODULE FederationProofs --------------------------
(***************************************************************************)
(* Proofs about Federation: for any configurations and documents the       *)
(* snapshot serves the merged document, and reloads and syncs are steps    *)
(* that Sessions allows, so that what SessionsProofs shows holds here.     *)
(***************************************************************************)
EXTENDS Federation, SessionsProofs

\* The types of the variables that Sessions does not have.
ConfigTypes ==
    /\ baseCfg \in Bases
    /\ discovered \in Configs
    /\ routes \in [Ids -> [obj : Objs, cfg : Cfgs] \cup {None}]

\* The rest of TypeOK.
DiscoveryTypes ==
    /\ source \in Answers \cup {Down}
    /\ fetched \in Answers \cup {None}
    /\ lastDoc \in Answers \cup {None}
    /\ refused \in SUBSET Answers

\* ServesMerged, in parts: the document, its objects, and their phase.
MergedPart ==
    LET m == Merged(baseCfg, discovered) IN
    /\ Valid(baseCfg, discovered)
    /\ \A i \in Ids : IF m[i] = None THEN routes[i] = None
                      ELSE routes[i] # None /\ routes[i].cfg = m[i]

DistinctPart == \A i, j \in Named(routes) : routes[i].obj = routes[j].obj => i = j

PhasePart == ~stopped => Serving = {o \in Objs : phase[o] = "serving"}

FInv == IInv /\ ConfigTypes /\ DiscoveryTypes /\ MergedPart /\ DistinctPart /\ PhasePart

\* An upstream in the snapshot has an object and settings.
LEMMA RoutedObj ==
    ASSUME ConfigTypes, NEW i \in Named(routes)
    PROVE  i \in Ids /\ routes[i].obj \in Objs /\ routes[i].cfg \in Cfgs
  BY DEF ConfigTypes, Named

\* What applyLocked does for the merged document m, f being the objects it
\* builds.
New(m) == Named(m) \ Kept(m)

Built(m, f) ==
    /\ f \in [New(m) -> FreshObjs \ Serving]
    /\ \A i, j \in New(m) : f[i] = f[j] => i = j
    /\ routes' = [i \in Ids |-> IF i \in Kept(m) THEN routes[i]
                                ELSE IF m[i] = None THEN None
                                ELSE [obj |-> f[i], cfg |-> m[i]]]
    /\ Swap({f[i] : i \in New(m)}, {routes[i].obj : i \in Named(routes) \ Kept(m)})

\* applyLocked builds objects in this way.
LEMMA ApplyBuilds ==
    ASSUME NEW b, NEW d, Apply(b, d)
    PROVE  \E f : Built(Merged(b, d), f)
<1>. DEFINE m == Merged(b, d)
            P == Placements(New(m), FreshObjs \ Serving)
            f == CHOOSE f \in P : TRUE
<1>1. f \in P
  BY DEF Apply, New
<1>2. f \in [New(m) -> FreshObjs \ Serving] /\ \A i, j \in New(m) : f[i] = f[j] => i = j
  BY <1>1 DEF Placements
<1>3. /\ routes' = [i \in Ids |-> IF i \in Kept(m) THEN routes[i]
                                  ELSE IF m[i] = None THEN None
                                  ELSE [obj |-> f[i], cfg |-> m[i]]]
      /\ Swap({f[i] : i \in New(m)}, {routes[i].obj : i \in Named(routes) \ Kept(m)})
  BY DEF Apply, New
<1>4. Built(m, f)
  BY <1>2, <1>3 DEF Built
<1>. HIDE DEF f
<1>5. QED
  BY <1>4

\* applyLocked makes the snapshot serve the merged document, and is a swap in
\* the sense of Sessions.
LEMMA ApplyStep ==
    ASSUME FInv, NEW b \in Bases, NEW d \in Configs, Apply(b, d)
    PROVE  ConfigTypes' /\ MergedPart' /\ DistinctPart' /\ PhasePart' /\ SessionsNext
<1>. DEFINE m == Merged(b, d)
<1>0. PICK f : Built(m, f)
  BY ApplyBuilds
<1>1. baseCfg' = b /\ discovered' = d /\ Valid(b, d)
  BY DEF Apply
<1>2. \A i \in Ids : m[i] \in Cfgs \cup {None}
  BY FederationAssumption DEF Merged, Configs
<1>3. \A i \in Ids : routes[i] # None => routes[i] \in [obj : Objs, cfg : Cfgs]
  BY DEF FInv, ConfigTypes
<1>. HIDE DEF m
<1>4. \A i \in Ids :
         routes'[i] = IF i \in Kept(m) THEN routes[i]
                      ELSE IF m[i] = None THEN None ELSE [obj |-> f[i], cfg |-> m[i]]
  BY <1>0 DEF Built
<1>5. \A i \in New(m) : i \in Ids /\ m[i] # None /\ i \notin Kept(m) /\ f[i] \in FreshObjs \ Serving
  BY <1>0 DEF Built, New, Named
<1>6. \A i \in Kept(m) : i \in Named(routes) /\ routes[i].cfg = m[i]
  BY DEF Kept, Named
<1>. DEFINE built(i) == [obj |-> f[i], cfg |-> m[i]]
<1>6a. \A i \in New(m) :
         /\ routes'[i] = built(i) /\ built(i).obj = f[i] /\ built(i).cfg = m[i]
         /\ built(i) \in [obj : Objs, cfg : Cfgs]
  <2>. TAKE i \in New(m)
  <2>1. f[i] \in Objs /\ m[i] \in Cfgs
    BY <1>2, <1>5 DEF FreshObjs
  <2>2. routes'[i] = built(i)
    BY <1>4, <1>5
  <2>3. QED
    BY <2>1, <2>2
<1>. HIDE DEF built
<1>7. ConfigTypes'
  <2>1. \A i \in Ids : routes'[i] \in [obj : Objs, cfg : Cfgs] \cup {None}
    <3>. TAKE i \in Ids
    <3>1. CASE i \in Kept(m)
      BY <1>3, <1>4, <3>1
    <3>2. CASE i \notin Kept(m) /\ m[i] # None
      <4>1. i \in New(m)
        BY <3>2 DEF New, Named
      <4>2. QED
        BY <1>6a, <4>1
    <3>3. QED
      BY <1>4, <3>1, <3>2
  <2>2. routes' = [i \in Ids |-> routes'[i]]
    BY <1>0 DEF Built
  <2>3. QED
    BY <1>1, <2>1, <2>2 DEF ConfigTypes
<1>8. Named(routes)' = Kept(m) \cup New(m)
  <2>1. \A i \in New(m) : routes'[i] # None
    BY <1>6a, FederationAssumption
  <2>2. \A i \in Ids : routes'[i] # None <=> i \in Kept(m) \cup New(m)
    <3>. TAKE i \in Ids
    <3>1. CASE i \in Kept(m)
      BY <1>4, <1>6, <3>1 DEF Named
    <3>2. CASE i \notin Kept(m) /\ m[i] # None
      BY <2>1, <3>2 DEF New, Named
    <3>3. CASE i \notin Kept(m) /\ m[i] = None
      BY <1>4, <3>3 DEF New, Named
    <3>4. QED
      BY <3>1, <3>2, <3>3
  <2>3. Kept(m) \cup New(m) \subseteq Ids
    BY DEF Kept, New, Named
  <2>4. QED
    BY <2>2, <2>3 DEF Named
<1>9. MergedPart'
  <2>1. \A i \in Ids : IF m[i] = None THEN routes'[i] = None
                       ELSE routes'[i] # None /\ routes'[i].cfg = m[i]
    <3>. TAKE i \in Ids
    <3>1. CASE m[i] = None
      <4>1. i \notin Kept(m)
        BY <1>3, <3>1, FederationAssumption DEF Kept
      <4>2. QED
        BY <1>4, <3>1, <4>1
    <3>2. CASE m[i] # None
      <4>1. i \in Named(routes)'
        BY <1>8, <3>2 DEF New, Named
      <4>2. routes'[i].cfg = m[i]
        BY <1>4, <1>6, <1>8, <1>6a, <4>1
      <4>3. QED
        BY <3>2, <4>1, <4>2 DEF Named
    <3>3. QED
      BY <3>1, <3>2
  <2>2. Merged(baseCfg, discovered)' = m
    BY <1>1 DEF m, Merged
  <2>3. QED
    BY <1>1, <2>1, <2>2 DEF MergedPart, Valid
<1>10. \A i \in New(m) : routes'[i].obj = f[i]
  BY <1>6a
<1>11. \A i \in Kept(m) : routes'[i].obj = routes[i].obj /\ routes[i].obj \in Serving
  BY <1>4, <1>6 DEF Serving, Named
<1>12. DistinctPart'
  <2>1. ASSUME NEW i \in Kept(m) \cup New(m), NEW j \in Kept(m) \cup New(m),
               routes'[i].obj = routes'[j].obj
        PROVE  i = j
    <3>1. CASE i \in Kept(m) /\ j \in Kept(m)
      BY <1>6, <1>11, <2>1, <3>1 DEF FInv, DistinctPart
    <3>2. CASE i \in New(m) /\ j \in New(m)
      BY <1>0, <1>10, <2>1, <3>2 DEF Built
    <3>3. CASE (i \in New(m) /\ j \in Kept(m)) \/ (i \in Kept(m) /\ j \in New(m))
      BY <1>5, <1>10, <1>11, <2>1, <3>3
    <3>4. QED
      BY <3>1, <3>2, <3>3
  <2>2. QED
    BY <1>8, <2>1 DEF DistinctPart
<1>. DEFINE fresh == {f[i] : i \in New(m)}
            retired == {routes[i].obj : i \in Named(routes) \ Kept(m)}
<1>13. Swap(fresh, retired)
  BY <1>0 DEF Built
<1>14. fresh \subseteq Objs /\ retired \subseteq Objs
  BY <1>5, RoutedObj DEF FInv, FreshObjs
<1>15. PhasePart'
  <2>. SUFFICES ASSUME ~stopped
       PROVE  Serving' = {o \in Objs : phase'[o] = "serving"}
    BY <1>13 DEF Swap, gateway, stopped, PhasePart
  <2>1. Serving' = {routes[i].obj : i \in Kept(m)} \cup fresh
    BY <1>8, <1>10, <1>11 DEF Serving
  <2>2. Serving = {o \in Objs : phase[o] = "serving"}
    BY DEF FInv, PhasePart
  <2>3. Serving = {routes[i].obj : i \in Kept(m)} \cup retired
    BY <1>6 DEF Serving
  <2>4. retired \cap {routes[i].obj : i \in Kept(m)} = {}
    BY <1>6 DEF FInv, DistinctPart
  <2>5. \A o \in Objs : phase'[o] = "serving" <=> o \in fresh \/ (o \in Serving /\ o \notin retired)
    BY <1>13, <2>2 DEF Swap
  <2>6. QED
    BY <1>14, <2>1, <2>2, <2>3, <2>4, <2>5
<1>16. SessionsNext
  BY <1>13, <1>14 DEF SessionsNext
<1>17. QED
  BY <1>7, <1>9, <1>12, <1>15, <1>16
-----------------------------------------------------------------------------
\* The steps that leave the configuration alone are steps of Sessions, and
\* before the gateway stops they take no object out of the snapshot.
LEMMA TrafficStep ==
    ASSUME FInv,
           \/ \E r \in Reqs, i \in Named(routes), k \in Keys : Begin(r, routes[i].obj, k)
           \/ \E r \in Reqs : RequestStep(r)
           \/ Stop(Serving)
           \/ UpkeepStep,
           UNCHANGED <<config, discovery>>
    PROVE  [SessionsNext]_svars /\ PhasePart'
<1>. USE DEF FInv
<1>0. ASSUME UNCHANGED <<phase, gateway>>
      PROVE  PhasePart'
  BY <1>0 DEF PhasePart, Serving, Named, config, stopped, gateway
<1>1. CASE \E r \in Reqs, i \in Named(routes), k \in Keys : Begin(r, routes[i].obj, k)
  <2>1. SessionsNext
    BY <1>1, RoutedObj DEF SessionsNext
  <2>2. UNCHANGED <<phase, gateway>>
    BY <1>1 DEF Begin, objects
  <2>3. QED
    BY <1>0, <2>1, <2>2
<1>2. CASE \E r \in Reqs : RequestStep(r)
  <2>1. SessionsNext
    BY <1>2 DEF SessionsNext
  <2>2. UNCHANGED <<phase, gateway>>
    BY <1>2 DEF RequestStep, Acquire, Connected, ConnectFails, Install, Finish, Break, Use,
                Return, objects
  <2>3. QED
    BY <1>0, <2>1, <2>2
<1>3. CASE Stop(Serving)
  <2>1. Serving = {o \in Objs : phase[o] = "serving"}
    BY <1>3 DEF Stop, PhasePart
  <2>2. SessionsNext
    BY <1>3, <2>1 DEF SessionsNext
  <2>3. PhasePart'
    BY <1>3 DEF Stop, PhasePart, stopped
  <2>4. QED
    BY <2>2, <2>3
<1>4. CASE UpkeepStep
  <2>1. SessionsNext
    BY <1>4 DEF SessionsNext
  <2>2. CASE \E o \in Objs : Sweep(o)
    BY <1>0, <2>1, <2>2 DEF Sweep, objects
  <2>3. CASE \E o \in Objs : Drain(o)
    <3>1. PICK o \in Objs : Drain(o)
      BY <2>3
    <3>2. \A p \in Objs : phase'[p] = "serving" <=> phase[p] = "serving"
      BY <3>1 DEF Drain, Close, IInv, SessionsTypeOK, ObjectTypes
    <3>3. QED
      BY <2>1, <3>1, <3>2 DEF Drain, Close, PhasePart, Serving, Named, config, stopped
  <2>4. CASE \E o \in Objs : StopOne(o)
    BY <2>1, <2>4 DEF StopOne, Close, IInv, StopInv, PhasePart, stopped
  <2>5. CASE Tick
    BY <1>0, <2>1, <2>5 DEF Tick
  <2>6. QED
    BY <1>4, <2>2, <2>3, <2>4, <2>5 DEF UpkeepStep
<1>5. QED
  BY <1>1, <1>2, <1>3, <1>4

\* FInv is inductive, and every step is one of Sessions.
LEMMA FStep ==
    ASSUME FInv, [Next]_vars
    PROVE  FInv' /\ [SessionsNext]_svars
<1>1. ASSUME UNCHANGED config
      PROVE  ConfigTypes' /\ MergedPart' /\ DistinctPart'
  BY <1>1 DEF FInv, ConfigTypes, MergedPart, DistinctPart, Named, Merged, Valid, config
<1>2. ASSUME UNCHANGED discovery
      PROVE  DiscoveryTypes'
  BY <1>2 DEF FInv, DiscoveryTypes, discovery
<1>3. ASSUME [SessionsNext]_svars
      PROVE  IInv'
  BY <1>3, NextIInv DEF FInv
<1>4. CASE \E b \in Bases : Reload(b)
  <2>1. PICK b \in Bases : Apply(b, discovered) /\ UNCHANGED discovery
    BY <1>4 DEF Reload
  <2>2. discovered \in Configs
    BY DEF FInv, ConfigTypes
  <2>3. ConfigTypes' /\ MergedPart' /\ DistinctPart' /\ PhasePart' /\ SessionsNext
    BY <2>1, <2>2, ApplyStep
  <2>4. QED
    BY <1>2, <1>3, <2>1, <2>3 DEF FInv
<1>5. CASE UNCHANGED <<svars, config>> /\ DiscoveryTypes'
  <2>1. PhasePart'
    BY <1>5 DEF FInv, PhasePart, Serving, Named, config, svars, objects, gateway, stopped
  <2>2. QED
    BY <1>1, <1>3, <1>5, <2>1 DEF FInv
<1>6. CASE \E d \in Answers \cup {Down} : SourceChanges(d)
  BY <1>5, <1>6 DEF SourceChanges, FInv, DiscoveryTypes
<1>7. CASE Fetch \/ SyncUnchanged \/ SyncRejected
  BY <1>5, <1>7 DEF Fetch, SyncUnchanged, SyncRejected, FInv, DiscoveryTypes
<1>8. CASE SyncApplied
  <2>1. baseCfg \in Bases /\ fetched \in Configs
    BY <1>8, FederationAssumption DEF SyncApplied, FInv, ConfigTypes
  <2>2. ConfigTypes' /\ MergedPart' /\ DistinctPart' /\ PhasePart' /\ SessionsNext
    BY <1>8, <2>1, ApplyStep DEF SyncApplied
  <2>3. DiscoveryTypes'
    BY <1>8 DEF SyncApplied, FInv, DiscoveryTypes
  <2>4. QED
    BY <1>3, <2>2, <2>3 DEF FInv
<1>9. CASE /\ \/ \E r \in Reqs, i \in Named(routes), k \in Keys : Begin(r, routes[i].obj, k)
              \/ \E r \in Reqs : RequestStep(r)
              \/ Stop(Serving)
              \/ UpkeepStep
           /\ UNCHANGED <<config, discovery>>
  <2>1. [SessionsNext]_svars /\ PhasePart'
    BY <1>9, TrafficStep
  <2>2. QED
    BY <1>1, <1>2, <1>3, <1>9, <2>1 DEF FInv
<1>10. CASE UNCHANGED vars
  BY <1>2, <1>5, <1>10 DEF vars
<1>11. QED
  BY <1>4, <1>6, <1>7, <1>8, <1>9, <1>10 DEF Next, Sync

\* FInv holds when New has built the first snapshot.
LEMMA FInit ==
    ASSUME Init
    PROVE  FInv /\ \E first \in SUBSET Objs : SessionsInit(first)
<1>. DEFINE P == Placements(Named(baseCfg), Objs)
            f == CHOOSE f \in P : TRUE
            first == {f[i] : i \in Named(baseCfg)}
<1>1. f \in P
  BY DEF Init
<1>2. f \in [Named(baseCfg) -> Objs] /\ \A i, j \in Named(baseCfg) : f[i] = f[j] => i = j
  BY <1>1 DEF Placements
<1>3. /\ routes = [i \in Ids |-> IF baseCfg[i] = None THEN None
                                 ELSE [obj |-> f[i], cfg |-> baseCfg[i]]]
      /\ SessionsInit(first)
  BY DEF Init
<1>. HIDE DEF f
<1>4. baseCfg \in Bases /\ baseCfg \in Configs /\ discovered = Absent
  BY FederationAssumption DEF Init
<1>5. first \in SUBSET Objs
  BY <1>2
<1>6. IInv
  BY <1>3, <1>5, InitIInv
<1>7. \A i \in Named(baseCfg) :
         /\ routes[i] = [obj |-> f[i], cfg |-> baseCfg[i]] /\ routes[i] # None
         /\ routes[i] \in [obj : Objs, cfg : Cfgs]
         /\ routes[i].obj = f[i] /\ routes[i].cfg = baseCfg[i]
  <2>. TAKE i \in Named(baseCfg)
  <2>1. i \in Ids /\ baseCfg[i] \in Cfgs /\ f[i] \in Objs /\ baseCfg[i] # None
    BY <1>2, <1>4 DEF Named, Configs
  <2>2. routes[i] = [obj |-> f[i], cfg |-> baseCfg[i]]
    BY <1>3, <2>1
  <2>3. routes[i] \in [obj : Objs, cfg : Cfgs] /\ routes[i].obj = f[i] /\ routes[i].cfg = baseCfg[i]
    BY <2>1, <2>2
  <2>4. QED
    BY <2>2, <2>3, FederationAssumption
<1>8. \A i \in Ids : i \notin Named(baseCfg) => routes[i] = None
  BY <1>3 DEF Named
<1>9. Named(routes) = Named(baseCfg)
  BY <1>7, <1>8 DEF Named
<1>9a. \A i \in Named(baseCfg) : routes[i].obj = f[i]
  BY <1>7
<1>10. ConfigTypes
  <2>1. \A i \in Ids : routes[i] \in [obj : Objs, cfg : Cfgs] \cup {None}
    BY <1>7, <1>8
  <2>2. QED
    BY <1>3, <1>4, <2>1 DEF ConfigTypes, Absent, Configs
<1>11. DiscoveryTypes
  BY DEF Init, DiscoveryTypes
<1>12. MergedPart
  <2>1. \A i \in Ids : Merged(baseCfg, discovered)[i] = baseCfg[i]
    BY <1>4 DEF Merged, Absent
  <2>2. Valid(baseCfg, discovered)
    BY <1>4 DEF Valid, Absent
  <2>3. QED
    BY <1>7, <1>8, <2>1, <2>2 DEF MergedPart, Named
<1>13. DistinctPart
  BY <1>2, <1>9, <1>9a DEF DistinctPart
<1>14. PhasePart
  <2>1. Serving = first
    BY <1>9, <1>9a DEF Serving
  <2>2. first = {o \in Objs : phase[o] = "serving"}
    BY <1>3, <1>5 DEF SessionsInit
  <2>3. QED
    BY <2>1, <2>2 DEF PhasePart
<1>15. QED
  BY <1>3, <1>5, <1>6, <1>10, <1>11, <1>12, <1>13, <1>14 DEF FInv

\* The invariants of the composition.
LEMMA FederationInvariant == Spec => []FInv
<1>1. Init => FInv
  BY FInit
<1>2. FInv /\ [Next]_vars => FInv'
  BY FStep
<1>3. QED
  BY <1>1, <1>2, PTL DEF Spec

\* Every variable of the federation keeps its type.
THEOREM TypeCorrect == Spec => []TypeOK
<1>1. FInv => TypeOK
  BY DEF FInv, IInv, ConfigTypes, DiscoveryTypes, TypeOK
<1>2. QED
  BY <1>1, FederationInvariant, PTL

\* gateway.go: however reloads and syncs alternate, the snapshot serves
\* exactly the merged document.
THEOREM SnapshotServesMerged == Spec => []ServesMerged
<1>1. FInv => ServesMerged
  BY DEF FInv, MergedPart, DistinctPart, PhasePart, ServesMerged
<1>2. QED
  BY <1>1, FederationInvariant, PTL

\* What reloads and discovery do to the upstream objects is what Sessions
\* allows...
THEOREM FederationImplementsSessions == Spec => SessionsSpec
<1>1. Init => \E first \in SUBSET Objs : SessionsInit(first)
  BY FInit
<1>2. FInv /\ [Next]_vars => [SessionsNext]_svars
  BY FStep
<1>3. QED
  BY <1>1, <1>2, FederationInvariant, PTL DEF Spec, SessionsSpec

\* ...so that no reload and no sync leaks a session or cuts a call that was
\* out in time.
THEOREM FederationKeepsSessions == Spec => []Accounted /\ SparesCalls
  BY FederationImplementsSessions, SessionsAccounted, SessionsSpareCalls, PTL
=============================================================================
