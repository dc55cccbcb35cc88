----------------------------- MODULE Federation -----------------------------
(***************************************************************************)
(* Which upstreams a gateway serves (gateway/gateway.go and discovery.go): *)
(* the operator's configuration, replaced by Reload, and the set found by  *)
(* discovery, replaced by the discoverer's sync, merged and validated as   *)
(* one document.  applyLocked keeps the objects of upstreams whose         *)
(* configuration is unchanged and retires the others; what then happens to *)
(* their sessions is Sessions.                                             *)
(*                                                                         *)
(* A configuration is a function from upstream names to settings, None for *)
(* absent.  A name stands for id and namespace, of which neither may occur *)
(* twice.  reloadMu makes applyLocked one step; Gateway.Close takes no     *)
(* lock, so a reload may follow it.                                        *)
(***************************************************************************)
EXTENDS Sessions

CONSTANTS Ids,        \* upstream ids
          Cfgs,       \* settings of an upstream
          Bases,      \* configurations the operator may write
          Docs,       \* sets of upstreams the discovery source may name
          Malformed,  \* a document that does not parse or names upstreams
                      \* the discovery allowlists forbid
          Down        \* no document: the source does not answer

Configs == [Ids -> Cfgs \cup {None}]

ASSUME FederationAssumption ==
    /\ Bases \subseteq Configs /\ Docs \subseteq Configs
    /\ None \notin Cfgs /\ None \notin [obj : Objs, cfg : Cfgs]
    /\ None \notin Docs \cup {Malformed} /\ Down \notin Docs \cup {Malformed}
    /\ Malformed \notin Docs

VARIABLES
    baseCfg,     \* Gateway.baseCfg
    discovered,  \* Gateway.discovered
    routes,      \* routes.byID of the current snapshot: the object of each
                 \* upstream and the settings it was built with
    source,      \* what the discovery source answers
    fetched,     \* the document a sync works on
    lastDoc,     \* discoverer.lastHash, None while not seen
    refused      \* history: documents that collided with the configuration

discovery == <<source, fetched, lastDoc, refused>>
config == <<baseCfg, discovered, routes>>
vars == <<svars, config, discovery>>

Answers == Docs \cup {Malformed}

TypeOK ==
    /\ SessionsTypeOK
    /\ baseCfg \in Bases
    /\ discovered \in Configs
    /\ routes \in [Ids -> [obj : Objs, cfg : Cfgs] \cup {None}]
    /\ source \in Answers \cup {Down}
    /\ fetched \in Answers \cup {None}
    /\ lastDoc \in Answers \cup {None}
    /\ refused \in SUBSET Answers

Absent == [i \in Ids |-> None]

\* applyLocked: base.Upstreams followed by the discovered ones.
Merged(b, d) == [i \in Ids |-> IF b[i] # None THEN b[i] ELSE d[i]]

\* Validate of the merged document: no name occurs twice.
Valid(b, d) == \A i \in Ids : b[i] = None \/ d[i] = None

Named(f) == {i \in Ids : f[i] # None}

\* An object of its own for each i in S.
Placements(S, free) == {f \in [S -> free] : \A i, j \in S : f[i] = f[j] => i = j}

\* New builds a snapshot with an object for each upstream.
Init ==
    /\ baseCfg \in Bases
    /\ discovered = Absent
    /\ Placements(Named(baseCfg), Objs) # {}
    /\ LET f == CHOOSE f \in Placements(Named(baseCfg), Objs) : TRUE IN
          /\ routes = [i \in Ids |-> IF baseCfg[i] = None THEN None
                                     ELSE [obj |-> f[i], cfg |-> baseCfg[i]]]
          /\ SessionsInit({f[i] : i \in Named(baseCfg)})
    /\ source \in Answers \cup {Down}
    /\ fetched = None
    /\ lastDoc = None
    /\ refused = {}
-----------------------------------------------------------------------------
Serving == {routes[i].obj : i \in Named(routes)}

\* Mutant of Kept: an upstream is recognised by its id alone.
KeptById(m) == {i \in Ids : routes[i] # None /\ m[i] # None}

\* buildRoutes carries over the objects whose configuration is unchanged.
Kept(m) == {i \in Ids : routes[i] # None /\ m[i] = routes[i].cfg}

\* applyLocked.
Apply(b, d) ==
    LET m == Merged(b, d)
        new == Named(m) \ Kept(m)
        free == FreshObjs \ Serving
    IN
    /\ Valid(b, d)
    /\ Placements(new, free) # {}
    /\ LET f == CHOOSE f \in Placements(new, free) : TRUE IN
       /\ routes' = [i \in Ids |-> IF i \in Kept(m) THEN routes[i]
                                   ELSE IF m[i] = None THEN None
                                   ELSE [obj |-> f[i], cfg |-> m[i]]]
       /\ Swap({f[i] : i \in new}, {routes[i].obj : i \in Named(routes) \ Kept(m)})
    /\ baseCfg' = b
    /\ discovered' = d

\* Mutant of Reload: the discovered upstreams are forgotten.
ReloadForgets(b) ==
    /\ b # baseCfg
    /\ Apply(b, Absent)
    /\ UNCHANGED discovery

\* Gateway.Reload.  A refused reload changes nothing.
Reload(b) ==
    /\ b # baseCfg
    /\ Apply(b, discovered)
    /\ UNCHANGED discovery

SourceChanges(d) ==
    /\ source' = d
    /\ UNCHANGED <<svars, config, fetched, lastDoc, refused>>

\* discoverer.sync gets a document; a failed fetch changes nothing.  When the
\* gateway stops the ticker may still win against d.stop.
Fetch ==
    /\ fetched = None
    /\ source # Down
    /\ fetched' = source
    /\ UNCHANGED <<svars, config, source, lastDoc, refused>>

SyncUnchanged ==
    /\ fetched # None /\ fetched = lastDoc
    /\ fetched' = None
    /\ UNCHANGED <<svars, config, source, lastDoc, refused>>

\* The document is remembered although it was not applied.
SyncRejected ==
    /\ fetched # None /\ fetched # lastDoc
    /\ \/ fetched = Malformed /\ UNCHANGED refused
       \/ /\ fetched \in Docs /\ ~Valid(baseCfg, fetched)
          /\ refused' = refused \cup {fetched}
    /\ lastDoc' = fetched
    /\ fetched' = None
    /\ UNCHANGED <<svars, config, source>>

\* setDiscovered succeeds.
SyncApplied ==
    /\ fetched \in Docs /\ fetched # lastDoc
    /\ Apply(baseCfg, fetched)
    /\ lastDoc' = fetched
    /\ fetched' = None
    /\ UNCHANGED <<source, refused>>

Sync == SyncUnchanged \/ SyncRejected \/ SyncApplied
-----------------------------------------------------------------------------
Next ==
    \/ \E b \in Bases : Reload(b)
    \/ \E d \in Answers \cup {Down} : SourceChanges(d)
    \/ Fetch \/ Sync
    \/ /\ \/ \E r \in Reqs, i \in Named(routes), k \in Keys : Begin(r, routes[i].obj, k)
          \/ \E r \in Reqs : RequestStep(r)
          \/ Stop(Serving)
          \/ UpkeepStep
       /\ UNCHANGED <<config, discovery>>

Spec == Init /\ [][Next]_vars

\* The discoverer polls until it is stopped, and its sync gets reloadMu in the
\* end although reloads may always be in progress (sync.Mutex is fair to
\* waiters).  Time passes and drains end, so that there are identities for new
\* objects.
Fairness ==
    /\ WF_vars(~stopped /\ Fetch)
    /\ SF_vars(Sync)
    /\ \A o \in Objs : WF_vars(Drain(o) /\ UNCHANGED <<config, discovery>>)
    /\ WF_vars(Tick /\ UNCHANGED <<config, discovery>>)
-----------------------------------------------------------------------------
\* However reloads and syncs alternate, the snapshot serves exactly the
\* merged document, each upstream under its own object with its current
\* settings; and no object in it is drained or closed before the gateway is.
ServesMerged ==
    LET m == Merged(baseCfg, discovered) IN
    /\ Valid(baseCfg, discovered)
    /\ \A i \in Ids : IF m[i] = None THEN routes[i] = None
                      ELSE routes[i] # None /\ routes[i].cfg = m[i]
    /\ \A i, j \in Named(routes) : routes[i].obj = routes[j].obj => i = j
    /\ ~stopped => Serving = {o \in Objs : phase[o] = "serving"}

\* discovery.go: an acceptable document that the source goes on answering
\* with is applied in the end, whatever was answered, refused or reloaded
\* before; unless that very document was refused while an earlier
\* configuration collided with it.
Converges ==
    \A d \in Docs :
        <>[](source = d /\ ~stopped /\ Valid(baseCfg, d) /\ d \notin refused)
        => <>[](discovered = d)
=============================================================================
