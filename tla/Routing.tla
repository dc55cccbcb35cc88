------------------------------ MODULE Routing -------------------------------
(***************************************************************************)
(* The request pipeline (gateway/router.go, hook.go, the URI half of       *)
(* gateway.go): one routing snapshot per request, the tenant's subset and  *)
(* policy before an upstream is asked, the decision hook around a call,    *)
(* and the index that remembers which upstream listed a URI - shared by    *)
(* every caller, and written while other requests read it.                 *)
(*                                                                         *)
(* A snapshot says for each client which upstreams its tenant sees and     *)
(* which it may use (Policy and Tenancy decide those); whether an upstream *)
(* answers is free.  A public name is the pair of its namespace and bare   *)
(* name; that the two are one string is the subject of Config.  A gateway  *)
(* in passthrough, whose one upstream owns every name, is left out.        *)
(***************************************************************************)
EXTENDS Integers, Sequences, FiniteSets, SequencesExt

CONSTANTS
    Clients,      \* callers, one request in flight each
    Servers,      \* upstream ids, which are their namespaces too
    URIs,         \* resource URIs upstreams list and serve
    Snapshots,    \* the routing snapshots reloads install
    NoOwner

Stages == {"ingress", "egress"}
CallMethods == {"tools/call", "prompts/get"}

\* The stages and methods a hook may be configured for, those of traffic that
\* an upstream initiates among them, which do not concern calls.
HookStages == Stages \cup {"serverInitiated"}
HookMethods == CallMethods \cup {"sampling/createMessage", "elicitation/create"}

\* A snapshot lists its upstreams in configuration order; its hook is asked at
\* the stages and about the methods it is configured for.
ASSUME RoutingAssumption ==
    /\ Snapshots # {} /\ URIs # {} /\ NoOwner \notin Servers
    /\ \A s \in Snapshots :
          /\ DOMAIN s.ups = 1..Len(s.ups) /\ Len(s.ups) \in Nat
          /\ \A i \in DOMAIN s.ups : s.ups[i] \in Servers
          /\ s.hook.stages \subseteq HookStages /\ s.hook.methods \subseteq HookMethods
          /\ s.hook.failOpen \in BOOLEAN

VARIABLES
    snapshot,     \* g.routes
    resourceOwner,\* the affinity index
    req           \* the request each client has in flight, with its audit event

rvars == <<snapshot, resourceOwner, req>>

Operations == {"list", "read", "ui", "complete"} \cup CallMethods
Entries == {"list", "read", "ui", "complete", "call"}
Points == Entries \cup Stages \cup
    {"idle", "done", "affinity", "probe", "probing", "minted", "refreshed", "completing",
     "call up", "calling", "disclose"}
Words == {"", "allow", "deny", "error"}
Answers == {"none", "listed", "down", "served", "denied", "notfound", "unknown", "withheld", "error"}
Groups == SUBSET Servers
Owners == Servers \cup {NoOwner}

\* A request: where it is, what it asked for, the world it started in, the
\* upstreams it asked, refused and still may probe, and its audit event.
Request ==
    [pc : Points, op : Operations \cup {"none"}, rt : Snapshots, uri : URIs, up : Owners,
     left : Groups, denied : BOOLEAN, asked : Groups, refused : Groups, open : BOOLEAN,
     hookOutcome : Words, decision : Words, answer : Answers]

Idle0 == [pc |-> "idle", op |-> "none", rt |-> CHOOSE s \in Snapshots : TRUE,
          uri |-> CHOOSE x \in URIs : TRUE, up |-> NoOwner, left |-> {},
          denied |-> FALSE, asked |-> {}, refused |-> {}, open |-> FALSE,
          hookOutcome |-> "", decision |-> "", answer |-> "none"]
-----------------------------------------------------------------------------
Sees(c, r, u) == u \in r.sees[c]
May(c, r, u) == <<c, u>> \in r.may
authorized(c, r, u) == Sees(c, r, u) /\ May(c, r, u)
visibleUpstreams(c, r) == {u \in ToSet(r.ups) : Sees(c, r, u)}

RoutingInit ==
    /\ snapshot \in Snapshots
    /\ resourceOwner = [x \in URIs |-> NoOwner]
    /\ req = [c \in Clients |-> Idle0]

Reroute(s) == snapshot' = s /\ UNCHANGED <<resourceOwner, req>>

At(c, pc) == req[c].pc = pc
Set(c, r) == req' = [req EXCEPT ![c] = r]
Ended(r, answer, decision) ==
    [r EXCEPT !.pc = "done", !.answer = answer, !.decision = decision]
Ends(c, r, answer, decision) == Set(c, Ended(r, answer, decision))
Refuses(c, r) == Ends(c, r, "denied", "deny")
Asking(r, u, pc) == [r EXCEPT !.pc = pc, !.up = u, !.asked = @ \cup {u}]
Asks(c, r, u, pc) == Set(c, Asking(r, u, pc))
Reaching(r, pc) == [r EXCEPT !.pc = pc]
Reaches(c, r, pc) == Set(c, Reaching(r, pc))
Toward(r, u) == [r EXCEPT !.up = u]
Allowed(r) == [r EXCEPT !.decision = "allow"]

Entry(op) == IF op \in CallMethods THEN "call" ELSE op
Started(op, x, s) == [Idle0 EXCEPT !.pc = Entry(op), !.op = op, !.uri = x, !.rt = s]

\* route: the request keeps the world it started in.
Route(c, op, x) ==
    /\ At(c, "idle") \/ At(c, "done")
    /\ Set(c, Started(op, x, snapshot))
    /\ UNCHANGED <<snapshot, resourceOwner>>

\* A panic anywhere below routeSafe or an upstream's failure on a path without
\* fallback: the event is emitted with what was decided so far.
Fails(c) ==
    /\ req[c].pc \in {"calling", "minted", "completing"}
    /\ Ends(c, req[c], "error", req[c].decision)
    /\ UNCHANGED <<snapshot, resourceOwner>>
-----------------------------------------------------------------------------
(* Lists: the visible upstreams are asked at once; those that answered     *)
(* leave their URIs in the index, whether or not policy shows them.        *)

\* Of several that list a URI, the last in configuration order.
Stored(r, listed) ==
    [x \in URIs |->
        LET from == {i \in DOMAIN r.ups : <<r.ups[i], x>> \in listed}
        IN  IF from = {} THEN resourceOwner[x] ELSE r.ups[Max(from)]]

AskingAll(r, c) == [r EXCEPT !.asked = visibleUpstreams(c, r.rt)]
Listings(c, r) == SUBSET (visibleUpstreams(c, r) \X URIs)

ListResources(c) ==
    LET r == req[c]
    IN  /\ At(c, "list")
        /\ \E listed \in Listings(c, r.rt) : resourceOwner' = Stored(r.rt, listed)
        /\ Ends(c, AskingAll(r, c), "listed", "")
        /\ UNCHANGED snapshot

\* partialFailureMeta: every upstream failed.
ListFails(c) ==
    /\ At(c, "list") /\ visibleUpstreams(c, req[c].rt) # {}
    /\ Ends(c, AskingAll(req[c], c), "down", "")
    /\ UNCHANGED <<snapshot, resourceOwner>>
-----------------------------------------------------------------------------
(* resources/read: the owner on record, then a probe of every upstream the *)
(* caller may read from.                                                   *)

Probing(r, c) == [r EXCEPT !.pc = "probe", !.left = visibleUpstreams(c, r.rt)]
Refused(r) == [r EXCEPT !.refused = @ \cup {r.up}]
Passed(r, u) == [r EXCEPT !.left = @ \ {u}]

\* Mutant of readResource: the owner on record is asked though the tenant does
\* not see it.
ReadUnseen(c) ==
    LET r == req[c]
        u == resourceOwner[r.uri]
    IN  /\ At(c, "read")
        /\ IF u \notin ToSet(r.rt.ups) THEN Set(c, Probing(r, c))
           ELSE IF ~May(c, r.rt, u) THEN Refuses(c, Toward(r, u))
           ELSE Asks(c, Allowed(r), u, "affinity")
        /\ UNCHANGED <<snapshot, resourceOwner>>

readResource(c) ==
    LET r == req[c]
        u == resourceOwner[r.uri]
    IN  /\ At(c, "read")
        /\ IF u \notin ToSet(r.rt.ups) THEN Set(c, Probing(r, c))
           ELSE IF ~authorized(c, r.rt, u) THEN Refuses(c, Toward(r, u))
           ELSE Asks(c, Allowed(r), u, "affinity")
        /\ UNCHANGED <<snapshot, resourceOwner>>

AffinityServes(c) ==
    /\ At(c, "affinity")
    /\ Ends(c, req[c], "served", "allow")
    /\ UNCHANGED <<snapshot, resourceOwner>>

AffinityMisses(c) ==
    /\ At(c, "affinity")
    /\ Set(c, Probing(Refused(req[c]), c))
    /\ UNCHANGED <<snapshot, resourceOwner>>

\* Probes go in configuration order.
IsNext(u, r) ==
    /\ u \in r.left
    /\ \E i \in DOMAIN r.rt.ups :
          r.rt.ups[i] = u /\ \A j \in 1..(i - 1) : r.rt.ups[j] \notin r.left

\* Mutant of Probe: it gives up at the first upstream that does not have it.
ProbeGivesUp(c, u) ==
    LET r == req[c]
    IN  /\ At(c, "probe") /\ IsNext(u, r)
        /\ IF ~May(c, r.rt, u) THEN Refuses(c, r)
           ELSE Asks(c, [r EXCEPT !.left = {}], u, "probing")
        /\ UNCHANGED <<snapshot, resourceOwner>>

Probe(c, u) ==
    LET r == req[c]
    IN  /\ At(c, "probe") /\ IsNext(u, r)
        /\ IF ~May(c, r.rt, u)
           THEN Set(c, [Passed(r, u) EXCEPT !.denied = TRUE])
           ELSE Asks(c, Passed(r, u), u, "probing")
        /\ UNCHANGED <<snapshot, resourceOwner>>

ProbeServes(c) ==
    /\ At(c, "probing")
    /\ resourceOwner' = [resourceOwner EXCEPT ![req[c].uri] = req[c].up]
    /\ Ends(c, req[c], "served", "allow")
    /\ UNCHANGED snapshot

ProbeMisses(c) ==
    /\ At(c, "probing")
    /\ Reaches(c, Refused(req[c]), "probe")
    /\ UNCHANGED <<snapshot, resourceOwner>>

ProbeEnds(c) ==
    /\ At(c, "probe") /\ req[c].left = {}
    /\ IF req[c].denied THEN Refuses(c, req[c])
       ELSE Ends(c, req[c], "notfound", req[c].decision)
    /\ UNCHANGED <<snapshot, resourceOwner>>

\* A minted ui:// URI names its owner: no index, no probe, no fallback.
ReadMinted(c, u) ==
    LET r == req[c]
    IN  /\ At(c, "ui")
        /\ IF u \notin ToSet(r.rt.ups) THEN Reaches(c, r, "read")
           ELSE IF ~authorized(c, r.rt, u) THEN Refuses(c, Toward(r, u))
           ELSE Asks(c, Allowed(r), u, "minted")
        /\ UNCHANGED <<snapshot, resourceOwner>>

Serves(c) ==
    /\ req[c].pc \in {"minted", "completing"}
    /\ Ends(c, req[c], "served", "allow")
    /\ UNCHANGED <<snapshot, resourceOwner>>
-----------------------------------------------------------------------------
(* completion and subscription by URI: ownerForURI.                        *)

Owned(c) ==
    LET u == resourceOwner[req[c].uri]
    IN  IF u \in ToSet(req[c].rt.ups) /\ Sees(c, req[c].rt, u) THEN u ELSE NoOwner

complete(c, pc) ==
    /\ At(c, pc) /\ pc \in {"complete", "refreshed"} /\ Owned(c) # NoOwner
    /\ IF ~authorized(c, req[c].rt, Owned(c)) THEN Refuses(c, Toward(req[c], Owned(c)))
       ELSE Asks(c, Allowed(req[c]), Owned(c), "completing")
    /\ UNCHANGED <<snapshot, resourceOwner>>

\* Nobody on record that the caller may see: list again, then look again.
RefreshOwners(c) ==
    /\ At(c, "complete") /\ Owned(c) = NoOwner
    /\ \E listed \in Listings(c, req[c].rt) : resourceOwner' = Stored(req[c].rt, listed)
    /\ Reaches(c, req[c], "refreshed")
    /\ UNCHANGED snapshot

CompleteNotFound(c) ==
    /\ At(c, "refreshed") /\ Owned(c) = NoOwner
    /\ Ends(c, req[c], "notfound", "")
    /\ UNCHANGED <<snapshot, resourceOwner>>
-----------------------------------------------------------------------------
(* tools/call and prompts/get: resolve, authorize, ingress, call, egress.  *)

resolved(c, u) ==
    LET r == req[c]
    IN  /\ At(c, "call")
        /\ IF u \notin ToSet(r.rt.ups) THEN Ends(c, r, "unknown", "")
           ELSE IF ~authorized(c, r.rt, u) THEN Refuses(c, Toward(r, u))
           ELSE Reaches(c, Allowed(Toward(r, u)), "ingress")
        /\ UNCHANGED <<snapshot, resourceOwner>>

\* What the hook says: its two words, or a failure resolved by onError.
Outcomes0(h) == {"allow", "deny", IF h.failOpen THEN "error" ELSE "deny"}

\* inspects: the stage is configured, and the method is named or none is.
Inspected(r, stage) ==
    /\ stage \in r.rt.hook.stages
    /\ r.rt.hook.methods = {} \/ r.op \in r.rt.hook.methods

\* Mutant of HookWord: the later stage always has the last word.
LastWord(r, outcome) == outcome

\* Ingress recorded its own outcome; egress overrides it only when it is not
\* an allow.
HookWord(r, outcome) ==
    IF r.hookOutcome = "" \/ outcome # "allow" THEN outcome ELSE r.hookOutcome

\* open remembers that a stage let the call through though it failed.
Noting(r, outcome) ==
    [r EXCEPT !.hookOutcome = HookWord(r, outcome), !.open = @ \/ outcome = "error"]

Beyond(stage) == IF stage = "ingress" THEN "call up" ELSE "disclose"

Hook(c, stage) ==
    LET r == req[c]
    IN  /\ At(c, stage)
        /\ \/ ~Inspected(r, stage) /\ Reaches(c, r, Beyond(stage))
           \/ /\ Inspected(r, stage)
              /\ \E outcome \in Outcomes0(r.rt.hook) :
                    IF outcome = "deny" THEN Ends(c, Noting(r, outcome), "withheld", "deny")
                    ELSE Reaches(c, Noting(r, outcome), Beyond(stage))
        /\ UNCHANGED <<snapshot, resourceOwner>>

CallUp(c) ==
    /\ At(c, "call up")
    /\ Asks(c, req[c], req[c].up, "calling")
    /\ UNCHANGED <<snapshot, resourceOwner>>

CallReturns(c) ==
    /\ At(c, "calling")
    /\ Reaches(c, req[c], "egress")
    /\ UNCHANGED <<snapshot, resourceOwner>>

Disclose(c) ==
    /\ At(c, "disclose")
    /\ Ends(c, req[c], "served", "allow")
    /\ UNCHANGED <<snapshot, resourceOwner>>

CallStep(c) ==
    \/ \E u \in Servers : resolved(c, u)
    \/ \E stage \in Stages : Hook(c, stage)
    \/ CallUp(c) \/ CallReturns(c) \/ Disclose(c)

ReadStep(c) ==
    \/ readResource(c) \/ AffinityServes(c) \/ AffinityMisses(c)
    \/ ProbeServes(c) \/ ProbeMisses(c) \/ ProbeEnds(c)
    \/ \E u \in Servers : Probe(c, u) \/ ReadMinted(c, u)

OwnerStep(c) ==
    \/ \E pc \in {"complete", "refreshed"} : complete(c, pc)
    \/ RefreshOwners(c) \/ CompleteNotFound(c) \/ Serves(c) \/ Fails(c)
    \/ ListResources(c) \/ ListFails(c)

RoutingNext ==
    \/ \E s \in Snapshots : Reroute(s)
    \/ \E c \in Clients, op \in Operations, x \in URIs :
            Route(c, op, x)
    \/ \E c \in Clients : ReadStep(c) \/ OwnerStep(c) \/ CallStep(c)

RoutingSpec == RoutingInit /\ [][RoutingNext]_rvars
-----------------------------------------------------------------------------
RoutingTypeOK ==
    /\ snapshot \in Snapshots
    /\ resourceOwner \in [URIs -> Owners]
    /\ req \in [Clients -> Request]

\* However the owner was found - named, remembered from another tenant's list,
\* or probed for - an upstream is asked on a client's behalf only if the
\* snapshot the request started in shows it to the client's tenant and, beyond
\* a list, policy lets the client use it.
Confined ==
    \A c \in Clients : \A u \in req[c].asked :
        /\ Sees(c, req[c].rt, u)
        /\ req[c].op # "list" => May(c, req[c].rt, u)

\* A read that reports the resource missing asked everybody it could have: each
\* upstream the client sees and may read from was asked and did not have it.
MissIsMiss ==
    \A c \in Clients :
        req[c].answer = "notfound" /\ req[c].op \in {"read", "ui"} =>
            visibleUpstreams(c, req[c].rt) \subseteq req[c].refused

\* readResource and ownerForURI: the shared index leads a request neither where
\* it may not go nor past an upstream it should have asked.
ReadsSound == RoutingTypeOK /\ Confined /\ MissIsMiss

\* A result disclosed although the hook could not be asked says so: if any stage
\* failed open, the event of the call that went through records the error; and
\* it carries an outcome of the hook if and only if the hook was to inspect it,
\* whatever reloads did to the hook meanwhile.
UninspectedIsRecorded ==
    \A c \in Clients :
        req[c].op \in CallMethods /\ req[c].answer = "served" =>
            /\ req[c].open <=> req[c].hookOutcome = "error"
            /\ req[c].hookOutcome # "" <=> \E stage \in Stages : Inspected(req[c], stage)
=============================================================================
