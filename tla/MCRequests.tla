----------------------------- MODULE MCRequests -----------------------------
(***************************************************************************)
(* What a request meets on its way through the gateway, for TLC.  One      *)
(* behaviour exercises one of Parts and leaves the others' state as it     *)
(* began.                                                                  *)
(***************************************************************************)
EXTENDS Tenancy, Paging, Routing, Config, Tasks, Audit, Bridging, TLC

CONSTANT Parts

VARIABLE part

all == <<pvars, nvars, gvars, rvars, fvars, tvars, avars, bgvars, part>>
-----------------------------------------------------------------------------
(* Policy and Tenancy: selectors, clauses and rules of every kind, in pairs. *)

Sel == [issuers |-> {}, claims |-> {}, scopes |-> {}, subs |-> {}, groups |-> {}]
Of(claims) == [Sel EXCEPT !.claims = claims]
Writers == [Sel EXCEPT !.scopes = {"w"}]
Team == [Sel EXCEPT !.scopes = {"w", "r"}, !.groups = {"g"}]

Clause(names) == [server |-> "*", methods |-> {}, names |-> names, kind |-> "any", args |-> {}]
x == <<"x">>
y == <<"y">>

RuleOf(id, subjects, allow, deny) ==
    [id |-> id, subjects |-> subjects, allow |-> allow, deny |-> deny, max |-> 0]

Rules ==
    {RuleOf("any", Anyone, <<Clause({})>>, <<>>),
     RuleOf("write", Writers, <<Clause({<<x, y>>})>>, <<>>),
     RuleOf("team", Team, <<Clause({<<x, x, y>>, <<<<>>, y>>})>>, <<>>),
     RuleOf("noY", [Sel EXCEPT !.issuers = {"i"}], <<>>, <<Clause({<<<<>>, y>>})>>),
     RuleOf("prod", Anyone, <<>>, <<[Clause({}) EXCEPT !.args = {<<"env", "prod">>}]>>),
     RuleOf("stage", Writers, <<[Clause({}) EXCEPT !.args = {<<"env", "stage">>}]>>, <<>>),
     RuleOf("read", Of({<<"c", 1>>}),
            <<[Clause({}) EXCEPT !.kind = "readOnly", !.methods = {"tools/call"}]>>, <<>>),
     RuleOf("gentle", Anyone, <<>>, <<[Clause({}) EXCEPT !.kind = "nonDestructive", !.server = "u"]>>)}

MCDocuments ==
    [rules : {SetToSeq(rs) : rs \in kSubset(1, Rules) \cup kSubset(2, Rules) \cup {{}}},
     default : BOOLEAN]

Caller(subject, issuer, groups, claims, scoped) ==
    [subject |-> subject, issuer |-> issuer, groups |-> groups, claims |-> claims, scopes |-> scoped]

MCCallers ==
    {Nobody,
     Caller("a", "i", {"g"}, {}, {}),
     Caller("b", "j", {}, {<<"c", 1>>, <<"c", 2>>}, {}),
     Caller("b", "i", {"g", "h"}, {<<"c", 3>>}, {"w", "r"})}

MCCalls ==
    [server : {"u"}, method : {"tools/call"},
     name : {<<"x">>, <<"x", "y">>, <<"x", "x", "y">>}, args : {NoArgs, {<<"env", "prod">>}},
     tool : {Unknown, [readOnly |-> TRUE, destructive |-> FALSE],
             [readOnly |-> FALSE, destructive |-> TRUE]}]

Selectors ==
    {Of({<<"c", 1>>}), Of({<<"c", 3>>}), [Of({<<"c", 1>>}) EXCEPT !.issuers = {"i"}],
     [Sel EXCEPT !.groups = {"g"}], [Sel EXCEPT !.groups = {"h"}, !.subs = {"a"}], Writers, Team}

MCTenantDocs ==
    {d \in UNION {[D -> [subjects : Selectors, budget : {1, 2}]] : D \in SUBSET Tenants} :
        \A s, t \in DOMAIN d : s # t => d[s].subjects # d[t].subjects}
-----------------------------------------------------------------------------
(* Paging: two rules, of which one is capped, and an item one caller does  *)
(* not see.                                                                *)

MCRule(c, it) ==
    IF it = "d" /\ c = "p" THEN Hidden ELSE IF it \in {"a", "b"} THEN "capped" ELSE "free"
MCMaxItems(r) == IF r = "capped" THEN 1 ELSE 0
MCMerges == {<<"a", "b", "c", "d">>, <<"c", "a", "d">>, <<>>, <<"c", "d", "e", "f">>}

(* Routing: before and after a reload that changes what tenants see, what  *)
(* policy lets them use, and the hook.                                     *)

Snapshot1 ==
    [ups |-> <<"a", "b", "c">>, sees |-> ("p" :> {"a", "b"} @@ "q" :> {"b"}),
     may |-> {<<"p", "a">>, <<"p", "b">>, <<"p", "c">>, <<"q", "b">>, <<"q", "c">>},
     hook |-> [stages |-> {"ingress", "egress"}, methods |-> {}, failOpen |-> TRUE]]
Snapshot2 ==
    [ups |-> <<"b", "c">>, sees |-> ("p" :> {"a", "b", "c"} @@ "q" :> {"c"}),
     may |-> {<<"p", "c">>, <<"q", "c">>},
     hook |-> [stages |-> {"egress"}, methods |-> {"tools/call"}, failOpen |-> FALSE]]
MCSnapshots == {Snapshot1, Snapshot2}
-----------------------------------------------------------------------------
(* Config: documents around a plain one.                                   *)

NS == <<NsChar>>

Upstream(id, ns, strategy, secrets) ==
    [id |-> id, ns |-> ns, wellFormed |-> TRUE, hosts |-> {"in"}, strategy |-> strategy,
     secrets |-> secrets, tokenHost |-> Nil]

PlainConfig ==
    [ups |-> <<Upstream("a", NS, "none", {})>>, sep |-> <<Other, Other>>, mcpPath |-> "/mcp",
     server |-> [wellFormed |-> TRUE, metricsAddr |-> FALSE, icons |-> TRUE, publicUrl |-> FALSE],
     introspection |-> [enabled |-> TRUE, groups |-> {}],
     console |-> [enabled |-> TRUE, oauth |-> Nil],
     auth |-> [wellFormed |-> TRUE, mode |-> "required", resource |-> "plain", ema |-> TRUE,
               issuers |-> {[name |-> "idp", direct |-> TRUE]}],
     tenants |-> <<>>, policy |-> [wellFormed |-> TRUE, servers |-> {}],
     discovery |-> [strategies |-> Nil, secretRefs |-> {"s"}, credentialHosts |-> {"in"},
                    upstreamHosts |-> Nil],
     audit |-> [wellFormed |-> TRUE, requireDurable |-> FALSE, sinks |-> {}]]

Single == [PlainConfig EXCEPT !.ups = <<Upstream("a", Nil, "none", {})>>]

\* Namespaces of which one begins the other, and separators of every kind ...
Named ==
    {[PlainConfig EXCEPT !.ups = u, !.sep = s] :
        s \in UNION {[1..n -> {NsChar, Other}] : n \in 1..2},
        u \in {<<Upstream("a", Nil, "none", {})>>, <<Upstream("a", NS, "none", {})>>,
               <<Upstream("a", NS, "none", {}), Upstream("b", NS \o NS, "passthrough", {})>>,
               <<Upstream("a", NS \o NS, "none", {}), Upstream("b", Nil, "none", {})>>}}
    \cup {[PlainConfig EXCEPT !.policy.servers = {"b"}],
          [PlainConfig EXCEPT !.tenants = <<[id |-> "t", subjects |-> "all", upstreams |-> {"c"}]>>]}

\* ... the endpoints of the gateway in every combination ...
Handled ==
    {[PlainConfig EXCEPT !.mcpPath = m, !.console.enabled = c, !.introspection.enabled = i,
         !.auth.mode = a, !.auth.resource = r, !.auth.ema = e, !.server.icons = ic] :
        m \in {"/mcp", "/icons/", "/console", "/oauth/token"} \cup WellKnown, c \in BOOLEAN, i \in BOOLEAN,
        a \in {"required", "disabled"}, r \in {"plain", ResourcePath, Nil}, e \in BOOLEAN, ic \in BOOLEAN}

\* ... and what discovery is allowed.
Allowing ==
    {[PlainConfig EXCEPT !.discovery.secretRefs = s, !.discovery.strategies = st,
         !.discovery.credentialHosts = h] :
        s \in {Nil, {}, {"s"}}, st \in {Nil, {"none"}, {"static"}}, h \in {Nil, {"in"}}}

MCConfigurations == Named \cup Handled \cup Allowing

MCFound ==
    {<<>>, <<Upstream("c", NS, "none", {})>>, <<Upstream("b", NS \o NS \o NS, "none", {})>>}
    \cup {<<[Upstream("c", NS \o NS \o NS, st, s) EXCEPT !.hosts = h, !.tokenHost = t]>> :
             st \in {"none", "static", "client-credentials"}, s \in {{"s"}, {"z"}},
             h \in {{"in"}, {"out"}}, t \in {Nil, "out"}}

MCTexts == UNION {[1..n -> {NsChar, Other, Slash}] : n \in 0..2}
-----------------------------------------------------------------------------
\* The parts a behaviour does not exercise begin alike.  Replicas are alike: the
\* minting call is at the first.
MCInit ==
    /\ part \in Parts
    /\ PolicyInit /\ (part # "policy" => document = [rules |-> <<>>, default |-> TRUE])
    /\ TenancyInit /\ (part # "tenancy" => DOMAIN tenants = {})
    /\ PagingInit /\ (part # "paging" => merged = <<>>)
    /\ RoutingInit /\ (part # "routing" => snapshot = Snapshot1)
    /\ ConfigInit /\ (part # "config" => running = Single)
    /\ TasksInit /\ job["mint"].on = 1 /\ (part # "tasks" => \A j \in Jobs : job[j].on = 1)
    /\ AuditInit /\ (part # "audit" => logger.kind = "file" /\ ~logger.requireDurable)
    /\ BridgingInit /\ (part # "bridging" => allowed)

\* Calls share nothing with other requests but the snapshot, which is reloaded
\* under them, so the other client stays away from them.  Events are alike, so
\* they come in one order.
Situation ==
    /\ \A c, d \in Clients : c # d /\ req[c].op \in CallMethods => req[d].pc = "idle"
    /\ \A d, e \in Events : d < e /\ emitting[e] # "new" => emitting[d] # "new"

MCNext ==
    /\ \/ part = "policy" /\ PolicyNext
          /\ UNCHANGED <<nvars, gvars, rvars, fvars, tvars, avars, bgvars>>
       \/ part = "tenancy" /\ TenancyNext
          /\ UNCHANGED <<pvars, gvars, rvars, fvars, tvars, avars, bgvars>>
       \/ part = "paging" /\ PagingNext
          /\ UNCHANGED <<pvars, nvars, rvars, fvars, tvars, avars, bgvars>>
       \/ part = "routing" /\ RoutingNext
          /\ UNCHANGED <<pvars, nvars, gvars, fvars, tvars, avars, bgvars>>
       \/ part = "config" /\ ConfigNext
          /\ UNCHANGED <<pvars, nvars, gvars, rvars, tvars, avars, bgvars>>
       \/ part = "tasks" /\ TasksNext
          /\ UNCHANGED <<pvars, nvars, gvars, rvars, fvars, avars, bgvars>>
       \/ part = "audit" /\ AuditNext
          /\ UNCHANGED <<pvars, nvars, gvars, rvars, fvars, tvars, bgvars>>
       \/ part = "bridging" /\ BridgingNext
          /\ UNCHANGED <<pvars, nvars, gvars, rvars, fvars, tvars, avars>>
    /\ Situation'
    /\ UNCHANGED part

MCSpec == MCInit /\ [][MCNext]_all
=============================================================================
