------------------------------- MODULE Config -------------------------------
(***************************************************************************)
(* The configuration document (config/config.go): what Validate refuses,   *)
(* what a discovery source may add to it (setDiscovered), and three things *)
(* that the rest of the gateway takes from a valid one: that the names and *)
(* UI addresses clients see lead back to the upstream that published them  *)
(* (resolve, uiOwner), that the handlers of buildHandler fit on one mux,   *)
(* and that secrets go only where the operator allows.                     *)
(*                                                                         *)
(* A text is a sequence of characters, of which three kinds are told       *)
(* apart: NsChar for those a namespace may have, Slash, and Other.  Checks *)
(* of a single field (ranges, spellings, URL syntax, https) are one        *)
(* Boolean of the section, wellFormed.  Nil stands for an absent list.     *)
(***************************************************************************)
EXTENDS Integers, Sequences, FiniteSets, Functions

CONSTANTS Configurations,  \* documents the operator may write
          Found,           \* lists of upstreams discovery may name
          Texts,           \* names and addresses of upstreams
          Nil, NoMatch,
          WellKnown,       \* paths under /.well-known/
          ResourcePath     \* the well-known path of an auth.resource with a path

\* The sections of a document: a configuration has these and no others.
Sections == {"ups", "sep", "mcpPath", "server", "introspection", "console", "auth", "tenants",
             "policy", "discovery", "audit"}

NsChar == "n"
Slash == "/"
Other == "x"
Chars == {NsChar, Slash, Other}

\* The well-known paths the gateway serves, but for ResourcePath.
Metadata == {"/.well-known/oauth-protected-resource", "/.well-known/jwks.json",
             "/.well-known/oauth-authorization-server"}

\* Mutant of Reserved: the icon endpoint is forgotten.
ReservedButIcons ==
    {"/health", "/metrics", "/console", "/console/", "/api/federation", "/api/auth-hint", "/oauth/token"}

\* The paths of the gateway that Validate refuses as mcpPath.
Reserved == {"/health", "/metrics", "/console", "/console/", "/api/federation",
             "/api/auth-hint", "/oauth/token", "/icons", "/icons/"}

\* A list of upstreams, each with a namespace or none.
Upstreams(ups) ==
    /\ ups \in Seq(Range(ups))
    /\ \A i \in DOMAIN ups : ups[i].ns # Nil => ups[i].ns \in Seq(Chars)

\* The separator is what NamespaceSeparator returns, which is never empty.
ASSUME ConfigAssumption ==
    /\ \A d \in Configurations :
          /\ d = [s \in Sections |-> d[s]]
          /\ Upstreams(d.ups) /\ d.sep \in Seq(Chars) \ {<<>>}
    /\ \A ups \in Found : Upstreams(ups)
    /\ \A text \in Texts : text \in Seq(Chars)
    /\ Metadata \cup {ResourcePath} \subseteq WellKnown /\ ResourcePath \notin Metadata \cup Reserved

VARIABLES
    running,  \* the document the gateway was built with
    base,     \* Gateway.baseCfg
    found     \* Gateway.discovered

fvars == <<running, base, found>>

AuthRequired(d) == d.auth.mode = "required"
Ids(ups) == {ups[i].id : i \in DOMAIN ups}

\* Distinct values of a field, Nil excepted.
Distinct(s, field(_)) ==
    \A i, j \in DOMAIN s : field(s[i]) = field(s[j]) /\ field(s[i]) # Nil => i = j

\* The credential of an upstream is derived from its caller's.
CallerDerived(u) == u.strategy \in {"passthrough", "token-exchange"}

\* validateAuth.
validateAuth(u) ==
    CASE u.strategy \in {"none", "passthrough"} -> TRUE
      [] u.strategy = "static" -> u.secrets # {}
      [] u.strategy \in {"client-credentials", "token-exchange"} ->
             u.tokenHost # Nil /\ u.secrets # {}
      [] OTHER -> FALSE

\* Validate: the upstreams, ...
ValidUpstreams(d) ==
    /\ d.ups # <<>> \/ d.discovery # Nil
    /\ \A i \in DOMAIN d.ups :
          /\ d.ups[i].wellFormed /\ d.ups[i].hosts # {}
          /\ d.ups[i].ns # Nil => d.ups[i].ns # <<>> /\ Range(d.ups[i].ns) = {NsChar}
          /\ validateAuth(d.ups[i])
          /\ CallerDerived(d.ups[i]) => AuthRequired(d)
    /\ Distinct(d.ups, LAMBDA u : u.id)
    /\ Distinct(d.ups, LAMBDA u : u.ns)
    /\ Len(d.ups) > 1 => \A i \in DOMAIN d.ups : d.ups[i].ns # Nil

\* Mutant of ValidSeparator: any separator will do.
ValidSeparatorAny(d) == TRUE

\* ... the separator (sepCollisionRE), ...
ValidSeparator(d) == NsChar \notin Range(d.sep)

\* ConsoleOAuthIssuer finds one.
ConsoleOAuthIssuer(d) ==
    \E iss \in d.auth.issuers : iss.direct /\ d.console.oauth \in {"any", iss.name}

\* ... the server section, ...
ValidServer(d) ==
    /\ d.server.wellFormed
    /\ d.mcpPath \notin Reserved \cup WellKnown
    /\ d.introspection.groups # {} => AuthRequired(d)
    /\ d.console.enabled => d.introspection.enabled
    /\ d.console.oauth # Nil => d.console.enabled /\ AuthRequired(d) /\ ConsoleOAuthIssuer(d)

\* ... authentication, ...
ValidAuth(d) ==
    /\ d.auth.wellFormed
    /\ AuthRequired(d) => d.auth.resource # Nil /\ d.auth.issuers # {}
    /\ d.auth.ema => AuthRequired(d)

\* ... tenants, policy, ...
ValidTenants(d) ==
    /\ Distinct(d.tenants, LAMBDA t : t.id)
    /\ Distinct(d.tenants, LAMBDA t : t.subjects)
    /\ \A i \in DOMAIN d.tenants :
          d.tenants[i].subjects # Nil /\ d.tenants[i].upstreams \subseteq Ids(d.ups)

ValidPolicy(d) == d.policy.wellFormed /\ d.policy.servers \subseteq Ids(d.ups)

\* Mutant of ValidDiscovery: only strategies count as granting a credential.
ValidDiscoveryByStrategy(d) ==
    d.discovery # Nil =>
        (d.discovery.strategies # Nil /\ d.discovery.strategies \ {"none"} # {}
         => d.discovery.credentialHosts # Nil)

\* ... discovery: whoever permits a credential says where it may go.
ValidDiscovery(d) ==
    d.discovery # Nil =>
        LET a == d.discovery
            credentialed == \/ a.secretRefs # Nil /\ a.secretRefs # {}
                            \/ a.strategies # Nil /\ a.strategies \ {"none"} # {}
        IN credentialed => a.credentialHosts # Nil

\* ... and hook, tracing and audit.
ValidAudit(d) ==
    d.audit.wellFormed /\ (d.audit.requireDurable => \E s \in d.audit.sinks : s = "durable")

Validate(d) ==
    /\ ValidUpstreams(d) /\ ValidSeparator(d) /\ ValidServer(d) /\ ValidTenants(d)
    /\ ValidAuth(d) /\ ValidPolicy(d) /\ ValidDiscovery(d) /\ ValidAudit(d)

\* Where a credentialed upstream sends its credential.
SentTo(u) == u.hosts \cup ({u.tokenHost} \ {Nil})

Permits(list, x) == list # Nil => x \in list

\* checkDiscoveredCredentials.
checkDiscoveredCredentials(a, ups) ==
    \A i \in DOMAIN ups : LET u == ups[i] IN
        /\ \A h \in u.hosts : Permits(a.upstreamHosts, h)
        /\ u.strategy # "none" => Permits(a.strategies, u.strategy)
        /\ \A ref \in u.secrets : Permits(a.secretRefs, ref)
        /\ u.strategy # "none" \/ u.secrets # {} =>
              \A h \in SentTo(u) : Permits(a.credentialHosts, h)

Merge(d, ups) == [d EXCEPT !.ups = d.ups \o ups]

\* applyLocked: the sections wired in at construction do not change.
SameWiring(d, e) == [d EXCEPT !.ups = e.ups, !.tenants = e.tenants, !.policy = e.policy] = e

ConfigInit ==
    /\ running \in {d \in Configurations : Validate(d)}
    /\ base = running
    /\ found = <<>>

\* Gateway.Reload.
Reconfigure(d) ==
    /\ Validate(Merge(d, found)) /\ SameWiring(d, running)
    /\ base' = d
    /\ UNCHANGED <<running, found>>

\* setDiscovered.
Discover(ups) ==
    /\ base.discovery # Nil
    /\ checkDiscoveredCredentials(running.discovery, ups)
    /\ Validate(Merge(base, ups))
    /\ found' = ups
    /\ UNCHANGED <<running, base>>

ConfigNext ==
    \/ \E d \in Configurations : Reconfigure(d)
    \/ \E ups \in Found : Discover(ups)

ConfigSpec == ConfigInit /\ [][ConfigNext]_fvars
-----------------------------------------------------------------------------
Serving == Merge(base, found)
Passthrough(d) == Len(d.ups) = 1 /\ d.ups[1].ns = Nil

\* Where sep occurs in s.
Occurrences(s, sep) ==
    {i \in 1..(Len(s) - Len(sep) + 1) : SubSeq(s, i, i + Len(sep) - 1) = sep}

\* strings.Cut: what is before and after the first occurrence.
Cut(s, sep) ==
    IF Occurrences(s, sep) = {} THEN [found |-> FALSE, before |-> s, after |-> <<>>]
    ELSE LET i == CHOOSE i \in Occurrences(s, sep) : \A j \in Occurrences(s, sep) : i <= j
         IN [found |-> TRUE, before |-> SubSeq(s, 1, i - 1), after |-> SubSeq(s, i + Len(sep), Len(s))]

publicName(d, u, bare) == IF u.ns = Nil THEN bare ELSE u.ns \o d.sep \o bare

ByNamespace(d, ns) == {i \in DOMAIN d.ups : d.ups[i].ns = ns}

\* The upstream whose namespace is before the cut, and what is after.
OwnerOf(d, cut) ==
    IF ~cut.found \/ ByNamespace(d, cut.before) = {} THEN NoMatch
    ELSE <<CHOOSE i \in ByNamespace(d, cut.before) : TRUE, cut.after>>

resolve(d, name) == IF Passthrough(d) THEN <<1, name>> ELSE OwnerOf(d, Cut(name, d.sep))

\* mintUIURI and splitUIURI, without the prefix ui://fold/ that marks a minted
\* address; rest is what follows ui:// in the upstream's own.
mintUIURI(u, rest) == u.ns \o <<Slash>> \o rest
uiOwner(d, minted) ==
    LET cut == Cut(minted, <<Slash>>) IN
    IF Passthrough(d) \/ cut.before = <<>> \/ cut.after = <<>> THEN NoMatch ELSE OwnerOf(d, cut)

\* There is a PublicURL to mint icon addresses under.
PublicURL(d) == d.server.publicUrl \/ d.auth.resource # Nil
iconsServed(d) == d.server.icons /\ PublicURL(d) /\ ~Passthrough(d)

When(c, s) == IF c THEN s ELSE <<>>

\* The patterns buildHandler registers, in its order.
buildHandler(d) ==
    <<d.mcpPath, "/health">>
    \o When(~d.server.metricsAddr, <<"/metrics">>)
    \o When(d.introspection.enabled, <<"/api/federation", "/api/auth-hint">>)
    \o When(d.console.enabled, <<"/console/", "/console">>)
    \o When(iconsServed(d), <<"/icons/">>)
    \o When(AuthRequired(d), <<"/.well-known/oauth-protected-resource">>)
    \o When(AuthRequired(d) /\ d.auth.ema,
            <<"/.well-known/jwks.json", "/.well-known/oauth-authorization-server">>
            \o When(d.auth.resource = ResourcePath, <<ResourcePath>>) \o <<"/oauth/token">>)
-----------------------------------------------------------------------------
ConfigTypeOK ==
    /\ running \in Configurations /\ base \in Configurations
    /\ found \in Found \cup {<<>>}

\* router.go (public is "the inverse of resolve"): whatever is reloaded or
\* discovered, every name and UI address fold publishes leads back to the
\* upstream that owns it and to the name the upstream knows it by, also when
\* one namespace begins another or names contain the separator.
NamesRouteBack ==
    LET d == Serving IN
    \A i \in DOMAIN d.ups, text \in Texts : LET u == d.ups[i] IN
        /\ resolve(d, publicName(d, u, text)) = <<i, text>>
        /\ u.ns # Nil /\ text # <<>> => uiOwner(d, mintUIURI(u, text)) = <<i, text>>

\* config.go (the reserved paths): the handlers of a document that validates
\* never claim a pattern twice, at which http.ServeMux would panic; and the
\* console page is not served without the API it reads.
HandlersFit ==
    LET patterns == buildHandler(running) IN
    /\ IsInjective(patterns)
    /\ "/console" \in Range(patterns) => "/api/federation" \in Range(patterns)

\* What a client is given to address leads where it came from: the names and UI
\* addresses of upstreams (resolve, uiOwner) and the paths of the gateway
\* (buildHandler).
AddressesLead == NamesRouteBack /\ HandlersFit

\* config.go and checkDiscoveredCredentials ("the two halves are only
\* meaningful together"): once the operator lists the secrets discovery may
\* use, no discovered upstream names another, and each that names one talks
\* to listed hosts only.
SecretsConfined ==
    \A i \in DOMAIN found : LET a == running.discovery IN
        a.secretRefs # Nil /\ found[i].secrets # {} =>
            /\ found[i].secrets \subseteq a.secretRefs
            /\ a.credentialHosts # Nil
            /\ SentTo(found[i]) \subseteq a.credentialHosts
=============================================================================
