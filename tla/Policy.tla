------------------------------- MODULE Policy -------------------------------
(***************************************************************************)
(* The policy engine (policy/policy.go): who a selector covers, which      *)
(* clauses match an invocation, and the decision, with its two entry       *)
(* points - an item of a list, an actual call - and its two code paths,    *)
(* one for documents that constrain neither arguments nor annotations.     *)
(*                                                                         *)
(* Names are sequences of letters and a pattern is the sequence of parts   *)
(* left when it is split on its stars, because the matcher walks them.     *)
(* Everything else a rule compares (issuers, subjects, groups, scopes,     *)
(* claims, servers, methods, argument paths and values) is a model value.  *)
(***************************************************************************)
EXTENDS Integers, Sequences, FiniteSets, SequencesExt

CONSTANTS
    Anyone,      \* a rule without a selector
    Nobody,      \* a request without a verified caller
    Unknown,     \* annotations fold cannot establish
    NoArgs,      \* a call whose arguments are absent or not an object
    Documents,   \* the policy documents that may be in force
    Callers,     \* the principals that ask
    Calls        \* the invocations they ask for

HasFields(x, fields) == x = [f \in fields |-> x[f]]
IsSequence(s) == s \in Seq(ToSet(s))
CallerFields == {"subject", "issuer", "groups", "claims", "scopes"}

\* The scopes some rule requires.
GatingScopes ==
    UNION {UNION {d.rules[i].subjects.scopes : i \in {j \in DOMAIN d.rules : d.rules[j].subjects # Anyone}} :
              d \in Documents}

Clauses(r) == ToSet(r.allow) \cup ToSet(r.deny)

\* The shape of documents, callers and calls; Validate requires an id of a rule,
\* and strings.Split leaves at least one part.
ASSUME PolicyAssumption ==
    /\ \A d \in Documents :
          /\ HasFields(d, {"rules", "default"}) /\ d.default \in BOOLEAN
          /\ DOMAIN d.rules = 1..Len(d.rules) /\ Len(d.rules) \in Nat
          /\ \A i \in DOMAIN d.rules :
                /\ d.rules[i].id # ""
                /\ \A a \in Clauses(d.rules[i]) : \A g \in a.names :
                      g # <<>> /\ IsSequence(g) /\ \A k \in DOMAIN g : IsSequence(g[k])
    /\ \A p \in Callers \ {Nobody} : HasFields(p, CallerFields)
    /\ \A p \in Callers \ {Nobody}, more \in SUBSET GatingScopes :
          [p EXCEPT !.scopes = @ \cup more] # Nobody
    /\ \A c \in Calls :
          HasFields(c, {"server", "method", "name", "args", "tool"}) /\ IsSequence(c.name)

VARIABLES
    document,    \* the document of the routing snapshot in force
    scopes,      \* the scopes each caller's token carries beyond its own
    asked        \* the last call, with what it was answered

pvars == <<document, scopes, asked>>
-----------------------------------------------------------------------------
(* Selectors.                                                              *)

missingScopes(required, held) == required \ held

\* A claim of the token is the set of its values: an array holds several.
claimsMatch(required, claims) ==
    \A c \in required : \E got \in claims : got = c

Gated(s) == s.issuers # {} \/ s.claims # {} \/ s.scopes # {}

\* Whether the selector covers the caller, and the scopes that alone stood in
\* the way.
subjectsMatchWhy(s, p) ==
    LET no == [ok |-> FALSE, unmet |-> {}]
        missing == missingScopes(s.scopes, p.scopes)
        named == s.subs # {} \/ s.groups # {}
        identity == p.subject \in s.subs \/ s.groups \cap p.groups # {}
    IN  IF s = Anyone THEN [ok |-> TRUE, unmet |-> {}]
        ELSE IF p = Nobody THEN no
        ELSE IF s.issuers # {} /\ p.issuer \notin s.issuers THEN no
        ELSE IF ~claimsMatch(s.claims, p.claims) THEN no
        ELSE IF named /\ ~identity THEN no
        ELSE IF missing # {} THEN [ok |-> FALSE, unmet |-> missing]
        ELSE [ok |-> named \/ Gated(s), unmet |-> {}]

subjectsMatch(s, p) == subjectsMatchWhy(s, p).ok
-----------------------------------------------------------------------------
(* Patterns.                                                               *)

OccursAt(part, name, i) ==
    /\ i >= 1 /\ i + Len(part) - 1 <= Len(name)
    /\ SubSeq(name, i, i + Len(part) - 1) = part

\* Past the first occurrence of a middle part; 0 once one was not found.
After(name, from, part) ==
    LET at == {i \in from..Len(name) + 1 : OccursAt(part, name, i)}
    IN  IF from = 0 \/ at = {} THEN 0 ELSE Min(at) + Len(part)

\* Mutant of match: the last part may overlap the first.
matchOverlapping(parts, name) ==
    /\ OccursAt(parts[1], name, 1)
    /\ OccursAt(Last(parts), name, Len(name) - Len(Last(parts)) + 1)

\* Past each part but the last, from left to right.
walkParts(parts, name) ==
    LET past[k \in 1..Len(parts) - 1] ==
            IF k = 1 THEN Len(parts[1]) + 1 ELSE After(name, past[k - 1], parts[k])
    IN  past

match(parts, name) ==
    LET end == Len(name) - Len(Last(parts)) + 1
        from == walkParts(parts, name)[Len(parts) - 1]
    IN  IF Len(parts) = 1 THEN parts[1] = name
        ELSE /\ OccursAt(parts[1], name, 1)
             /\ from > 0 /\ from <= end
             /\ OccursAt(Last(parts), name, end)

globAny(globs, name) == \E g \in globs : match(g, name)
-----------------------------------------------------------------------------
(* Clauses.                                                                *)

Targets(a, call) ==
    /\ a.server \in {"*", call.server}
    /\ a.methods = {} \/ call.method \in a.methods
    /\ a.names = {} \/ globAny(a.names, call.name)

matches(clauses, call) == \E i \in DOMAIN clauses : Targets(clauses[i], call)

admits(kind, tool) ==
    \/ tool.readOnly
    \/ kind = "nonDestructive" /\ ~tool.destructive

kindAdmits(kind, tool) == tool # Unknown /\ admits(kind, tool)

\* Only call arguments that parsed can satisfy a constraint.
argsSatisfied(constraints, args) == args # NoArgs /\ constraints \subseteq args

\* What a clause's constraints mean: enforced for a call; ignored for an allow
\* and skipping the whole clause for a deny when a list is filtered.
ClauseHolds(a, call, mode) ==
    /\ Targets(a, call)
    /\ a.kind = "any" \/ kindAdmits(a.kind, call.tool)
    /\ \/ a.args = {}
       \/ mode = "ignore"
       \/ mode = "enforce" /\ argsSatisfied(a.args, call.args)

\* Whether some clause holds, and whether one failed on its arguments alone.
matchesArgs(clauses, call, mode) ==
    LET holds == \E i \in DOMAIN clauses : ClauseHolds(clauses[i], call, mode)
    IN  [ok |-> holds,
         failed |-> ~holds /\ mode = "enforce" /\ \E i \in DOMAIN clauses :
                        ClauseHolds(clauses[i], call, "ignore")]
-----------------------------------------------------------------------------
(* Decisions.                                                              *)

hasArgs(d) == \E i \in DOMAIN d.rules : \E a \in Clauses(d.rules[i]) : a.args # {}
hasKind(d) == \E i \in DOMAIN d.rules : \E a \in Clauses(d.rules[i]) : a.kind # "any"

First(S) == Min(S)
Allow(r) == [allowed |-> TRUE, rule |-> r.id, max |-> r.max,
             failedArg |-> FALSE, missing |-> {}]
Deny(r) == [allowed |-> FALSE, rule |-> r.id, max |-> 0,
            failedArg |-> FALSE, missing |-> {}]

\* Mutant of scopeShortfall: rules that do not grant this call contribute.
scopeShortfallOfAnyRule(d, p, call, mode) ==
    UNION {subjectsMatchWhy(d.rules[i].subjects, p).unmet : i \in DOMAIN d.rules}

\* The scopes of every rule that scopes alone kept from granting this call.
scopeShortfall(d, p, call, mode) ==
    IF mode # "enforce" THEN {}
    ELSE UNION {subjectsMatchWhy(d.rules[i].subjects, p).unmet :
                    i \in {j \in DOMAIN d.rules : matches(d.rules[j].allow, call)}}

Default(d, p, call, mode, blocked) ==
    [allowed |-> d.default, rule |-> "", max |-> 0, failedArg |-> blocked,
     missing |-> scopeShortfall(d, p, call, mode)]

\* Mutant of decideNames: the first rule that says anything decides.
decideNamesInOrder(d, p, call, mode) ==
    LET speaks == {i \in DOMAIN d.rules :
                      /\ subjectsMatch(d.rules[i].subjects, p)
                      /\ matches(d.rules[i].deny \o d.rules[i].allow, call)}
        r == d.rules[First(speaks)]
    IN  IF speaks = {} THEN Default(d, p, call, mode, FALSE)
        ELSE IF matches(r.deny, call) THEN Deny(r) ELSE Allow(r)

\* The path of documents without constraints: clauses match by target alone.
decideNames(d, p, call, mode) ==
    LET covers == {i \in DOMAIN d.rules : subjectsMatch(d.rules[i].subjects, p)}
        denying == {i \in covers : matches(d.rules[i].deny, call)}
        granting == {i \in covers : matches(d.rules[i].allow, call)}
    IN  IF denying # {} THEN Deny(d.rules[First(denying)])
        ELSE IF granting # {} THEN Allow(d.rules[First(granting)])
        ELSE Default(d, p, call, mode, FALSE)

\* Mutant of decideArgs: a deny that cannot be judged at list time hides.
decideArgsHiding(d, p, call, mode) ==
    LET covers == {i \in DOMAIN d.rules : subjectsMatch(d.rules[i].subjects, p)}
        denying == {i \in covers : matchesArgs(d.rules[i].deny, call, mode).ok}
        granting == {i \in covers : matchesArgs(d.rules[i].allow, call, mode).ok}
    IN  IF denying # {} THEN Deny(d.rules[First(denying)])
        ELSE IF granting # {} THEN Allow(d.rules[First(granting)])
        ELSE Default(d, p, call, mode, FALSE)

decideArgs(d, p, call, mode) ==
    LET covers == {i \in DOMAIN d.rules : subjectsMatch(d.rules[i].subjects, p)}
        denyMode == IF mode = "ignore" THEN "skip" ELSE mode
        denying == {i \in covers : matchesArgs(d.rules[i].deny, call, denyMode).ok}
        granting == {i \in covers : matchesArgs(d.rules[i].allow, call, mode).ok}
    IN  IF denying # {} THEN Deny(d.rules[First(denying)])
        ELSE IF granting # {} THEN Allow(d.rules[First(granting)])
        ELSE Default(d, p, call, mode, \E i \in covers :
                         matchesArgs(d.rules[i].allow, call, mode).failed)

decide(d, p, call, mode) ==
    IF ~hasArgs(d) /\ ~hasKind(d) THEN decideNames(d, p, call, mode)
    ELSE decideArgs(d, p, call, mode)

DecideCall(d, p, call) == decide(d, p, call, "enforce")
DecideList(d, p, call) == decide(d, p, [call EXCEPT !.args = NoArgs], "ignore")
-----------------------------------------------------------------------------
(* Callers ask, obtain the scopes they were told of, and ask again.        *)

Idle == [is |-> "idle"]

Holder(p) == IF p = Nobody THEN p ELSE [p EXCEPT !.scopes = @ \cup scopes[p]]

PolicyInit ==
    /\ document \in Documents
    /\ scopes = [p \in Callers |-> {}]
    /\ asked = Idle

Call(p, call) ==
    /\ asked' = [is |-> "asked", by |-> p, call |-> call,
                 got |-> DecideCall(document, Holder(p), call)]
    /\ UNCHANGED <<document, scopes>>

\* The caller goes and obtains the scopes its refusal named.
Reauthorize ==
    /\ asked.is = "asked" /\ asked.by # Nobody
    /\ asked.got.missing # {} /\ ~asked.got.allowed
    /\ scopes' = [scopes EXCEPT ![asked.by] = @ \cup asked.got.missing]
    /\ asked' = [is |-> "remedied", by |-> asked.by, call |-> asked.call, got |-> asked.got]
    /\ UNCHANGED document

PolicyNext ==
    \/ \E p \in Callers, call \in Calls : Call(p, call)
    \/ Reauthorize

PolicySpec == PolicyInit /\ [][PolicyNext]_pvars
-----------------------------------------------------------------------------
PolicyTypeOK ==
    /\ document \in Documents
    /\ scopes \in [Callers -> SUBSET GatingScopes]
    /\ asked.is \in {"idle", "asked", "remedied"}
    /\ asked.is # "idle" => asked.by \in Callers /\ asked.call \in Calls

\* What a pattern means: its parts occur in the name in order, apart, and from
\* its first letter to its last.
Covers(parts, name) ==
    \E at \in [DOMAIN parts -> 1..Len(name) + 1] :
        /\ at[1] = 1 /\ at[Len(parts)] + Len(Last(parts)) = Len(name) + 1
        /\ \A i \in DOMAIN parts : OccursAt(parts[i], name, at[i])
        /\ \A i \in 1..Len(parts) - 1 : at[i] + Len(parts[i]) <= at[i + 1]

Ruled == asked.is = "asked"

\* The left-to-right walk of glob.match agrees with the meaning of a pattern:
\* no match is lost to its taking the first occurrence of every part.
GlobExact ==
    Ruled => \A i \in DOMAIN document.rules : \A a \in Clauses(document.rules[i]) :
        \A g \in a.names : match(g, asked.call.name) <=> Covers(g, asked.call.name)

\* Deny wins wherever it was pasted, and the short path of decide answers as
\* the full one would: whether a call is allowed depends neither on the order
\* of the rules nor on which of the two code paths judged it.
OneReading ==
    Ruled => \A path \in {decide(document, Holder(asked.by), asked.call, "enforce"),
                           decideArgs(document, Holder(asked.by), asked.call, "enforce"),
                           decide([document EXCEPT !.rules = Reverse(@)],
                                  Holder(asked.by), asked.call, "enforce")} :
                path.allowed = asked.got.allowed

\* List filtering and call denial are a pair (DecideList, DecideCall): an item
\* the caller may call with some arguments is never hidden from its list.
CallableIsVisible ==
    Ruled /\ asked.got.allowed =>
        DecideList(document, Holder(asked.by), asked.call).allowed

\* decide is one policy, however a document is written down, judged or asked.
OnePolicy == PolicyTypeOK /\ OneReading /\ CallableIsVisible

\* A refusal that names missing scopes says what would fix it: with them the
\* same call is granted, or a rule refuses it by name.  Only for documents that
\* gate on neither arguments nor annotations: the shortfall of decide ignores
\* both.
Remedy ==
    asked.is = "remedied" /\ ~hasArgs(document) /\ ~hasKind(document) =>
        LET again == DecideCall(document, Holder(asked.by), asked.call)
        IN  again.allowed \/ again.rule # ""

\* "Unknown annotations deny": a call whose tool's annotations fold cannot
\* establish is never allowed where some annotations would have refused it.
UnknownDenies ==
    Ruled /\ asked.got.allowed /\ asked.call.tool = Unknown =>
        \A t \in [readOnly : BOOLEAN, destructive : BOOLEAN] :
            DecideCall(document, Holder(asked.by), [asked.call EXCEPT !.tool = t]).allowed
=============================================================================
