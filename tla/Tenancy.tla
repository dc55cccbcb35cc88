------------------------------ MODULE Tenancy -------------------------------
(***************************************************************************)
(* Tenants (gateway/tenant.go): the one tenant a caller belongs to, found  *)
(* through indexes over the selectors, and the allowance a tenant carries  *)
(* from one routing snapshot to the next.                                  *)
(*                                                                         *)
(* Selectors and callers are the records of Policy, whose matcher is the   *)
(* one definition of who a selector covers.  Counters are the in-memory    *)
(* provider's: the object is the count, so a rebuilt one starts at zero.   *)
(***************************************************************************)
EXTENDS Policy

CONSTANTS
    Scalars,       \* the claim values an index may hold
    Tenants,       \* the tenant ids of every document
    TenantDocs,    \* functions from some of Tenants to their declarations
    NoTenant, Ambiguous,
    SpendCap       \* bound on a counter

\* Every tenant declares who it is of, by finitely many claims and scopes.
ASSUME TenancyAssumption ==
    /\ SpendCap \in Nat
    /\ \A ts \in TenantDocs : DOMAIN ts \subseteq Tenants
    /\ \A ts \in TenantDocs : \A t \in DOMAIN ts :
           /\ ts[t].subjects # Anyone
           /\ IsFiniteSet(ts[t].subjects.claims) /\ IsFiniteSet(ts[t].subjects.scopes)

VARIABLES
    tenants,       \* the declarations of the snapshot in force
    counter        \* the budget object of each tenant: what it has counted

nvars == <<tenants, counter>>
-----------------------------------------------------------------------------
Only(s, field) ==
    \A f \in {"issuers", "claims", "scopes", "subs", "groups"} \ {field} : s[f] = {}

indexableClaim(s) ==
    /\ Only(s, "claims")
    /\ Cardinality(s.claims) = 1 /\ \A c \in s.claims : c[2] \in Scalars

\* Mutant of indexableGroups: a selector that names subjects too is filed under
\* its groups.
indexableGroupsAndSubs(s) == s.groups # {} /\ s.claims \cup s.issuers \cup s.scopes = {}

indexableGroups(s) == Only(s, "groups") /\ s.groups # {}

indexableScope(s) == Only(s, "scopes") /\ Cardinality(s.scopes) = 1

\* index: where a tenant is filed.
FiledUnder(s) ==
    IF indexableClaim(s) THEN "claim"
    ELSE IF indexableGroups(s) THEN "group"
    ELSE IF indexableScope(s) THEN "scope"
    ELSE "scan"

\* The tenants the indexes offer for a caller's claims, groups and scopes, and
\* every one of the scan list.
Candidates(ts, p) ==
    {t \in DOMAIN ts :
        LET s == ts[t].subjects
        IN  \/ FiledUnder(s) = "claim" /\ \E c \in p.claims : c[2] \in Scalars /\ c \in s.claims
            \/ FiledUnder(s) = "group" /\ p.groups \cap s.groups # {}
            \/ FiledUnder(s) = "scope" /\ p.scopes \cap s.scopes # {}
            \/ FiledUnder(s) = "scan"}

Verdict(found) ==
    IF found = {} THEN NoTenant
    ELSE IF Cardinality(found) > 1 THEN Ambiguous
    ELSE CHOOSE t \in found : TRUE

resolveTenant(ts, p) ==
    IF p = Nobody THEN NoTenant
    ELSE Verdict({t \in Candidates(ts, p) : subjectsMatch(ts[t].subjects, p)})
-----------------------------------------------------------------------------
(* wire: the object is the previous snapshot's when the dimension is       *)
(* declared as it was.                                                     *)

\* Mutant of Wired: every reload builds a fresh budget.
WiredAnew(ts, t) == 0

Wired(ts, t) ==
    IF t \in DOMAIN tenants /\ tenants[t].budget = ts[t].budget THEN counter[t] ELSE 0

TenancyInit ==
    /\ tenants \in TenantDocs
    /\ counter = [t \in Tenants |-> 0]

\* buildTenants, on every reload, whatever it changes.
Rebuild(ts) ==
    /\ tenants' = ts
    /\ counter' = [t \in Tenants |-> IF t \in DOMAIN ts THEN Wired(ts, t) ELSE 0]

\* An invocation of the caller is charged to its tenant.
Spend(p) ==
    LET t == resolveTenant(tenants, p)
    IN  /\ t \in DOMAIN tenants /\ counter[t] < SpendCap
        /\ counter' = [counter EXCEPT ![t] = @ + 1]
        /\ UNCHANGED tenants

TenancyNext ==
    \/ \E ts \in TenantDocs : Rebuild(ts)
    \/ \E p \in Callers : Spend(p)

TenancySpec == TenancyInit /\ [][TenancyNext]_nvars
-----------------------------------------------------------------------------
TenancyTypeOK == tenants \in TenantDocs /\ counter \in [Tenants -> 0..SpendCap]

\* The indexes only accelerate: for every caller, resolution through them is
\* the verdict over all selectors - the one that matches, none, or a refusal
\* when several do.
IndexExact ==
    /\ TenancyTypeOK
    /\ \A p \in Callers \ {Nobody} :
           resolveTenant(tenants, p) =
               Verdict({t \in DOMAIN tenants : subjectsMatch(tenants[t].subjects, p)})

\* A reload forgets no allowance it did not change: while a tenant's budget is
\* declared alike before and after, its count never falls.
AllowanceKept ==
    [][\A t \in DOMAIN tenants \cap DOMAIN tenants' :
            tenants'[t].budget = tenants[t].budget => counter'[t] >= counter[t]]_nvars
=============================================================================
