--------------------------- MODULE RequestsProofs ---------------------------
(***************************************************************************)
(* Proofs about what a request meets: the policy engine, the tenants, the  *)
(* router and its hook, the pages of a list, the configuration, the owners *)
(* of tasks and the contexts that bridged traffic rides.  Each theorem is  *)
(* of the specification of its component, for every value of the constants *)
(* that the component's assumption allows.                                 *)
(***************************************************************************)
EXTENDS Tenancy, Routing, Paging, Config, Tasks, Bridging, FiniteSetTheorems,
        SequenceTheorems, WellFoundedInduction, TLAPS

-----------------------------------------------------------------------------
(* Policy.                                                                 *)

\* Some rule that covers the caller denies, or grants, the call.
SomeDeny(d, p, it, mode) ==
    \E i \in DOMAIN d.rules : subjectsMatch(d.rules[i].subjects, p)
                              /\ matchesArgs(d.rules[i].deny, it, mode).ok
SomeGrant(d, p, it, mode) ==
    \E i \in DOMAIN d.rules : subjectsMatch(d.rules[i].subjects, p)
                              /\ matchesArgs(d.rules[i].allow, it, mode).ok
DenyMode(mode) == IF mode = "ignore" THEN "skip" ELSE mode

Reads(d, p, it, mode) ==
    /\ ~SomeDeny(d, p, it, DenyMode(mode))
    /\ SomeGrant(d, p, it, mode) \/ d.default

\* A list of clauses matches when one of them holds.
LEMMA MatchesArgsOk ==
    ASSUME NEW clauses, NEW it, NEW mode
    PROVE  matchesArgs(clauses, it, mode).ok <=> \E i \in DOMAIN clauses : ClauseHolds(clauses[i], it, mode)
<1>. DEFINE holds == \E i \in DOMAIN clauses : ClauseHolds(clauses[i], it, mode)
            f == ~holds /\ mode = "enforce" /\ \E i \in DOMAIN clauses : ClauseHolds(clauses[i], it, "ignore")
<1>1. matchesArgs(clauses, it, mode) = [ok |-> holds, failed |-> f]
  BY Zenon DEF matchesArgs
<1>. HIDE DEF holds, f
<1>2. matchesArgs(clauses, it, mode).ok = holds
  BY <1>1
<1>3. QED
  BY <1>2, Zenon DEF holds

\* The path of a document with argument conditions decides as Reads says,
LEMMA ArgsPath ==
    ASSUME NEW d, d.default \in BOOLEAN, NEW p, NEW it, NEW mode
    PROVE  /\ decideArgs(d, p, it, mode).allowed <=> Reads(d, p, it, mode)
           /\ decideArgs(d, p, it, mode).allowed \in BOOLEAN
<1>. DEFINE covers == {i \in DOMAIN d.rules : subjectsMatch(d.rules[i].subjects, p)}
            denying == {i \in covers : matchesArgs(d.rules[i].deny, it, DenyMode(mode)).ok}
            granting == {i \in covers : matchesArgs(d.rules[i].allow, it, mode).ok}
            failed == \E i \in covers : matchesArgs(d.rules[i].allow, it, mode).failed
<1>1. (denying # {} <=> SomeDeny(d, p, it, DenyMode(mode))) /\ (granting # {} <=> SomeGrant(d, p, it, mode))
  BY Zenon DEF SomeDeny, SomeGrant
<1>2. decideArgs(d, p, it, mode) =
        IF denying # {} THEN Deny(d.rules[First(denying)])
        ELSE IF granting # {} THEN Allow(d.rules[First(granting)])
        ELSE Default(d, p, it, mode, failed)
  BY Zenon DEF decideArgs, DenyMode
<1>. HIDE DEF denying, granting, failed
<1>3. \A r : Deny(r).allowed = FALSE /\ Allow(r).allowed = TRUE
  BY DEF Deny, Allow
<1>4. Default(d, p, it, mode, failed).allowed = d.default
  BY DEF Default
<1>5. QED
  BY <1>1, <1>2, <1>3, <1>4, Zenon DEF Reads

\* Clauses without constraints hold of what they target, in every mode.
LEMMA PlainClauses ==
    ASSUME NEW d, ~hasArgs(d), ~hasKind(d), NEW i \in DOMAIN d.rules, NEW it, NEW mode
    PROVE  /\ matchesArgs(d.rules[i].deny, it, mode).ok <=> matches(d.rules[i].deny, it)
           /\ matchesArgs(d.rules[i].allow, it, mode).ok <=> matches(d.rules[i].allow, it)
<1>1. \A k \in DOMAIN d.rules[i].deny : d.rules[i].deny[k].args = {} /\ d.rules[i].deny[k].kind = "any"
  BY DEF hasArgs, hasKind, Clauses, ToSet
<1>2. \A k \in DOMAIN d.rules[i].allow : d.rules[i].allow[k].args = {} /\ d.rules[i].allow[k].kind = "any"
  BY DEF hasArgs, hasKind, Clauses, ToSet
<1>3. \A k \in DOMAIN d.rules[i].deny :
         ClauseHolds(d.rules[i].deny[k], it, mode) <=> Targets(d.rules[i].deny[k], it)
  BY <1>1, Zenon DEF ClauseHolds
<1>4. \A k \in DOMAIN d.rules[i].allow :
         ClauseHolds(d.rules[i].allow[k], it, mode) <=> Targets(d.rules[i].allow[k], it)
  BY <1>2, Zenon DEF ClauseHolds
<1>5. QED
  BY <1>3, <1>4, MatchesArgsOk, Zenon DEF matches

\* and so does the path of one without.
LEMMA NamesPath ==
    ASSUME NEW d, d.default \in BOOLEAN, ~hasArgs(d), ~hasKind(d), NEW p, NEW it, NEW mode
    PROVE  /\ decideNames(d, p, it, mode).allowed <=> Reads(d, p, it, mode)
           /\ decideNames(d, p, it, mode).allowed \in BOOLEAN
<1>. DEFINE covers == {i \in DOMAIN d.rules : subjectsMatch(d.rules[i].subjects, p)}
            denying == {i \in covers : matches(d.rules[i].deny, it)}
            granting == {i \in covers : matches(d.rules[i].allow, it)}
<1>1. denying # {} <=> SomeDeny(d, p, it, DenyMode(mode))
  BY PlainClauses, Zenon DEF SomeDeny
<1>2. granting # {} <=> SomeGrant(d, p, it, mode)
  BY PlainClauses, Zenon DEF SomeGrant
<1>3. decideNames(d, p, it, mode) =
        IF denying # {} THEN Deny(d.rules[First(denying)])
        ELSE IF granting # {} THEN Allow(d.rules[First(granting)])
        ELSE Default(d, p, it, mode, FALSE)
  BY Zenon DEF decideNames
<1>. HIDE DEF denying, granting
<1>4. \A r : Deny(r).allowed = FALSE /\ Allow(r).allowed = TRUE
  BY DEF Deny, Allow
<1>5. Default(d, p, it, mode, FALSE).allowed = d.default
  BY DEF Default
<1>6. QED
  BY <1>1, <1>2, <1>3, <1>4, <1>5, Zenon DEF Reads

\* Both code paths of decide read a document alike.
LEMMA DecideReads ==
    ASSUME NEW d, d.default \in BOOLEAN, NEW p, NEW it, NEW mode
    PROVE  /\ decide(d, p, it, mode).allowed <=> Reads(d, p, it, mode)
           /\ decide(d, p, it, mode).allowed \in BOOLEAN
<1>1. CASE ~hasArgs(d) /\ ~hasKind(d)
  <2>1. decide(d, p, it, mode) = decideNames(d, p, it, mode)
    BY <1>1 DEF decide
  <2>2. /\ decideNames(d, p, it, mode).allowed <=> Reads(d, p, it, mode)
        /\ decideNames(d, p, it, mode).allowed \in BOOLEAN
    BY <1>1, NamesPath
  <2>3. QED
    BY <2>1, <2>2
<1>2. CASE ~(~hasArgs(d) /\ ~hasKind(d))
  <2>1. decide(d, p, it, mode) = decideArgs(d, p, it, mode)
    BY <1>2 DEF decide
  <2>2. /\ decideArgs(d, p, it, mode).allowed <=> Reads(d, p, it, mode)
        /\ decideArgs(d, p, it, mode).allowed \in BOOLEAN
    BY ArgsPath
  <2>3. QED
    BY <2>1, <2>2
<1>3. QED
  BY <1>1, <1>2

\* The order of the rules does not matter.
LEMMA ReversedReads ==
    ASSUME NEW d, NEW e, DOMAIN d.rules = 1..Len(d.rules), Len(d.rules) \in Nat,
           e.rules = Reverse(d.rules), e.default = d.default, NEW p, NEW it, NEW mode
    PROVE  Reads(e, p, it, mode) <=> Reads(d, p, it, mode)
<1>. DEFINE n == Len(d.rules)
<1>1. DOMAIN e.rules = 1..n /\ \A i \in 1..n : e.rules[i] = d.rules[n - i + 1]
  BY DEF Reverse
<1>0. \A i \in 1..n : n - i + 1 \in 1..n /\ n - (n - i + 1) + 1 = i
  OBVIOUS
<1>. HIDE DEF n
<1>2. \A i \in DOMAIN e.rules : \E j \in DOMAIN d.rules : e.rules[i] = d.rules[j]
  <2>1. DOMAIN d.rules = 1..n
    BY DEF n
  <2>2. QED
    BY <1>0, <1>1, <2>1
<1>3. \A i \in DOMAIN d.rules : \E j \in DOMAIN e.rules : e.rules[j] = d.rules[i]
  <2>. SUFFICES ASSUME NEW i \in 1..n PROVE \E j \in 1..n : e.rules[j] = d.rules[i]
    BY <1>1 DEF n
  <2>1. e.rules[n - i + 1] = d.rules[n - (n - i + 1) + 1]
    BY <1>0, <1>1
  <2>2. QED
    BY <1>0, <2>1
<1>4. SomeDeny(e, p, it, DenyMode(mode)) <=> SomeDeny(d, p, it, DenyMode(mode))
  BY <1>2, <1>3, Zenon DEF SomeDeny
<1>5. SomeGrant(e, p, it, mode) <=> SomeGrant(d, p, it, mode)
  BY <1>2, <1>3, Zenon DEF SomeGrant
<1>6. QED
  BY <1>4, <1>5, Zenon DEF Reads

\* What may be called with some arguments is listed.
LEMMA ListedReads ==
    ASSUME NEW d, NEW p, NEW it, NEW item, item.server = it.server, item.method = it.method,
           item.name = it.name, item.tool = it.tool, Reads(d, p, it, "enforce")
    PROVE  Reads(d, p, item, "ignore")
<1>1. \A a : Targets(a, item) <=> Targets(a, it)
  BY DEF Targets
<1>2. \A a : ClauseHolds(a, item, "skip") => ClauseHolds(a, it, "enforce")
  BY <1>1 DEF ClauseHolds
<1>3. \A a : ClauseHolds(a, it, "enforce") => ClauseHolds(a, item, "ignore")
  BY <1>1 DEF ClauseHolds
<1>4. SomeDeny(d, p, item, "skip") => SomeDeny(d, p, it, "enforce")
  BY <1>2, MatchesArgsOk, Zenon DEF SomeDeny
<1>5. SomeGrant(d, p, it, "enforce") => SomeGrant(d, p, item, "ignore")
  BY <1>3, MatchesArgsOk, Zenon DEF SomeGrant
<1>6. DenyMode("ignore") = "skip" /\ DenyMode("enforce") = "enforce"
  BY DEF DenyMode
<1>7. QED
  BY <1>4, <1>5, <1>6, Zenon DEF Reads
\* A caller that obtains the scopes a selector found missing is covered by it.
LEMMA MetScopes ==
    ASSUME NEW s, NEW p, NEW q, q # Nobody, q.subject = p.subject, q.issuer = p.issuer,
           q.groups = p.groups, q.claims = p.claims,
           subjectsMatchWhy(s, p).unmet # {}, p.scopes \cup subjectsMatchWhy(s, p).unmet \subseteq q.scopes
    PROVE  subjectsMatch(s, q)
<1>. DEFINE no == [ok |-> FALSE, unmet |-> {}]
            missing(x) == missingScopes(s.scopes, x.scopes)
            named == s.subs # {} \/ s.groups # {}
            identity(x) == x.subject \in s.subs \/ s.groups \cap x.groups # {}
            short(x) == [ok |-> FALSE, unmet |-> missing(x)]
            met == [ok |-> named \/ Gated(s), unmet |-> {}]
            why(x) == IF s = Anyone THEN [ok |-> TRUE, unmet |-> {}]
                      ELSE IF x = Nobody THEN no
                      ELSE IF s.issuers # {} /\ x.issuer \notin s.issuers THEN no
                      ELSE IF ~claimsMatch(s.claims, x.claims) THEN no
                      ELSE IF named /\ ~identity(x) THEN no
                      ELSE IF missing(x) # {} THEN short(x)
                      ELSE met
<1>1. subjectsMatchWhy(s, p) = why(p) /\ subjectsMatchWhy(s, q) = why(q)
  BY Zenon DEF subjectsMatchWhy
<1>2. no.unmet = {} /\ met.unmet = {} /\ [ok |-> TRUE, unmet |-> {}].unmet = {}
  OBVIOUS
<1>3. short(p).unmet = missing(p)
  OBVIOUS
<1>4. s # Anyone /\ p # Nobody /\ ~(s.issuers # {} /\ p.issuer \notin s.issuers)
      /\ claimsMatch(s.claims, p.claims) /\ ~(named /\ ~identity(p)) /\ missing(p) # {}
      /\ why(p) = short(p)
  <2>. HIDE DEF no, met, short, named, identity, missing
  <2>1. QED
    BY <1>1, <1>2, Zenon
<1>5. missing(p) \subseteq q.scopes
  BY <1>1, <1>3, <1>4
<1>6. missing(q) = {} /\ s.scopes # {}
  BY <1>4, <1>5 DEF missingScopes
<1>7. why(q) = met
  <2>1. identity(q) <=> identity(p)
    OBVIOUS
  <2>. HIDE DEF no, met, short, named, identity, missing
  <2>2. QED
    BY <1>4, <1>6, <2>1
<1>8. met.ok
  BY <1>6, Zenon DEF Gated
<1>9. QED
  BY <1>1, <1>7, <1>8 DEF subjectsMatch

\* A set of naturals has a least member.
LEMMA LeastIsOne ==
    ASSUME NEW S, S \subseteq Nat, S # {} PROVE \E x \in S : \A y \in S : x <= y
<1>1. IsWellFoundedOn(OpToRel(<, Nat), Nat)
  BY NatLessThanWellFounded
<1>2. PICK x \in S : \A y \in S : ~(<<y, x>> \in OpToRel(<, Nat))
  BY <1>1, WFMin
<1>3. OpToRel(<, Nat) = {ss \in Nat \X Nat : ss[1] < ss[2]}
  BY Zenon DEF OpToRel
<1>4. \A y \in S : x <= y
  <2>. SUFFICES ASSUME NEW y \in S, ~(x <= y) PROVE FALSE
    OBVIOUS
  <2>1. x \in Nat /\ y \in Nat /\ y < x
    OBVIOUS
  <2>2. <<y, x>> \in {ss \in Nat \X Nat : ss[1] < ss[2]}
    BY <2>1
  <2>3. <<y, x>> \in OpToRel(<, Nat)
    BY <1>3, <2>2, Zenon
  <2>4. QED
    BY <1>2, <2>3, Zenon
<1>5. QED
  BY <1>4

\* The first of a set of rules is one of them.
LEMMA FirstIsOne ==
    ASSUME NEW S, S \subseteq Nat, S # {} PROVE First(S) \in S
BY LeastIsOne DEF First, Min

\* A set that holds 1 and with each number the next holds them all: the induction
\* that the walk of glob.match calls for, from the least number left out.
LEMMA UpTo ==
    ASSUME NEW n \in Nat, NEW S, n >= 1 => 1 \in S,
           \A k \in 1..n : k + 1 <= n /\ k \in S => k + 1 \in S
    PROVE  1..n \subseteq S
<1>. SUFFICES ASSUME ~(1..n \subseteq S) PROVE FALSE
  OBVIOUS
<1>1. PICK T : T = {k \in 1..n : k \notin S}
  OBVIOUS
<1>2. T \subseteq Nat /\ T # {}
  BY <1>1
<1>3. PICK x \in T : \A y \in T : x <= y
  BY <1>2, LeastIsOne
<1>4. x \in 1..n /\ x \notin S
  BY <1>1, <1>3
<1>5. CASE x = 1
  BY <1>4, <1>5
<1>6. CASE x # 1
  <2>1. x - 1 \in 1..n /\ (x - 1) + 1 = x /\ ~(x <= x - 1)
    BY <1>4, <1>6
  <2>2. x - 1 \notin T
    BY <1>3, <2>1
  <2>3. x - 1 \in S
    BY <1>1, <2>1, <2>2
  <2>4. QED
    BY <1>4, <2>1, <2>3
<1>7. QED
  BY <1>5, <1>6

\* What follows the first occurrence of a part, when there is one.
LEMMA AfterIs ==
    ASSUME NEW name, Len(name) \in Nat, NEW part, Len(part) \in Nat, NEW from \in Nat
    PROVE  /\ After(name, from, part) \in Nat
           /\ After(name, from, part) > 0 =>
                 \E i \in Nat : /\ i >= from /\ i >= 1 /\ OccursAt(part, name, i)
                                /\ After(name, from, part) = i + Len(part)
           /\ \A j \in Nat : from > 0 /\ j >= from /\ OccursAt(part, name, j) =>
                 After(name, from, part) > 0 /\ After(name, from, part) <= j + Len(part)
           /\ from = 0 => After(name, from, part) = 0
<1>1. PICK at : at = {i \in from..Len(name) + 1 : OccursAt(part, name, i)}
  OBVIOUS
<1>2. After(name, from, part) = IF from = 0 \/ at = {} THEN 0 ELSE Min(at) + Len(part)
  BY <1>1, Zenon DEF After
<1>3. at \subseteq Nat
  BY <1>1
<1>4. ASSUME NEW j \in Nat, j >= from, OccursAt(part, name, j) PROVE j \in at
  <2>1. j <= Len(name) + 1
    BY <1>4 DEF OccursAt
  <2>2. QED
    BY <1>1, <1>4, <2>1
<1>5. CASE from = 0 \/ at = {}
  <2>1. After(name, from, part) = 0
    BY <1>2, <1>5
  <2>2. QED
    BY <1>4, <1>5, <2>1
<1>6. CASE from # 0 /\ at # {}
  <2>1. PICK i : i = Min(at)
    OBVIOUS
  <2>2. \E x \in at : \A y \in at : x <= y
    BY <1>3, <1>6, LeastIsOne
  <2>3. i \in at /\ \A y \in at : i <= y
    BY <2>1, <2>2 DEF Min
  <2>4. i \in Nat /\ i >= from /\ i >= 1 /\ OccursAt(part, name, i)
    BY <1>1, <1>3, <1>6, <2>3
  <2>5. After(name, from, part) = i + Len(part)
    BY <1>2, <1>6, <2>1
  <2>6. i + Len(part) \in Nat /\ i + Len(part) > 0
    BY <2>4
  <2>7. ASSUME NEW j \in Nat, j >= from, OccursAt(part, name, j)
        PROVE  i + Len(part) <= j + Len(part)
    <3>1. i <= j
      BY <1>4, <2>3, <2>7
    <3>2. QED
      BY <2>4, <3>1
  <2>8. QED
    BY <1>6, <2>4, <2>5, <2>6, <2>7
<1>7. QED
  BY <1>5, <1>6

\* The walk over the first m parts of a pattern.
IsWalk(g, parts, name, m) ==
    g = [k \in 1..m |-> IF k = 1 THEN Len(parts[1]) + 1 ELSE After(name, g[k - 1], parts[k])]

\* The recursion of walkParts has a solution, built one part at a time ...
LEMMA WalkExists ==
    ASSUME NEW parts, NEW name, NEW n \in Nat
    PROVE  \E g : IsWalk(g, parts, name, n)
<1>. DEFINE W(m) == \E g : IsWalk(g, parts, name, m)
            V(g, k) == IF k = 1 THEN Len(parts[1]) + 1 ELSE After(name, g[k - 1], parts[k])
<1>1. W(0)
  <2>1. PICK g : g = [k \in 1..0 |-> 0]
    OBVIOUS
  <2>2. \A k \in 1..0 : g[k] = V(g, k)
    OBVIOUS
  <2>3. g = [k \in 1..0 |-> V(g, k)]
    BY <2>1, <2>2
  <2>4. QED
    BY <2>3 DEF IsWalk
<1>2. W(1)
  <2>1. PICK g : g = [k \in 1..1 |-> Len(parts[1]) + 1]
    OBVIOUS
  <2>2. \A k \in 1..1 : V(g, k) = Len(parts[1]) + 1
    OBVIOUS
  <2>3. g = [k \in 1..1 |-> V(g, k)]
    BY <2>1, <2>2
  <2>4. QED
    BY <2>3 DEF IsWalk
<1>3. ASSUME NEW m \in 1..n, m + 1 <= n, W(m) PROVE W(m + 1)
  <2>1. PICK g : IsWalk(g, parts, name, m)
    BY <1>3
  <2>2. g = [k \in 1..m |-> V(g, k)]
    BY <2>1 DEF IsWalk
  <2>3. PICK h : h = [k \in 1..(m + 1) |-> V(g, k)]
    OBVIOUS
  <2>4. ASSUME NEW k \in 1..(m + 1) PROVE V(g, k) = V(h, k)
    <3>1. CASE k = 1
      BY <3>1
    <3>2. CASE k # 1
      <4>1. k - 1 \in 1..m /\ k - 1 \in 1..(m + 1)
        BY <1>3, <3>2
      <4>2. h[k - 1] = V(g, k - 1)
        BY <2>3, <4>1
      <4>3. g[k - 1] = V(g, k - 1)
        BY <2>2, <4>1
      <4>4. h[k - 1] = g[k - 1]
        BY <4>2, <4>3
      <4>5. QED
        BY <4>4
    <3>3. QED
      BY <3>1, <3>2
  <2>5. h = [k \in 1..(m + 1) |-> V(h, k)]
    BY <2>3, <2>4
  <2>6. IsWalk(h, parts, name, m + 1)
    BY <2>5 DEF IsWalk
  <2>7. QED
    BY <2>6
<1>. HIDE DEF W
<1>4. PICK S : S = {m \in Nat : W(m)}
  OBVIOUS
<1>5. 1..n \subseteq S
  <2>1. 1 \in S
    BY <1>2, <1>4
  <2>2. ASSUME NEW k \in 1..n, k + 1 <= n /\ k \in S PROVE k + 1 \in S
    BY <1>3, <1>4, <2>2
  <2>3. QED
    BY <2>1, <2>2, UpTo
<1>6. W(n)
  BY <1>1, <1>4, <1>5
<1>7. QED
  BY <1>6 DEF W

\* ... and walkParts is one.
LEMMA WalkIs ==
    ASSUME NEW parts, NEW name, Len(parts) \in Nat, Len(parts) >= 1
    PROVE  IsWalk(walkParts(parts, name), parts, name, Len(parts) - 1)
<1>1. Len(parts) - 1 \in Nat
  OBVIOUS
<1>2. walkParts(parts, name) = CHOOSE g : IsWalk(g, parts, name, Len(parts) - 1)
  BY Zenon DEF walkParts, IsWalk
<1>3. \E g : IsWalk(g, parts, name, Len(parts) - 1)
  BY <1>1, WalkExists
<1>4. QED
  BY <1>2, <1>3, Zenon

\* How the walk of a pattern of n parts starts and goes on.
Advances(w, parts, name, n) ==
    /\ w[1] = Len(parts[1]) + 1
    /\ \A k \in 1..(n - 1) : w[k] \in Nat
    /\ \A k \in 1..(n - 1) : k + 1 <= n - 1 => w[k + 1] = After(name, w[k], parts[k + 1])

\* walkParts is such a walk.
LEMMA WalkSteps ==
    ASSUME NEW parts, NEW name, NEW n \in Nat, n = Len(parts), n >= 2, Len(name) \in Nat,
           \A k \in 1..n : Len(parts[k]) \in Nat
    PROVE  Advances(walkParts(parts, name), parts, name, n)
<1>1. PICK w : w = walkParts(parts, name)
  OBVIOUS
<1>2. w = [k \in 1..(n - 1) |-> IF k = 1 THEN Len(parts[1]) + 1 ELSE After(name, w[k - 1], parts[k])]
  <2>1. n >= 1
    OBVIOUS
  <2>2. IsWalk(w, parts, name, n - 1)
    BY <1>1, <2>1, WalkIs, Zenon
  <2>3. QED
    BY <2>2, Zenon DEF IsWalk
<1>3. \A k \in 1..(n - 1) : w[k] = IF k = 1 THEN Len(parts[1]) + 1 ELSE After(name, w[k - 1], parts[k])
  BY <1>2
<1>4. 1 \in 1..(n - 1)
  OBVIOUS
<1>5. w[1] = Len(parts[1]) + 1
  BY <1>3, <1>4
<1>6. ASSUME NEW k \in 1..(n - 1), k + 1 <= n - 1 PROVE w[k + 1] = After(name, w[k], parts[k + 1])
  <2>1. k + 1 \in 1..(n - 1) /\ k + 1 # 1 /\ (k + 1) - 1 = k
    BY <1>6
  <2>2. QED
    BY <1>3, <2>1
<1>7. PICK S : S = {k \in Nat : w[k] \in Nat}
  OBVIOUS
<1>8. 1..(n - 1) \subseteq S
  <2>1. 1 \in S
    <3>1. Len(parts[1]) \in Nat
      OBVIOUS
    <3>2. QED
      BY <1>5, <1>7, <3>1
  <2>2. ASSUME NEW k \in 1..(n - 1), k + 1 <= n - 1 /\ k \in S PROVE k + 1 \in S
    <3>1. w[k] \in Nat
      BY <1>7, <2>2
    <3>2. k + 1 \in 1..n /\ k + 1 \in Nat
      OBVIOUS
    <3>3. After(name, w[k], parts[k + 1]) \in Nat
      BY <3>1, <3>2, AfterIs
    <3>4. QED
      BY <1>6, <1>7, <2>2, <3>2, <3>3
  <2>3. n - 1 \in Nat
    OBVIOUS
  <2>4. QED
    BY <2>1, <2>2, <2>3, UpTo
<1>9. \A k \in 1..(n - 1) : w[k] \in Nat
  BY <1>7, <1>8
<1>10. QED
  BY <1>1, <1>5, <1>6, <1>9 DEF Advances

\* Every place a covered name gives the parts is at or past the walk's.
LEMMA CoveredIsWalked ==
    ASSUME NEW parts, NEW name, NEW n \in Nat, n = Len(parts), n >= 2, Len(name) \in Nat,
           DOMAIN parts = 1..n, \A k \in 1..n : Len(parts[k]) \in Nat, Covers(parts, name)
    PROVE  match(parts, name)
<1>1. PICK at \in [1..n -> 1..Len(name) + 1] :
          /\ at[1] = 1 /\ at[n] + Len(parts[n]) = Len(name) + 1
          /\ \A i \in 1..n : OccursAt(parts[i], name, at[i])
          /\ \A i \in 1..(n - 1) : at[i] + Len(parts[i]) <= at[i + 1]
  BY Zenon DEF Covers, Last
<1>2. PICK w : w = walkParts(parts, name) /\ Advances(w, parts, name, n)
  <2>1. Advances(walkParts(parts, name), parts, name, n)
    BY WalkSteps
  <2>2. QED
    BY <2>1, Zenon
<1>3. \A k \in 1..n : at[k] \in Nat /\ at[k] >= 1
  <2>1. \A i \in 1..Len(name) + 1 : i \in Nat /\ i >= 1
    BY ONLY Len(name) \in Nat
  <2>2. QED
    BY <2>1, Zenon
<1>4. PICK S : S = {k \in 1..n : w[k] > 0 /\ w[k] <= at[k] + Len(parts[k])}
  OBVIOUS
<1>5. 1..(n - 1) \subseteq S
  <2>1. 1 \in S
    <3>1. 1 \in 1..n /\ Len(parts[1]) \in Nat
      OBVIOUS
    <3>2. w[1] > 0 /\ w[1] <= at[1] + Len(parts[1])
      BY <1>1, <1>2, <3>1 DEF Advances
    <3>3. QED
      BY <1>4, <3>1, <3>2
  <2>2. ASSUME NEW k \in 1..(n - 1), k + 1 <= n - 1 /\ k \in S PROVE k + 1 \in S
    <3>1. k \in 1..n /\ k + 1 \in 1..n
      OBVIOUS
    <3>2. PICK a \in Nat, b \in Nat, l \in Nat, v \in Nat : a = at[k] /\ b = at[k + 1] /\ l = Len(parts[k]) /\ v = w[k]
      BY <1>2, <1>3, <3>1 DEF Advances
    <3>3. v > 0 /\ v <= a + l
      BY <1>4, <2>2, <3>2
    <3>4. a + l <= b
      BY <1>1, <3>2
    <3>5. v > 0 /\ b >= v
      BY ONLY <3>3, <3>4, a \in Nat, b \in Nat, l \in Nat, v \in Nat
    <3>6. OccursAt(parts[k + 1], name, b)
      BY <1>1, <3>1, <3>2
    <3>7. Len(parts[k + 1]) \in Nat
      BY <3>1
    <3>8. After(name, v, parts[k + 1]) > 0 /\ After(name, v, parts[k + 1]) <= b + Len(parts[k + 1])
      BY <3>5, <3>6, <3>7, AfterIs
    <3>9. w[k + 1] = After(name, v, parts[k + 1])
      BY <1>2, <2>2, <3>2 DEF Advances
    <3>10. QED
      BY <1>4, <3>1, <3>2, <3>8, <3>9
  <2>3. n - 1 \in Nat
    OBVIOUS
  <2>4. QED
    BY <2>1, <2>2, <2>3, UpTo
<1>6. n - 1 \in 1..n /\ n - 1 \in 1..(n - 1) /\ (n - 1) + 1 = n /\ n \in 1..n /\ 1 \in 1..n /\ n # 1
  OBVIOUS
<1>7. w[n - 1] > 0 /\ w[n - 1] <= at[n - 1] + Len(parts[n - 1])
  BY <1>4, <1>5, <1>6
<1>8. at[n - 1] + Len(parts[n - 1]) <= at[n]
  <2>1. at[n - 1] + Len(parts[n - 1]) <= at[(n - 1) + 1]
    BY <1>1, <1>6
  <2>2. QED
    BY <1>6, <2>1
<1>9. Len(name) - Len(parts[n]) + 1 = at[n]
  <2>1. PICK l \in Nat, a \in Nat, m \in Nat : l = Len(parts[n]) /\ a = at[n] /\ m = Len(name)
    BY <1>3, <1>6
  <2>2. a + l = m + 1
    BY <1>1, <2>1
  <2>3. m - l + 1 = a
    BY ONLY <2>2, l \in Nat, a \in Nat, m \in Nat
  <2>4. QED
    BY <2>1, <2>3
<1>10. w[n - 1] <= at[n]
  <2>1. PICK v \in Nat, a \in Nat, l \in Nat, b \in Nat : v = w[n - 1] /\ a = at[n - 1] /\ l = Len(parts[n - 1]) /\ b = at[n]
    BY <1>2, <1>3, <1>6 DEF Advances
  <2>2. v <= a + l /\ a + l <= b
    BY <1>7, <1>8, <2>1
  <2>3. v <= b
    BY ONLY <2>2, v \in Nat, a \in Nat, l \in Nat, b \in Nat
  <2>4. QED
    BY <2>1, <2>3
<1>11. OccursAt(parts[1], name, 1) /\ OccursAt(parts[n], name, at[n])
  BY <1>1, <1>6
<1>12. QED
  BY <1>2, <1>6, <1>7, <1>9, <1>10, <1>11, Zenon DEF match, Last

\* The walk, if it arrives, has found every part a place of its own.
LEMMA WalkedIsCovered ==
    ASSUME NEW parts, NEW name, NEW n \in Nat, n = Len(parts), n >= 2, Len(name) \in Nat,
           DOMAIN parts = 1..n, \A k \in 1..n : Len(parts[k]) \in Nat, match(parts, name)
    PROVE  Covers(parts, name)
<1>1. PICK w : w = walkParts(parts, name) /\ Advances(w, parts, name, n)
  <2>1. Advances(walkParts(parts, name), parts, name, n)
    BY WalkSteps
  <2>2. QED
    BY <2>1, Zenon
<1>2. PICK end : end = Len(name) - Len(parts[n]) + 1
  OBVIOUS
<1>3. n \in 1..n /\ 1 \in 1..n /\ n - 1 \in 1..(n - 1) /\ n - 1 \in Nat /\ (n - 1) + 1 = n /\ n # 1
  OBVIOUS
<1>4. OccursAt(parts[1], name, 1) /\ w[n - 1] > 0 /\ w[n - 1] <= end /\ OccursAt(parts[n], name, end)
  BY <1>1, <1>2, <1>3, Zenon DEF match, Last
<1>5. \A k \in 1..(n - 1) : w[k] \in Nat
  BY <1>1 DEF Advances
<1>6. \A k \in 1..(n - 1) : w[k] > 0
  <2>1. PICK S : S = {j \in 1..(n - 1) : w[n - j] > 0}
    OBVIOUS
  <2>2. 1 \in S
    <3>1. 1 \in 1..(n - 1)
      OBVIOUS
    <3>2. QED
      BY <1>4, <2>1, <3>1
  <2>3. ASSUME NEW j \in 1..(n - 1), j + 1 <= n - 1 /\ j \in S PROVE j + 1 \in S
    <3>1. PICK k : k = n - (j + 1)
      OBVIOUS
    <3>2. k \in 1..(n - 1) /\ k + 1 <= n - 1 /\ k + 1 = n - j /\ k + 1 \in 1..n
      BY <2>3, <3>1
    <3>3. w[k + 1] > 0
      BY <2>1, <2>3, <3>2
    <3>4. w[k + 1] = After(name, w[k], parts[k + 1])
      BY <1>1, <3>2 DEF Advances
    <3>5. w[k] \in Nat /\ Len(parts[k + 1]) \in Nat
      BY <1>5, <3>2
    <3>6. w[k] # 0
      <4>. SUFFICES ASSUME w[k] = 0 PROVE FALSE
        OBVIOUS
      <4>1. After(name, w[k], parts[k + 1]) = 0
        BY <3>5, AfterIs
      <4>2. QED
        BY <3>3, <3>4, <4>1
    <3>7. j + 1 \in 1..(n - 1)
      BY <2>3
    <3>8. w[n - (j + 1)] > 0
      BY <3>1, <3>5, <3>6
    <3>9. QED
      BY <2>1, <3>7, <3>8
  <2>4. 1..(n - 1) \subseteq S
    BY <1>3, <2>2, <2>3, UpTo
  <2>5. ASSUME NEW k \in 1..(n - 1) PROVE w[k] > 0
    <3>1. n - k \in 1..(n - 1) /\ n - (n - k) = k
      OBVIOUS
    <3>2. n - k \in S
      BY <2>4, <3>1
    <3>3. w[n - (n - k)] > 0
      BY <2>1, <3>2
    <3>4. QED
      BY <3>1, <3>3
  <2>6. QED
    BY <2>5
<1>7. PICK at : at = [k \in 1..n |-> IF k = n THEN end ELSE w[k] - Len(parts[k])]
  OBVIOUS
<1>8. at[n] = end /\ \A k \in 1..(n - 1) : at[k] = w[k] - Len(parts[k])
  <2>1. \A k \in 1..(n - 1) : k \in 1..n /\ k # n
    OBVIOUS
  <2>2. QED
    BY <1>3, <1>7, <2>1
<1>9. at[1] = 1
  <2>1. 1 \in 1..(n - 1)
    OBVIOUS
  <2>2. at[1] = w[1] - Len(parts[1]) /\ w[1] = Len(parts[1]) + 1
    BY <1>1, <1>8, <2>1 DEF Advances
  <2>3. PICK l \in Nat : l = Len(parts[1])
    BY <1>3
  <2>4. QED
    BY <2>2, <2>3
<1>10. ASSUME NEW k \in 1..(n - 1), k + 1 <= n - 1
       PROVE  /\ OccursAt(parts[k + 1], name, at[k + 1])
              /\ at[k] + Len(parts[k]) <= at[k + 1]
  <2>1. k + 1 \in 1..(n - 1) /\ k + 1 \in 1..n /\ k \in 1..n
    BY <1>10
  <2>2. w[k + 1] = After(name, w[k], parts[k + 1]) /\ w[k + 1] > 0 /\ w[k] \in Nat
    BY <1>1, <1>5, <1>6, <1>10, <2>1 DEF Advances
  <2>3. PICK m \in Nat, l \in Nat, v \in Nat : m = Len(parts[k + 1]) /\ l = Len(parts[k]) /\ v = w[k]
    BY <2>1, <2>2
  <2>4. PICK i \in Nat : i >= v /\ OccursAt(parts[k + 1], name, i) /\ w[k + 1] = i + m
    <3>1. Len(parts[k + 1]) \in Nat /\ After(name, v, parts[k + 1]) > 0
      BY <2>2, <2>3
    <3>2. \E i \in Nat : /\ i >= v /\ i >= 1 /\ OccursAt(parts[k + 1], name, i)
                         /\ After(name, v, parts[k + 1]) = i + Len(parts[k + 1])
      BY <3>1, AfterIs
    <3>3. QED
      BY <2>2, <2>3, <3>2, Zenon
  <2>5. at[k + 1] = (i + m) - m /\ at[k] = v - l
    BY <1>8, <2>1, <2>3, <2>4
  <2>6. (i + m) - m = i /\ (v - l) + l = v
    OBVIOUS
  <2>7. QED
    BY <2>3, <2>4, <2>5, <2>6
<1>11. ASSUME NEW k \in 1..n PROVE OccursAt(parts[k], name, at[k])
  <2>1. CASE k = n
    BY <1>4, <1>8, <2>1
  <2>2. CASE k = 1
    BY <1>4, <1>9, <2>2
  <2>3. CASE k # n /\ k # 1
    <3>1. k - 1 \in 1..(n - 1) /\ (k - 1) + 1 = k /\ k <= n - 1
      BY <2>3
    <3>2. OccursAt(parts[(k - 1) + 1], name, at[(k - 1) + 1])
      BY <1>10, <3>1
    <3>3. QED
      BY <3>1, <3>2
  <2>4. QED
    BY <2>1, <2>2, <2>3
<1>12. ASSUME NEW k \in 1..(n - 1) PROVE at[k] + Len(parts[k]) <= at[k + 1]
  <2>1. CASE k + 1 <= n - 1
    BY <1>10, <2>1
  <2>2. CASE k + 1 = n
    <3>1. k = n - 1 /\ k \in 1..n
      BY <2>2
    <3>2. PICK l \in Nat, v \in Nat : l = Len(parts[k]) /\ v = w[k]
      BY <1>5, <3>1
    <3>3. at[k] = v - l /\ at[k + 1] = end /\ v <= end
      BY <1>4, <1>8, <2>2, <3>1, <3>2
    <3>4. (v - l) + l = v
      OBVIOUS
    <3>5. QED
      BY <3>2, <3>3, <3>4
  <2>3. QED
    BY <2>1, <2>2
<1>13. ASSUME NEW k \in 1..n PROVE at[k] \in 1..Len(name) + 1
  <2>1. PICK a : a = at[k]
    OBVIOUS
  <2>2. PICK l \in Nat, m \in Nat : l = Len(parts[k]) /\ m = Len(name)
    OBVIOUS
  <2>3. a >= 1 /\ a + l - 1 <= m
    BY <1>11, <2>1, <2>2 DEF OccursAt
  <2>4. a \in Int
    <3>1. CASE k = n
      <4>1. PICK e \in Nat : e = Len(parts[n])
        BY <1>3
      <4>2. a = m - e + 1
        BY <1>2, <1>8, <2>1, <2>2, <3>1, <4>1
      <4>3. QED
        BY <4>2
    <3>2. CASE k # n
      <4>1. k \in 1..(n - 1)
        BY <3>2
      <4>2. PICK v \in Nat : v = w[k]
        BY <1>5, <4>1
      <4>3. a = v - l
        BY <1>8, <2>1, <2>2, <4>1, <4>2
      <4>4. QED
        BY <4>3
    <3>3. QED
      BY <3>1, <3>2
  <2>5. a \in 1..m + 1
    BY ONLY <2>3, <2>4, l \in Nat, m \in Nat
  <2>6. QED
    BY <2>1, <2>2, <2>5
<1>14. at \in [1..n -> 1..Len(name) + 1]
  BY <1>7, <1>13
<1>15. at[n] + Len(parts[n]) = Len(name) + 1
  <2>1. PICK l \in Nat, m \in Nat : l = Len(parts[n]) /\ m = Len(name)
    BY <1>3
  <2>2. at[n] = m - l + 1
    BY <1>2, <1>8, <2>1
  <2>3. QED
    BY <2>1, <2>2
<1>16. QED
  BY <1>9, <1>11, <1>12, <1>14, <1>15, Zenon DEF Covers, Last

\* A pattern without a star.
LEMMA LiteralIsCovered ==
    ASSUME NEW parts, NEW name, Len(parts) = 1, DOMAIN parts = 1..1, IsSequence(name),
           IsSequence(parts[1])
    PROVE  match(parts, name) <=> Covers(parts, name)
<1>1. match(parts, name) <=> parts[1] = name
  BY Zenon DEF match
<1>2. PICK m \in Nat : m = Len(name)
  BY DEF IsSequence
<1>3. PICK l \in Nat : l = Len(parts[1])
  BY DEF IsSequence
<1>4. SubSeq(name, 1, m) = name
  <2>1. PICK R : name \in Seq(R)
    BY DEF IsSequence
  <2>2. QED
    BY <1>2, <2>1
<1>5. ASSUME parts[1] = name PROVE Covers(parts, name)
  <2>1. PICK at : at = [k \in 1..1 |-> 1]
    OBVIOUS
  <2>2. at \in [1..1 -> 1..m + 1] /\ at[1] = 1
    BY <2>1
  <2>3. l = m /\ 1 + m - 1 = m /\ 1 + l = m + 1
    BY <1>2, <1>3, <1>5
  <2>4. OccursAt(parts[1], name, at[1])
    BY <1>2, <1>3, <1>4, <1>5, <2>2, <2>3 DEF OccursAt
  <2>5. /\ \A i \in 1..1 : OccursAt(parts[i], name, at[i])
        /\ \A i \in 1..(1 - 1) : at[i] + Len(parts[i]) <= at[i + 1]
    BY <2>4
  <2>6. at[1] + Len(parts[1]) = Len(name) + 1
    BY <1>2, <1>3, <2>2, <2>3
  <2>7. at \in [DOMAIN parts -> 1..Len(name) + 1]
    BY <1>2, <2>2
  <2>8. QED
    BY <2>2, <2>5, <2>6, <2>7, Zenon DEF Covers, Last
<1>6. ASSUME Covers(parts, name) PROVE parts[1] = name
  <2>1. PICK at : /\ at[1] = 1 /\ at[1] + Len(parts[1]) = Len(name) + 1
                  /\ \A i \in 1..1 : OccursAt(parts[i], name, at[i])
    BY <1>6, Zenon DEF Covers, Last
  <2>2. OccursAt(parts[1], name, 1) /\ 1 + l = m + 1
    BY <1>2, <1>3, <2>1
  <2>3. 1 + l - 1 = m
    BY <2>2
  <2>4. SubSeq(name, 1, m) = parts[1]
    BY <1>3, <2>2, <2>3 DEF OccursAt
  <2>5. QED
    BY <1>4, <2>4
<1>7. QED
  BY <1>1, <1>5, <1>6

\* What glob.match decides is what a pattern means, for every pattern and name.
LEMMA MatchIsCovers ==
    ASSUME NEW parts, NEW name, IsSequence(parts), parts # <<>>, IsSequence(name),
           \A k \in DOMAIN parts : IsSequence(parts[k])
    PROVE  match(parts, name) <=> Covers(parts, name)
<1>1. PICK n \in Nat : n = Len(parts) /\ DOMAIN parts = 1..n /\ n >= 1
  BY DEF IsSequence
<1>2. Len(name) \in Nat /\ \A k \in 1..n : Len(parts[k]) \in Nat
  BY <1>1 DEF IsSequence
<1>3. CASE n = 1
  <2>1. IsSequence(parts[1])
    BY <1>1, <1>3
  <2>2. QED
    BY <1>1, <1>3, <2>1, LiteralIsCovered
<1>4. CASE n >= 2
  <2>1. match(parts, name) => Covers(parts, name)
    BY <1>1, <1>2, <1>4, WalkedIsCovered
  <2>2. Covers(parts, name) => match(parts, name)
    BY <1>1, <1>2, <1>4, CoveredIsWalked
  <2>3. QED
    BY <2>1, <2>2, Zenon
<1>5. n = 1 \/ n >= 2
  BY <1>1
<1>6. QED
  BY <1>3, <1>4, <1>5

\* The answer on record is the document's, of the scopes then held; and a caller
\* that obtained what its refusal named is covered by a rule that grants.
AnsweredByDocument == Ruled => asked.got = DecideCall(document, Holder(asked.by), asked.call)
Remedied ==
    asked.is = "remedied" /\ ~hasArgs(document) /\ ~hasKind(document) =>
        \E i \in DOMAIN document.rules :
            /\ subjectsMatch(document.rules[i].subjects, Holder(asked.by))
            /\ matches(document.rules[i].allow, asked.call)

PolicyInv == PolicyTypeOK /\ AnsweredByDocument /\ Remedied

\* A new engine satisfies PolicyInv.
LEMMA PolicyInvInit == PolicyInit => PolicyInv
  BY DEF PolicyInit, PolicyInv, PolicyTypeOK, AnsweredByDocument, Remedied, Idle, Ruled

\* What a refusal that names scopes comes from.
LEMMA ShortfallOfGrant ==
    ASSUME NEW d, ~hasArgs(d), ~hasKind(d), NEW p, NEW it,
           DecideCall(d, p, it).missing # {}
    PROVE  \E i \in DOMAIN d.rules :
              /\ matches(d.rules[i].allow, it)
              /\ subjectsMatchWhy(d.rules[i].subjects, p).unmet # {}
              /\ subjectsMatchWhy(d.rules[i].subjects, p).unmet \subseteq DecideCall(d, p, it).missing
<1>. DEFINE got == DecideCall(d, p, it)
            unmet(i) == subjectsMatchWhy(d.rules[i].subjects, p).unmet
            near == {j \in DOMAIN d.rules : matches(d.rules[j].allow, it)}
<1>1. got = decideNames(d, p, it, "enforce")
  BY DEF DecideCall, decide
<1>2. \A r : Deny(r).missing = {} /\ Allow(r).missing = {}
  BY DEF Deny, Allow
<1>3. got = Default(d, p, it, "enforce", FALSE)
  BY <1>1, <1>2 DEF decideNames
<1>4. got.missing = scopeShortfall(d, p, it, "enforce")
  <2>1. Default(d, p, it, "enforce", FALSE).missing = scopeShortfall(d, p, it, "enforce")
    BY DEF Default
  <2>. HIDE DEF got
  <2>2. QED
    BY <1>3, <2>1
<1>5. got.missing = UNION {unmet(i) : i \in near}
  BY <1>4, Zenon DEF scopeShortfall
<1>6. got.missing # {}
  OBVIOUS
<1>. HIDE DEF got, unmet
<1>7. PICK i \in near : unmet(i) # {} /\ unmet(i) \subseteq got.missing
  BY <1>5, <1>6
<1>8. QED
  BY <1>7 DEF got, unmet

\* Only scopes some rule requires are ever named.
LEMMA MissingIsGating ==
    ASSUME NEW d \in Documents, NEW p, NEW it
    PROVE  DecideCall(d, p, it).missing \subseteq GatingScopes
<1>1. ASSUME NEW i \in DOMAIN d.rules
      PROVE  subjectsMatchWhy(d.rules[i].subjects, p).unmet \subseteq GatingScopes
  <2>. DEFINE s == d.rules[i].subjects
  <2>1. subjectsMatchWhy(s, p).unmet = {} \/ (s # Anyone /\ subjectsMatchWhy(s, p).unmet \subseteq s.scopes)
    BY DEF subjectsMatchWhy, missingScopes
  <2>2. s # Anyone => s.scopes \subseteq GatingScopes
    <3>. DEFINE of(x) == UNION {x.rules[k].subjects.scopes :
                                k \in {j \in DOMAIN x.rules : x.rules[j].subjects # Anyone}}
    <3>1. s # Anyone => s.scopes \subseteq of(d)
      OBVIOUS
    <3>2. GatingScopes = UNION {of(x) : x \in Documents}
      BY DEF GatingScopes
    <3>. HIDE DEF of
    <3>3. of(d) \subseteq GatingScopes
      BY <3>2
    <3>4. QED
      BY <3>1, <3>3
  <2>. HIDE DEF s
  <2>3. subjectsMatchWhy(s, p).unmet \subseteq GatingScopes
    BY <2>1, <2>2
  <2>4. QED
    BY <2>3 DEF s
<1>2. scopeShortfall(d, p, it, "enforce") \subseteq GatingScopes
  BY <1>1, Zenon DEF scopeShortfall
<1>3. \A r : Deny(r).missing = {} /\ Allow(r).missing = {}
  BY DEF Deny, Allow
<1>4. \A blocked : Default(d, p, it, "enforce", blocked).missing = scopeShortfall(d, p, it, "enforce")
  BY DEF Default
<1>5. decideNames(d, p, it, "enforce").missing \subseteq GatingScopes
  BY <1>2, <1>3, <1>4 DEF decideNames
<1>6. decideArgs(d, p, it, "enforce").missing \subseteq GatingScopes
  BY <1>2, <1>3, <1>4 DEF decideArgs
<1>7. QED
  BY <1>5, <1>6 DEF DecideCall, decide

\* A caller holds its own scopes and those it obtained.
LEMMA HolderIs ==
    ASSUME NEW p \in Callers, p # Nobody
    PROVE  /\ Holder(p).subject = p.subject /\ Holder(p).issuer = p.issuer
           /\ Holder(p).groups = p.groups /\ Holder(p).claims = p.claims
           /\ Holder(p).scopes = p.scopes \cup scopes[p]
<1>1. p = [f \in CallerFields |-> p[f]]
  BY PolicyAssumption DEF HasFields
<1>2. Holder(p) = [p EXCEPT !.scopes = p.scopes \cup scopes[p]]
  BY DEF Holder
<1>3. QED
  BY <1>1, <1>2 DEF CallerFields

\* Every step of a caller and of an administrator keeps PolicyInv.
LEMMA PolicyInvStep == PolicyInv /\ [PolicyNext]_pvars => PolicyInv'
<1>. SUFFICES ASSUME PolicyInv, [PolicyNext]_pvars PROVE PolicyInv'
  OBVIOUS
<1>1. ASSUME NEW p \in Callers, NEW it \in Calls, Call(p, it) PROVE PolicyInv'
  <2>1. UNCHANGED <<document, scopes>> /\ asked'.is = "asked" /\ asked'.by = p /\ asked'.call = it
        /\ asked'.got = DecideCall(document, Holder(p), it)
    BY <1>1 DEF Call
  <2>2. Holder(p)' = Holder(p)
    BY <2>1 DEF Holder
  <2>3. PolicyTypeOK'
    BY <2>1 DEF PolicyInv, PolicyTypeOK
  <2>4. AnsweredByDocument' /\ Remedied'
    BY <2>1, <2>2 DEF AnsweredByDocument, Remedied, Ruled
  <2>5. QED
    BY <2>3, <2>4 DEF PolicyInv
<1>2. ASSUME Reauthorize PROVE PolicyInv'
  <2>0. PICK p, d : p = asked.by /\ d = document
    OBVIOUS
  <2>1. /\ asked.is = "asked" /\ p # Nobody /\ asked.got.missing # {}
        /\ scopes' = [scopes EXCEPT ![p] = @ \cup asked.got.missing]
        /\ asked'.is = "remedied" /\ asked'.by = p /\ asked'.call = asked.call
        /\ UNCHANGED document
    BY <1>2, <2>0 DEF Reauthorize
  <2>2. p \in Callers /\ asked.call \in Calls /\ asked.got = DecideCall(d, Holder(p), asked.call)
    BY <2>0, <2>1 DEF PolicyInv, PolicyTypeOK, AnsweredByDocument, Ruled
  <2>3. scopes'[p] = scopes[p] \cup asked.got.missing /\ scopes' \in [Callers -> SUBSET GatingScopes]
    <3>1. asked.got.missing \subseteq GatingScopes
      BY <2>0, <2>2, MissingIsGating DEF PolicyInv, PolicyTypeOK
    <3>2. scopes \in [Callers -> SUBSET GatingScopes]
      BY DEF PolicyInv, PolicyTypeOK
    <3>3. QED
      BY <2>1, <2>2, <3>1, <3>2
  <2>4. PolicyTypeOK'
    BY <2>1, <2>2, <2>3 DEF PolicyInv, PolicyTypeOK
  <2>5. ASSUME ~hasArgs(d), ~hasKind(d)
        PROVE  \E i \in DOMAIN d.rules :
                  subjectsMatch(d.rules[i].subjects, Holder(p)') /\ matches(d.rules[i].allow, asked.call)
    <3>1. PICK i \in DOMAIN d.rules :
             /\ matches(d.rules[i].allow, asked.call)
             /\ subjectsMatchWhy(d.rules[i].subjects, Holder(p)).unmet # {}
             /\ subjectsMatchWhy(d.rules[i].subjects, Holder(p)).unmet \subseteq asked.got.missing
      BY <2>1, <2>2, <2>5, ShortfallOfGrant
    <3>2. PICK h : h = [p EXCEPT !.scopes = p.scopes \cup scopes'[p]]
      OBVIOUS
    <3>3. Holder(p)' = h
      BY <2>1, <3>2 DEF Holder
    <3>4. /\ h.subject = p.subject /\ h.issuer = p.issuer /\ h.groups = p.groups /\ h.claims = p.claims
          /\ h.scopes = p.scopes \cup scopes'[p]
      <4>1. p = [f \in CallerFields |-> p[f]]
        BY <2>1, <2>2, PolicyAssumption DEF HasFields
      <4>2. QED
        BY <3>2, <4>1 DEF CallerFields
    <3>5. h # Nobody
      <4>1. scopes'[p] \in SUBSET GatingScopes
        BY <2>2, <2>3
      <4>2. QED
        BY <2>1, <2>2, <3>2, <4>1, PolicyAssumption, Zenon
    <3>6. /\ Holder(p).subject = p.subject /\ Holder(p).issuer = p.issuer
          /\ Holder(p).groups = p.groups /\ Holder(p).claims = p.claims
          /\ Holder(p).scopes = p.scopes \cup scopes[p]
      BY <2>1, <2>2, HolderIs
    <3>7. Holder(p).scopes \cup subjectsMatchWhy(d.rules[i].subjects, Holder(p)).unmet \subseteq h.scopes
      BY <2>3, <3>1, <3>4, <3>6
    <3>8. h.subject = Holder(p).subject /\ h.issuer = Holder(p).issuer
          /\ h.groups = Holder(p).groups /\ h.claims = Holder(p).claims
      BY <3>4, <3>6
    <3>9. subjectsMatch(d.rules[i].subjects, h)
      BY <3>1, <3>5, <3>7, <3>8, MetScopes
    <3>10. QED
      BY <3>1, <3>3, <3>9
  <2>6. Remedied'
    <3>1. asked'.by = p /\ document' = d /\ asked'.call = asked.call
      BY <2>0, <2>1
    <3>2. Holder(asked.by)' = Holder(p)'
      BY <3>1 DEF Holder
    <3>3. QED
      BY <2>5, <3>1, <3>2 DEF Remedied
  <2>7. AnsweredByDocument'
    BY <2>1 DEF AnsweredByDocument, Ruled
  <2>8. QED
    BY <2>4, <2>6, <2>7 DEF PolicyInv
<1>3. CASE UNCHANGED pvars
  BY <1>3 DEF pvars, PolicyInv, PolicyTypeOK, AnsweredByDocument, Remedied, Ruled, Holder
<1>4. QED
  BY <1>1, <1>2, <1>3 DEF PolicyNext

\* decide, for every document, caller and call: neither the order of the rules
\* nor the path taken changes the verdict, and what may be called is listed.
THEOREM OnePolicyCorrect == PolicySpec => []OnePolicy
<1>1. PolicyInv => OnePolicy
  <2>. SUFFICES ASSUME PolicyInv PROVE OneReading /\ CallableIsVisible
    BY DEF OnePolicy, PolicyInv
  <2>. DEFINE d == document
              h == Holder(asked.by)
              c == asked.call
              e == [d EXCEPT !.rules = Reverse(@)]
              item == [c EXCEPT !.args = NoArgs]
  <2>0. SUFFICES ASSUME Ruled PROVE OneReading /\ CallableIsVisible
    BY DEF OneReading, CallableIsVisible
  <2>1. /\ d \in Documents /\ d.default \in BOOLEAN /\ HasFields(d, {"rules", "default"})
        /\ DOMAIN d.rules = 1..Len(d.rules) /\ Len(d.rules) \in Nat
        /\ c \in Calls /\ HasFields(c, {"server", "method", "name", "args", "tool"})
    BY <2>0, PolicyAssumption DEF PolicyInv, PolicyTypeOK, Ruled
  <2>2. asked.got = decide(d, h, c, "enforce")
    BY <2>0 DEF PolicyInv, AnsweredByDocument, DecideCall
  <2>3. e.rules = Reverse(d.rules) /\ e.default = d.default
    BY <2>1 DEF HasFields
  <2>4. item.server = c.server /\ item.method = c.method /\ item.name = c.name /\ item.tool = c.tool
    BY <2>1 DEF HasFields
  <2>. HIDE DEF d, h, c, e, item
  <2>5. decide(d, h, c, "enforce").allowed \in BOOLEAN /\ (decide(d, h, c, "enforce").allowed <=> Reads(d, h, c, "enforce"))
    BY <2>1, DecideReads
  <2>6. decideArgs(d, h, c, "enforce").allowed \in BOOLEAN /\ (decideArgs(d, h, c, "enforce").allowed <=> Reads(d, h, c, "enforce"))
    BY <2>1, ArgsPath
  <2>7. decide(e, h, c, "enforce").allowed \in BOOLEAN /\ (decide(e, h, c, "enforce").allowed <=> Reads(d, h, c, "enforce"))
    <3>1. decide(e, h, c, "enforce").allowed \in BOOLEAN /\ (decide(e, h, c, "enforce").allowed <=> Reads(e, h, c, "enforce"))
      BY <2>1, <2>3, DecideReads
    <3>2. Reads(e, h, c, "enforce") <=> Reads(d, h, c, "enforce")
      BY <2>1, <2>3, ReversedReads
    <3>3. QED
      BY <3>1, <3>2
  <2>8. OneReading
    BY <2>2, <2>5, <2>6, <2>7 DEF OneReading, d, h, c, e
  <2>9. CallableIsVisible
    <3>1. decide(d, h, item, "ignore").allowed <=> Reads(d, h, item, "ignore")
      BY <2>1, DecideReads
    <3>2. Reads(d, h, c, "enforce") => Reads(d, h, item, "ignore")
      BY <2>4, ListedReads
    <3>3. QED
      BY <2>2, <2>5, <3>1, <3>2 DEF CallableIsVisible, DecideList, d, h, c, item
  <2>10. QED
    BY <2>8, <2>9
<1>2. QED
  BY <1>1, PolicyInvInit, PolicyInvStep, PTL DEF PolicySpec

\* scopeShortfall, for every document that constrains neither arguments nor
\* annotations: the scopes a refusal names are what it takes.
THEOREM RemedyCorrect == PolicySpec => []Remedy
<1>1. PolicyInv => Remedy
  <2>. DEFINE d == document
              h == Holder(asked.by)
              c == asked.call
              covers == {i \in DOMAIN d.rules : subjectsMatch(d.rules[i].subjects, h)}
              denying == {i \in covers : matches(d.rules[i].deny, c)}
              granting == {i \in covers : matches(d.rules[i].allow, c)}
  <2>. SUFFICES ASSUME PolicyInv, asked.is = "remedied", ~hasArgs(d), ~hasKind(d)
                PROVE  DecideCall(d, h, c).allowed \/ DecideCall(d, h, c).rule # ""
    BY Zenon DEF Remedy
  <2>1. granting # {}
    BY DEF PolicyInv, Remedied
  <2>2. denying \subseteq Nat /\ \A i \in denying : d.rules[i].id # ""
    <3>1. d \in Documents
      BY DEF PolicyInv, PolicyTypeOK
    <3>. HIDE DEF d
    <3>2. DOMAIN d.rules = 1..Len(d.rules) /\ Len(d.rules) \in Nat
          /\ \A i \in DOMAIN d.rules : d.rules[i].id # ""
      <4>1. \A x \in Documents : /\ DOMAIN x.rules = 1..Len(x.rules) /\ Len(x.rules) \in Nat
                                  /\ \A i \in DOMAIN x.rules : x.rules[i].id # ""
        BY PolicyAssumption, Zenon
      <4>2. QED
        BY <3>1, <4>1
    <3>3. denying \subseteq DOMAIN d.rules
      BY Zenon
    <3>. HIDE DEF denying
    <3>4. \A i \in denying : d.rules[i].id # ""
      BY <3>2, <3>3, Zenon
    <3>5. PICK n \in Nat : DOMAIN d.rules = 1..n
      BY <3>2, Zenon
    <3>6. denying \subseteq Nat
      BY <3>3, <3>5
    <3>7. QED
      BY <3>4, <3>6
  <2>3. DecideCall(d, h, c) = IF denying # {} THEN Deny(d.rules[First(denying)])
                              ELSE Allow(d.rules[First(granting)])
    BY <2>1 DEF DecideCall, decide, decideNames
  <2>. HIDE DEF denying, granting
  <2>4. CASE denying # {}
    <3>1. First(denying) \in denying
      BY <2>2, <2>4, FirstIsOne
    <3>2. Deny(d.rules[First(denying)]).rule # ""
      BY <2>2, <3>1 DEF Deny
    <3>3. QED
      BY <2>3, <2>4, <3>2
  <2>5. CASE denying = {}
    BY <2>3, <2>5 DEF Allow
  <2>6. QED
    BY <2>4, <2>5
<1>2. QED
  BY <1>1, PolicyInvInit, PolicyInvStep, PTL DEF PolicySpec

\* The walk of glob.match decides what a pattern means, whatever the patterns of
\* the document in force and the name that is called.
THEOREM GlobExactCorrect == PolicySpec => []GlobExact
<1>1. PolicyInv => GlobExact
  <2>. SUFFICES ASSUME PolicyInv, Ruled, NEW i \in DOMAIN document.rules,
                       NEW a \in Clauses(document.rules[i]), NEW g \in a.names
                PROVE  match(g, asked.call.name) <=> Covers(g, asked.call.name)
    BY Zenon DEF GlobExact
  <2>1. document \in Documents /\ asked.call \in Calls
    BY DEF PolicyInv, PolicyTypeOK, Ruled
  <2>2. g # <<>> /\ IsSequence(g) /\ \A k \in DOMAIN g : IsSequence(g[k])
    BY <2>1, PolicyAssumption, Zenon
  <2>3. IsSequence(asked.call.name)
    BY <2>1, PolicyAssumption, Zenon
  <2>4. QED
    BY <2>2, <2>3, MatchIsCovers
<1>2. QED
  BY <1>1, PolicyInvInit, PolicyInvStep, PTL DEF PolicySpec
-----------------------------------------------------------------------------
(* Tenancy.                                                                *)

\* A selector that covers a caller is filed where the caller's claims, groups or
\* scopes lead.
LEMMA MatchIsCandidate ==
    ASSUME NEW ts \in TenantDocs, NEW t \in DOMAIN ts, NEW p, p # Nobody,
           subjectsMatch(ts[t].subjects, p)
    PROVE  t \in Candidates(ts, p)
<1>. DEFINE s == ts[t].subjects
<1>1. s # Anyone /\ IsFiniteSet(s.claims) /\ IsFiniteSet(s.scopes)
  BY TenancyAssumption
<1>2. claimsMatch(s.claims, p.claims)
  BY <1>1 DEF subjectsMatch, subjectsMatchWhy
<1>3. s.subs # {} \/ s.groups # {} => p.subject \in s.subs \/ s.groups \cap p.groups # {}
  BY <1>1 DEF subjectsMatch, subjectsMatchWhy
<1>4. s.scopes \subseteq p.scopes
  BY <1>1 DEF subjectsMatch, subjectsMatchWhy, missingScopes
<1>. HIDE DEF s
<1>5. CASE indexableClaim(s)
  <2>1. PICK c : s.claims = {c}
    BY <1>1, <1>5, FS_Singleton DEF indexableClaim
  <2>2. c \in p.claims /\ c[2] \in Scalars /\ c \in s.claims
    BY <1>2, <1>5, <2>1 DEF claimsMatch, indexableClaim
  <2>3. FiledUnder(s) = "claim"
    BY <1>5 DEF FiledUnder
  <2>4. QED
    BY <2>2, <2>3 DEF Candidates, s
<1>6. CASE indexableGroups(s) /\ ~indexableClaim(s)
  <2>1. s.subs = {} /\ s.groups # {}
    BY <1>6 DEF indexableGroups, Only
  <2>2. p.groups \cap s.groups # {}
    BY <1>3, <2>1
  <2>3. FiledUnder(s) = "group"
    BY <1>6 DEF FiledUnder
  <2>4. QED
    BY <2>2, <2>3 DEF Candidates, s
<1>7. CASE indexableScope(s) /\ ~indexableClaim(s) /\ ~indexableGroups(s)
  <2>1. PICK c : s.scopes = {c}
    BY <1>1, <1>7, FS_Singleton DEF indexableScope
  <2>2. p.scopes \cap s.scopes # {}
    BY <1>4, <2>1
  <2>3. FiledUnder(s) = "scope"
    BY <1>7 DEF FiledUnder
  <2>4. QED
    BY <2>2, <2>3 DEF Candidates, s
<1>8. CASE ~indexableScope(s) /\ ~indexableClaim(s) /\ ~indexableGroups(s)
  <2>1. FiledUnder(s) = "scan"
    BY <1>8 DEF FiledUnder
  <2>2. QED
    BY <2>1 DEF Candidates, s
<1>9. QED
  BY <1>5, <1>6, <1>7, <1>8

\* Every step of the tenants keeps their types.
LEMMA TenancyTypeStep == TenancyTypeOK /\ [TenancyNext]_nvars => TenancyTypeOK'
<1>. SUFFICES ASSUME TenancyTypeOK, [TenancyNext]_nvars PROVE TenancyTypeOK'
  OBVIOUS
<1>. USE TenancyAssumption
<1>1. ASSUME NEW ts \in TenantDocs, Rebuild(ts) PROVE TenancyTypeOK'
  <2>1. \A t \in DOMAIN ts : Wired(ts, t) \in 0..SpendCap
    BY DEF Wired, TenancyTypeOK
  <2>2. QED
    BY <1>1, <2>1 DEF Rebuild, TenancyTypeOK
<1>2. ASSUME NEW p \in Callers, Spend(p) PROVE TenancyTypeOK'
  <2>1. PICK t \in DOMAIN tenants : counter[t] < SpendCap
                                    /\ counter' = [counter EXCEPT ![t] = @ + 1] /\ UNCHANGED tenants
    BY <1>2 DEF Spend
  <2>2. t \in Tenants /\ counter[t] \in 0..SpendCap
    BY <2>1 DEF TenancyTypeOK
  <2>3. counter[t] + 1 \in 0..SpendCap
    BY <2>1, <2>2
  <2>4. QED
    BY <2>1, <2>2, <2>3 DEF TenancyTypeOK
<1>3. CASE UNCHANGED nvars
  BY <1>3 DEF nvars, TenancyTypeOK
<1>4. QED
  BY <1>1, <1>2, <1>3 DEF TenancyNext

\* The tenants start well typed.
LEMMA TenancyTypeInit == TenancyInit => TenancyTypeOK
  BY TenancyAssumption DEF TenancyInit, TenancyTypeOK

\* resolveTenant, for every set of tenants and every caller: the indexes change
\* nothing, neither whom a caller belongs to nor what is ambiguous.
THEOREM IndexExactCorrect == TenancySpec => []IndexExact
<1>1. TenancyTypeOK => IndexExact
  <2>. SUFFICES ASSUME TenancyTypeOK, NEW p \in Callers \ {Nobody}
                PROVE  {t \in Candidates(tenants, p) : subjectsMatch(tenants[t].subjects, p)}
                         = {t \in DOMAIN tenants : subjectsMatch(tenants[t].subjects, p)}
    BY Zenon DEF IndexExact, resolveTenant
  <2>1. tenants \in TenantDocs /\ Candidates(tenants, p) \subseteq DOMAIN tenants
    BY DEF TenancyTypeOK, Candidates
  <2>2. QED
    BY <2>1, MatchIsCandidate
<1>2. QED
  BY <1>1, TenancyTypeInit, TenancyTypeStep, PTL DEF TenancySpec

\* wire, for every reload: the count of a budget declared as it was is kept.
THEOREM AllowanceKeptCorrect == TenancySpec => AllowanceKept
<1>. DEFINE Keeps == \A t \in DOMAIN tenants \cap DOMAIN tenants' :
                        tenants'[t].budget = tenants[t].budget => counter'[t] >= counter[t]
<1>1. TenancyTypeOK /\ [TenancyNext]_nvars => [Keeps]_nvars
  <2>. SUFFICES ASSUME TenancyTypeOK, TenancyNext, NEW t \in DOMAIN tenants \cap DOMAIN tenants',
                       tenants'[t].budget = tenants[t].budget
                PROVE  counter'[t] >= counter[t]
    OBVIOUS
  <2>0. t \in Tenants /\ counter[t] \in 0..SpendCap
    BY TenancyAssumption DEF TenancyTypeOK
  <2>1. ASSUME NEW ts \in TenantDocs, Rebuild(ts) PROVE counter'[t] >= counter[t]
    <3>1. counter'[t] = counter[t]
      BY <2>0, <2>1 DEF Rebuild, Wired
    <3>2. QED
      BY <2>0, <3>1
  <2>2. ASSUME NEW p \in Callers, Spend(p) PROVE counter'[t] >= counter[t]
    BY <2>0, <2>2 DEF Spend, TenancyTypeOK
  <2>3. QED
    BY <2>1, <2>2 DEF TenancyNext
<1>2. QED
  BY <1>1, TenancyTypeInit, TenancyTypeStep, PTL DEF TenancySpec, AllowanceKept
-----------------------------------------------------------------------------
(* Routing.                                                                *)

\* What a request that may ask has to show of an upstream.
Open(c, r, u) == u \in ToSet(r.rt.ups) /\ authorized(c, r.rt, u)

\* Its position tells a request's kind, and what it asked so far was its to ask.
Placed(c, r) ==
    /\ r.pc \notin {"idle", "done"} => r.answer = "none" /\ (r.op = "list" <=> r.pc = "list")
    /\ r.op \in CallMethods /\ r.pc \notin {"idle", "done"} =>
          r.pc \in Stages \cup {"call", "call up", "calling", "disclose"}
    /\ r.pc \in {"complete", "refreshed"} => r.op = "complete"
    /\ r.pc \in Stages \cup {"call up", "calling", "disclose", "affinity", "probing", "minted",
                             "completing"} => Open(c, r, r.up)
    /\ r.left \subseteq visibleUpstreams(c, r.rt)
    /\ r.op # "list" => \A u \in r.asked : Open(c, r, u)
    /\ \A u \in r.asked : Sees(c, r.rt, u)

\* A probe's upstreams are ahead of it, refused, or noted as denied.
Probed(c, r) ==
    /\ r.pc = "probe" => \A u \in visibleUpstreams(c, r.rt) : u \in r.left \cup r.refused \/ r.denied
    /\ r.pc = "probing" => \A u \in visibleUpstreams(c, r.rt) :
                              u \in r.left \cup r.refused \cup {r.up} \/ r.denied
    /\ r.op \in {"read", "ui"} /\ r.answer = "notfound" => visibleUpstreams(c, r.rt) \subseteq r.refused

\* What the event of a call says of the hook at each point of it.
Noted(r) ==
    /\ r.pc \in Entries \cup {"ingress"} => r.hookOutcome = "" /\ ~r.open
    /\ r.pc \in {"call up", "calling", "egress", "disclose"} \/ (r.op \in CallMethods /\ r.answer = "served") =>
          (r.open <=> r.hookOutcome = "error")
    /\ r.pc \in {"call up", "calling", "egress"} => (r.hookOutcome # "" <=> Inspected(r, "ingress"))
    /\ r.pc = "disclose" \/ (r.op \in CallMethods /\ r.answer = "served") =>
          (r.hookOutcome # "" <=> Inspected(r, "ingress") \/ Inspected(r, "egress"))

RequestInv(c, r) == Placed(c, r) /\ Probed(c, r) /\ Noted(r)

RoutingInv ==
    /\ RoutingTypeOK
    /\ \A c \in Clients : RequestInv(c, req[c])

\* What a client sees is upstreams of its snapshot.
LEMMA Visible ==
    ASSUME NEW c, NEW s \in Snapshots
    PROVE  /\ visibleUpstreams(c, s) \in Groups
           /\ \A u \in ToSet(s.ups) : u \in Servers /\ u # NoOwner
  BY RoutingAssumption DEF visibleUpstreams, Groups, ToSet

\* Whether the hook inspects a request depends on its method and its world.
LEMMA InspectedSame ==
    ASSUME NEW n, NEW r, n.op = r.op, n.rt = r.rt
    PROVE  \A stage : Inspected(n, stage) <=> Inspected(r, stage)
BY DEF Inspected

\* What each way of changing a request leaves of it.
Same(n, r) == n.op = r.op /\ n.rt = r.rt /\ n.open = r.open /\ n.hookOutcome = r.hookOutcome
Kept(n, r) == n.left = r.left /\ n.denied = r.denied /\ n.refused = r.refused

\* An answer given.
LEMMA EndedIs ==
    ASSUME NEW r \in Request, NEW answer \in Answers, NEW decision \in Words,
           NEW n, n = Ended(r, answer, decision)
    PROVE  /\ n \in Request /\ Same(n, r) /\ Kept(n, r)
           /\ n.pc = "done" /\ n.answer = answer /\ n.asked = r.asked /\ n.up = r.up
<1>1. "done" \in Points
  BY DEF Points
<1>2. n \in Request
  BY <1>1 DEF Request, Ended
<1>3. QED
  BY <1>2 DEF Request, Ended, Same, Kept

\* A step taken.
LEMMA ReachingIs ==
    ASSUME NEW r \in Request, NEW pc \in Points, NEW n, n = Reaching(r, pc)
    PROVE  /\ n \in Request /\ Same(n, r) /\ Kept(n, r)
           /\ n.pc = pc /\ n.answer = r.answer /\ n.asked = r.asked /\ n.up = r.up
<1>1. n \in Request
  BY DEF Request, Reaching
<1>2. QED
  BY <1>1 DEF Request, Reaching, Same, Kept

\* An owner chosen.
LEMMA TowardIs ==
    ASSUME NEW r \in Request, NEW u \in Servers, NEW n, n = Toward(r, u)
    PROVE  /\ n \in Request /\ Same(n, r) /\ Kept(n, r)
           /\ n.pc = r.pc /\ n.answer = r.answer /\ n.asked = r.asked /\ n.up = u
<1>1. u \in Owners
  BY DEF Owners
<1>2. n \in Request
  BY <1>1 DEF Request, Toward
<1>3. QED
  BY <1>2 DEF Request, Toward, Same, Kept

\* A point of the hook passed.
LEMMA AllowedIs ==
    ASSUME NEW r \in Request, NEW n, n = Allowed(r)
    PROVE  /\ n \in Request /\ Same(n, r) /\ Kept(n, r)
           /\ n.pc = r.pc /\ n.answer = r.answer /\ n.asked = r.asked /\ n.up = r.up
<1>1. "allow" \in Words
  BY DEF Words
<1>2. n \in Request
  BY <1>1 DEF Request, Allowed
<1>3. QED
  BY <1>2 DEF Request, Allowed, Same, Kept

\* An upstream asked.
LEMMA AskingIs ==
    ASSUME NEW r \in Request, NEW u \in Servers, NEW pc \in Points, NEW n, n = Asking(r, u, pc)
    PROVE  /\ n \in Request /\ Same(n, r) /\ Kept(n, r)
           /\ n.pc = pc /\ n.answer = r.answer /\ n.asked = r.asked \cup {u} /\ n.up = u
<1>1. r.asked \in Groups
  BY DEF Request
<1>2. r.asked \cup {u} \in Groups /\ u \in Owners
  BY <1>1 DEF Groups, Owners
<1>3. n \in Request
  BY <1>2 DEF Request, Asking
<1>4. QED
  BY <1>3 DEF Request, Asking, Same, Kept

\* Every visible upstream asked, for a list.
LEMMA AskingAllIs ==
    ASSUME NEW c, NEW r \in Request, NEW n, n = AskingAll(r, c)
    PROVE  /\ n \in Request /\ Same(n, r) /\ Kept(n, r)
           /\ n.pc = r.pc /\ n.answer = r.answer /\ n.up = r.up
           /\ n.asked = visibleUpstreams(c, r.rt)
<1>1. r.rt \in Snapshots
  BY DEF Request
<1>2. visibleUpstreams(c, r.rt) \in Groups
  BY <1>1, Visible
<1>3. n \in Request
  BY <1>2 DEF Request, AskingAll
<1>4. QED
  BY <1>3 DEF Request, AskingAll, Same, Kept

\* A probe begun.
LEMMA ProbingIs ==
    ASSUME NEW c, NEW r \in Request, NEW n, n = Probing(r, c)
    PROVE  /\ n \in Request /\ Same(n, r)
           /\ n.pc = "probe" /\ n.answer = r.answer /\ n.asked = r.asked /\ n.up = r.up
           /\ n.left = visibleUpstreams(c, r.rt) /\ n.denied = r.denied /\ n.refused = r.refused
<1>1. r.rt \in Snapshots
  BY DEF Request
<1>2. visibleUpstreams(c, r.rt) \in Groups /\ "probe" \in Points
  BY <1>1, Visible DEF Points
<1>3. n \in Request
  BY <1>2 DEF Request, Probing
<1>4. QED
  BY <1>3 DEF Request, Probing, Same

\* An upstream that answered with a miss.
LEMMA RefusedIs ==
    ASSUME NEW r \in Request, r.up \in Servers, NEW n, n = Refused(r)
    PROVE  /\ n \in Request /\ Same(n, r)
           /\ n.pc = r.pc /\ n.answer = r.answer /\ n.asked = r.asked /\ n.up = r.up
           /\ n.left = r.left /\ n.denied = r.denied /\ n.refused = r.refused \cup {r.up}
<1>1. r.refused \in Groups
  BY DEF Request
<1>2. r.refused \cup {r.up} \in Groups
  BY <1>1 DEF Groups
<1>3. n \in Request
  BY <1>2 DEF Request, Refused
<1>4. QED
  BY <1>3 DEF Request, Refused, Same

\* An upstream passed over.
LEMMA PassedIs ==
    ASSUME NEW r \in Request, NEW u, NEW n, n = Passed(r, u)
    PROVE  /\ n \in Request /\ Same(n, r)
           /\ n.pc = r.pc /\ n.answer = r.answer /\ n.asked = r.asked /\ n.up = r.up
           /\ n.left = r.left \ {u} /\ n.denied = r.denied /\ n.refused = r.refused
<1>1. r.left \in Groups
  BY DEF Request
<1>2. r.left \ {u} \in Groups
  BY <1>1 DEF Groups
<1>3. n \in Request
  BY <1>2 DEF Request, Passed
<1>4. QED
  BY <1>3 DEF Request, Passed, Same

\* What the hook did, noted for the audit event.
LEMMA NotingIs ==
    ASSUME NEW r \in Request, NEW outcome \in {"allow", "deny", "error"},
           NEW n, n = Noting(r, outcome)
    PROVE  /\ n \in Request /\ Kept(n, r) /\ n.op = r.op /\ n.rt = r.rt
           /\ n.pc = r.pc /\ n.answer = r.answer /\ n.asked = r.asked /\ n.up = r.up
           /\ n.hookOutcome = HookWord(r, outcome)
           /\ n.open = (r.open \/ outcome = "error")
<1>1. HookWord(r, outcome) \in Words
  BY DEF Request, Words, HookWord
<1>2. (r.open \/ outcome = "error") \in BOOLEAN
  OBVIOUS
<1>3. n \in Request
  BY <1>1, <1>2 DEF Request, Noting
<1>4. QED
  BY <1>3 DEF Request, Noting, Kept
-----------------------------------------------------------------------------
\* A request that ends keeps its invariant if what it answers is true: missing
\* only if all refused, served only with the hook noted.
LEMMA EndedKeeps ==
    ASSUME NEW c, NEW r \in Request, RequestInv(c, r),
           NEW answer \in Answers, NEW decision \in Words,
           answer = "notfound" /\ r.op \in {"read", "ui"} => visibleUpstreams(c, r.rt) \subseteq r.refused,
           answer = "served" /\ r.op \in CallMethods => r.pc = "disclose",
           NEW n, n = Ended(r, answer, decision)
    PROVE  n \in Request /\ RequestInv(c, n)
<1>1. /\ n \in Request /\ Same(n, r) /\ Kept(n, r)
      /\ n.pc = "done" /\ n.answer = answer /\ n.asked = r.asked /\ n.up = r.up
  BY EndedIs
<1>2. Placed(c, n)
  BY <1>1 DEF RequestInv, Placed, Open, Same, Kept, Stages
<1>3. Probed(c, n)
  BY <1>1 DEF RequestInv, Probed, Same, Kept
<1>4. Noted(n)
  BY <1>1, InspectedSame DEF RequestInv, Noted, Entries, CallMethods, Same
<1>5. QED
  BY <1>1, <1>2, <1>3, <1>4 DEF RequestInv
\* The decision on the event is not the invariant's concern; nor, before an
\* upstream is settled on, is the upstream it names.
LEMMA AllowedKeeps ==
    ASSUME NEW c, NEW r \in Request, RequestInv(c, r), NEW n, n = Allowed(r)
    PROVE  n \in Request /\ RequestInv(c, n) /\ n.pc = r.pc /\ n.rt = r.rt /\ n.up = r.up
<1>1. /\ n \in Request /\ Same(n, r) /\ Kept(n, r)
      /\ n.pc = r.pc /\ n.answer = r.answer /\ n.asked = r.asked /\ n.up = r.up
  BY AllowedIs
<1>2. Placed(c, n)
  BY <1>1 DEF RequestInv, Placed, Open, Same, Kept
<1>3. Probed(c, n)
  BY <1>1 DEF RequestInv, Probed, Same, Kept
<1>4. Noted(n)
  BY <1>1, InspectedSame DEF RequestInv, Noted, Same
<1>5. QED
  BY <1>1, <1>2, <1>3, <1>4 DEF RequestInv, Same

\* Choosing an owner keeps what is known of the request.
LEMMA TowardKeeps ==
    ASSUME NEW c, NEW r \in Request, RequestInv(c, r), NEW u \in Servers,
           r.pc \in {"read", "ui", "complete", "refreshed", "call"}, NEW n, n = Toward(r, u)
    PROVE  n \in Request /\ RequestInv(c, n) /\ n.pc = r.pc /\ n.rt = r.rt /\ n.up = u
<1>1. /\ n \in Request /\ Same(n, r) /\ Kept(n, r)
      /\ n.pc = r.pc /\ n.answer = r.answer /\ n.asked = r.asked /\ n.up = u
  BY TowardIs
<1>2. Placed(c, n)
  BY <1>1 DEF RequestInv, Placed, Open, Same, Kept, Stages
<1>3. Probed(c, n)
  BY <1>1 DEF RequestInv, Probed, Same, Kept
<1>4. Noted(n)
  BY <1>1, InspectedSame DEF RequestInv, Noted, Same
<1>5. QED
  BY <1>1, <1>2, <1>3, <1>4 DEF RequestInv, Same

\* A refusal may follow at any of those points.
LEMMA RefusesKeeps ==
    ASSUME NEW c, NEW r \in Request, RequestInv(c, r), NEW u \in Servers,
           r.pc \in {"read", "ui", "complete", "refreshed", "call"}
    PROVE  LET n == Ended(Toward(r, u), "denied", "deny") IN n \in Request /\ RequestInv(c, n)
<1>1. PICK m : m = Toward(r, u)
  OBVIOUS
<1>2. m \in Request /\ RequestInv(c, m)
  BY <1>1, TowardKeeps
<1>3. "denied" \in Answers /\ "deny" \in Words
  BY DEF Answers, Words
<1>4. PICK n : n = Ended(m, "denied", "deny")
  OBVIOUS
<1>5. n \in Request /\ RequestInv(c, n)
  <2>1. "denied" # "notfound" /\ "denied" # "served"
    OBVIOUS
  <2>2. QED
    BY <1>2, <1>3, <1>4, <2>1, EndedKeeps
<1>6. QED
  BY <1>1, <1>4, <1>5

\* The upstream a URI led to is asked only if it is open to the caller.
LEMMA AskingKeeps ==
    ASSUME NEW c, NEW r \in Request, RequestInv(c, r), NEW u \in Servers, Open(c, r, u),
           r.pc \in {"read", "ui", "complete", "refreshed"},
           NEW pc \in {"affinity", "minted", "completing"}
    PROVE  LET n == Asking(Allowed(r), u, pc) IN n \in Request /\ RequestInv(c, n)
<1>1. PICK m : m = Allowed(r)
  OBVIOUS
<1>2. m \in Request /\ RequestInv(c, m) /\ m.pc = r.pc /\ m.rt = r.rt
  BY <1>1, AllowedKeeps
<1>3. PICK n : n = Asking(m, u, pc)
  OBVIOUS
<1>4. /\ n \in Request /\ Same(n, m) /\ Kept(n, m)
      /\ n.pc = pc /\ n.answer = m.answer /\ n.asked = m.asked \cup {u} /\ n.up = u
  <2>1. pc \in Points
    BY DEF Points
  <2>2. QED
    BY <1>2, <1>3, <2>1, AskingIs
<1>5. Open(c, n, u) /\ Sees(c, n.rt, u)
  BY <1>2, <1>4 DEF Open, Same, authorized
<1>6. n.op = m.op /\ m.op # "list" /\ m.op \notin CallMethods /\ m.answer = "none"
  BY <1>2, <1>4 DEF RequestInv, Placed, Same, Stages
<1>7. Placed(c, n)
  BY <1>2, <1>4, <1>5, <1>6 DEF RequestInv, Placed, Open, Same, Kept, Stages
<1>8. Probed(c, n)
  BY <1>4, <1>6 DEF Probed
<1>9. Noted(n)
  BY <1>4, <1>6, InspectedSame DEF Noted, Entries, CallMethods
<1>10. QED
  BY <1>1, <1>3, <1>4, <1>7, <1>8, <1>9 DEF RequestInv
\* Route: a request begins with nothing asked, probed or noted.
LEMMA StartedKeeps ==
    ASSUME NEW c, NEW op \in Operations, NEW x \in URIs, NEW s \in Snapshots
    PROVE  LET n == Started(op, x, s) IN n \in Request /\ RequestInv(c, n)
<1>1. PICK n : n = Started(op, x, s)
  OBVIOUS
<1>2. n = [pc |-> Entry(op), op |-> op, rt |-> s, uri |-> x, up |-> NoOwner, left |-> {},
           denied |-> FALSE, asked |-> {}, refused |-> {}, open |-> FALSE,
           hookOutcome |-> "", decision |-> "", answer |-> "none"]
  BY <1>1 DEF Started, Idle0
<1>3. /\ Entry(op) \in Points /\ Entry(op) \in Entries /\ op \in Operations \cup {"none"} /\ NoOwner \in Owners /\ {} \in Groups
      /\ "" \in Words /\ "none" \in Answers
  BY DEF Points, Entries, Entry, Operations, CallMethods, Owners, Groups, Words, Answers
<1>4. n \in Request
  BY <1>2, <1>3 DEF Request
<1>5. /\ n.pc = Entry(op) /\ n.op = op /\ n.left = {} /\ n.asked = {} /\ n.answer = "none"
      /\ n.hookOutcome = "" /\ n.open = FALSE
  BY <1>2
<1>6. Placed(c, n) /\ Probed(c, n) /\ Noted(n)
  BY <1>3, <1>5 DEF Placed, Probed, Noted, Entries, Entry, Operations, CallMethods, Stages
<1>7. QED
  BY <1>1, <1>4, <1>6 DEF RequestInv

\* ListResources: a list asks whom the tenant sees.
LEMMA ListedKeeps ==
    ASSUME NEW c, NEW r \in Request, RequestInv(c, r), r.pc = "list",
           NEW answer \in {"listed", "down"}
    PROVE  LET n == Ended(AskingAll(r, c), answer, "") IN n \in Request /\ RequestInv(c, n)
<1>1. PICK m : m = AskingAll(r, c)
  OBVIOUS
<1>2. /\ m \in Request /\ Same(m, r) /\ Kept(m, r)
      /\ m.pc = r.pc /\ m.answer = r.answer /\ m.up = r.up
      /\ m.asked = visibleUpstreams(c, r.rt)
  BY <1>1, AskingAllIs
<1>3. m.op = "list"
  BY <1>2 DEF RequestInv, Placed, Same
<1>4. \A u \in m.asked : Sees(c, m.rt, u)
  BY <1>2 DEF visibleUpstreams, Same
<1>5. Placed(c, m)
  BY <1>2, <1>3, <1>4 DEF RequestInv, Placed, Same, Kept, Stages
<1>6. Probed(c, m) /\ Noted(m)
  BY <1>2, <1>3 DEF RequestInv, Placed, Probed, Noted, Same, Kept, Entries, CallMethods
<1>7. answer \in Answers /\ "" \in Words /\ answer # "notfound" /\ answer # "served"
  BY DEF Answers, Words
<1>8. PICK n : n = Ended(m, answer, "")
  OBVIOUS
<1>9. n \in Request /\ RequestInv(c, n)
  BY <1>2, <1>5, <1>6, <1>7, <1>8, EndedKeeps DEF RequestInv
<1>10. QED
  BY <1>1, <1>8, <1>9

\* readResource falls back to probing: everybody visible is ahead.
LEMMA ProbingKeeps ==
    ASSUME NEW c, NEW r \in Request, RequestInv(c, r), r.pc \in {"read", "affinity"}
    PROVE  LET n == Probing(r, c) IN n \in Request /\ RequestInv(c, n)
<1>1. PICK n : n = Probing(r, c)
  OBVIOUS
<1>2. /\ n \in Request /\ Same(n, r)
      /\ n.pc = "probe" /\ n.answer = r.answer /\ n.asked = r.asked /\ n.up = r.up
      /\ n.left = visibleUpstreams(c, r.rt) /\ n.denied = r.denied /\ n.refused = r.refused
  BY <1>1, ProbingIs
<1>3. n.op # "list" /\ n.op \notin CallMethods /\ n.answer = "none"
  BY <1>2 DEF RequestInv, Placed, Same, Stages
<1>4. Placed(c, n)
  BY <1>2, <1>3 DEF RequestInv, Placed, Open, Same, Stages
<1>5. Probed(c, n)
  BY <1>2, <1>3 DEF Probed, Same
<1>6. Noted(n)
  BY <1>2, <1>3, InspectedSame DEF Noted, Entries, CallMethods
<1>7. QED
  BY <1>1, <1>2, <1>4, <1>5, <1>6 DEF RequestInv

\* So does a miss of the owner, or of a probe.
LEMMA MissKeeps ==
    ASSUME NEW c, NEW r \in Request, RequestInv(c, r), r.pc \in {"affinity", "probing"}
    PROVE  /\ r.pc = "affinity" =>
                 LET n == Probing(Refused(r), c) IN n \in Request /\ RequestInv(c, n)
           /\ r.pc = "probing" =>
                 LET n == Reaching(Refused(r), "probe") IN n \in Request /\ RequestInv(c, n)
<1>1. PICK m : m = Refused(r)
  OBVIOUS
<1>2. r.up \in Servers /\ r.op # "list" /\ r.op \notin CallMethods /\ r.answer = "none"
  <2>1. r.up \in ToSet(r.rt.ups) /\ r.op # "list" /\ r.op \notin CallMethods /\ r.answer = "none"
    BY DEF RequestInv, Placed, Open, Stages
  <2>2. r.rt \in Snapshots
    BY DEF Request
  <2>3. QED
    BY <2>1, <2>2, Visible
<1>3. /\ m \in Request /\ Same(m, r)
      /\ m.pc = r.pc /\ m.answer = r.answer /\ m.asked = r.asked /\ m.up = r.up
      /\ m.left = r.left /\ m.denied = r.denied /\ m.refused = r.refused \cup {r.up}
  BY <1>1, <1>2, RefusedIs
<1>4. Placed(c, m)
  BY <1>3 DEF RequestInv, Placed, Open, Same
<1>5. Noted(m)
  BY <1>3, InspectedSame DEF RequestInv, Noted, Same
<1>6. Probed(c, m)
  BY <1>2, <1>3 DEF RequestInv, Probed, Same
<1>7. RequestInv(c, m)
  BY <1>4, <1>5, <1>6 DEF RequestInv
<1>8. ASSUME r.pc = "affinity" PROVE Probing(m, c) \in Request /\ RequestInv(c, Probing(m, c))
  BY <1>3, <1>7, <1>8, ProbingKeeps
<1>9. ASSUME r.pc = "probing"
      PROVE  Reaching(m, "probe") \in Request /\ RequestInv(c, Reaching(m, "probe"))
  <2>1. PICK n : n = Reaching(m, "probe")
    OBVIOUS
  <2>2. "probe" \in Points
    BY DEF Points
  <2>3. /\ n \in Request /\ Same(n, m) /\ Kept(n, m)
        /\ n.pc = "probe" /\ n.answer = m.answer /\ n.asked = m.asked /\ n.up = m.up
    BY <1>3, <2>1, <2>2, ReachingIs
  <2>4. Placed(c, n)
    BY <1>2, <1>3, <1>4, <2>3 DEF Placed, Open, Same, Kept, Stages
  <2>5. \A u \in visibleUpstreams(c, r.rt) : u \in r.left \cup r.refused \cup {r.up} \/ r.denied
    BY <1>9 DEF RequestInv, Probed
  <2>6. Probed(c, n)
    BY <1>2, <1>3, <2>3, <2>5 DEF Probed, Same, Kept
  <2>7. Noted(n)
    BY <1>2, <1>3, <2>3, InspectedSame DEF Noted, Entries, CallMethods, Same
  <2>8. QED
    BY <2>1, <2>3, <2>4, <2>6, <2>7 DEF RequestInv
<1>10. QED
  BY <1>1, <1>8, <1>9
\* Probe: an upstream leaves the ones ahead by being asked or noted as denied.
LEMMA ProbeKeeps ==
    ASSUME NEW c, NEW r \in Request, RequestInv(c, r), r.pc = "probe", NEW u \in r.left
    PROVE  /\ LET n == [Passed(r, u) EXCEPT !.denied = TRUE] IN n \in Request /\ RequestInv(c, n)
           /\ May(c, r.rt, u) =>
                 LET n == Asking(Passed(r, u), u, "probing") IN n \in Request /\ RequestInv(c, n)
<1>1. PICK m : m = Passed(r, u)
  OBVIOUS
<1>2. /\ m \in Request /\ Same(m, r)
      /\ m.pc = r.pc /\ m.answer = r.answer /\ m.asked = r.asked /\ m.up = r.up
      /\ m.left = r.left \ {u} /\ m.denied = r.denied /\ m.refused = r.refused
  BY <1>1, PassedIs
<1>3. /\ u \in ToSet(r.rt.ups) /\ Sees(c, r.rt, u) /\ u \in Servers
      /\ r.op # "list" /\ r.op \notin CallMethods /\ r.answer = "none"
  <2>1. /\ u \in ToSet(r.rt.ups) /\ Sees(c, r.rt, u)
        /\ r.op # "list" /\ r.op \notin CallMethods /\ r.answer = "none"
    BY DEF RequestInv, Placed, visibleUpstreams, Stages
  <2>2. r.rt \in Snapshots
    BY DEF Request
  <2>3. QED
    BY <2>1, <2>2, Visible
<1>4. /\ r.left \subseteq visibleUpstreams(c, r.rt)
      /\ \A v \in r.asked : Open(c, r, v) /\ Sees(c, r.rt, v)
      /\ \A v \in visibleUpstreams(c, r.rt) : v \in r.left \cup r.refused \/ r.denied
  BY <1>3 DEF RequestInv, Placed, Probed
<1>5. [m EXCEPT !.denied = TRUE] \in Request /\ RequestInv(c, [m EXCEPT !.denied = TRUE])
  <2>1. PICK n : n = [m EXCEPT !.denied = TRUE]
    OBVIOUS
  <2>2. n \in Request
    BY <1>2, <2>1 DEF Request
  <2>3. /\ Same(n, m) /\ n.pc = m.pc /\ n.answer = m.answer /\ n.asked = m.asked /\ n.up = m.up
        /\ n.left = m.left /\ n.denied = TRUE /\ n.refused = m.refused
    BY <1>2, <2>1 DEF Request, Same
  <2>4. Placed(c, n)
    BY <1>2, <1>3, <1>4, <2>3 DEF Placed, Open, Same, Stages
  <2>5. Probed(c, n)
    BY <1>2, <1>3, <2>3 DEF Probed, Same
  <2>6. Noted(n)
    BY <1>2, <1>3, <2>3, InspectedSame DEF Noted, Same, Entries, CallMethods
  <2>7. QED
    BY <2>1, <2>2, <2>4, <2>5, <2>6 DEF RequestInv
<1>6. ASSUME May(c, r.rt, u)
      PROVE  Asking(m, u, "probing") \in Request /\ RequestInv(c, Asking(m, u, "probing"))
  <2>1. PICK n : n = Asking(m, u, "probing")
    OBVIOUS
  <2>2. "probing" \in Points
    BY DEF Points
  <2>3. /\ n \in Request /\ Same(n, m) /\ Kept(n, m)
        /\ n.pc = "probing" /\ n.answer = m.answer /\ n.asked = m.asked \cup {u} /\ n.up = u
    BY <1>2, <1>3, <2>1, <2>2, AskingIs
  <2>4. Open(c, n, u) /\ Sees(c, n.rt, u)
    BY <1>2, <1>3, <1>6, <2>3 DEF Open, authorized, Same
  <2>5. \A v \in n.asked : Open(c, n, v) /\ Sees(c, n.rt, v)
    BY <1>2, <1>4, <2>3, <2>4 DEF Open, Same
  <2>6. Placed(c, n)
    BY <1>2, <1>3, <1>4, <2>3, <2>4, <2>5 DEF Placed, Same, Kept, Stages
  <2>7. Probed(c, n)
    BY <1>2, <1>3, <1>4, <2>3 DEF Probed, Same, Kept
  <2>8. Noted(n)
    BY <1>2, <1>3, <2>3, InspectedSame DEF Noted, Same, Entries, CallMethods
  <2>9. QED
    BY <2>1, <2>3, <2>6, <2>7, <2>8 DEF RequestInv
<1>7. QED
  BY <1>1, <1>5, <1>6

\* From "ui" to "read", "complete" to "refreshed", "calling" to "egress", and
\* past a stage of the hook that is not configured.
LEMMA ReachingKeeps ==
    ASSUME NEW c, NEW r \in Request, RequestInv(c, r), NEW pc,
           \/ r.pc = "ui" /\ pc = "read"
           \/ r.pc = "complete" /\ pc = "refreshed"
           \/ r.pc = "calling" /\ pc = "egress"
           \/ r.pc = "ingress" /\ pc = "call up" /\ ~Inspected(r, "ingress")
           \/ r.pc = "egress" /\ pc = "disclose" /\ ~Inspected(r, "egress")
    PROVE  LET n == Reaching(r, pc) IN n \in Request /\ RequestInv(c, n)
<1>1. PICK n : n = Reaching(r, pc)
  OBVIOUS
<1>2. pc \in Points
  BY DEF Points, Entries, CallMethods, Stages
<1>3. /\ n \in Request /\ Same(n, r) /\ Kept(n, r)
      /\ n.pc = pc /\ n.answer = r.answer /\ n.asked = r.asked /\ n.up = r.up
  <2>1. \A p \in Points : p = pc => n = Reaching(r, p)
    BY <1>1
  <2>2. PICK p \in Points : p = pc
    BY <1>2
  <2>3. n = Reaching(r, p)
    BY <2>1, <2>2
  <2>4. /\ n \in Request /\ Same(n, r) /\ Kept(n, r)
        /\ n.pc = p /\ n.answer = r.answer /\ n.asked = r.asked /\ n.up = r.up
    BY ONLY <2>3, r \in Request, p \in Points, ReachingIs
  <2>5. QED
    BY <2>2, <2>4
<1>4. r.op # "list" /\ r.answer = "none"
  BY DEF RequestInv, Placed
<1>5. Placed(c, n)
  BY <1>3, <1>4 DEF RequestInv, Placed, Open, Same, Kept, Stages
<1>6. Probed(c, n)
  BY <1>3, <1>4 DEF Probed
<1>7. Noted(n)
  BY <1>3, <1>4, InspectedSame DEF RequestInv, Noted, Same, Entries, CallMethods
<1>8. QED
  BY <1>1, <1>3, <1>5, <1>6, <1>7 DEF RequestInv

\* resolved: a call goes to the hook only toward an upstream open to it.
LEMMA ResolvedKeeps ==
    ASSUME NEW c, NEW r \in Request, RequestInv(c, r), r.pc = "call",
           NEW u \in Servers, Open(c, r, u)
    PROVE  LET n == Reaching(Allowed(Toward(r, u)), "ingress") IN n \in Request /\ RequestInv(c, n)
<1>1. PICK t : t = Toward(r, u)
  OBVIOUS
<1>2. t \in Request /\ RequestInv(c, t) /\ t.pc = r.pc /\ t.rt = r.rt /\ t.up = u
  BY <1>1, TowardKeeps
<1>3. PICK m : m = Allowed(t)
  OBVIOUS
<1>4. m \in Request /\ RequestInv(c, m) /\ m.pc = "call" /\ m.rt = r.rt /\ m.up = u
  BY <1>2, <1>3, AllowedKeeps
<1>5. PICK n : n = Reaching(m, "ingress")
  OBVIOUS
<1>6. "ingress" \in Points
  BY DEF Points, Stages
<1>7. /\ n \in Request /\ Same(n, m) /\ Kept(n, m)
      /\ n.pc = "ingress" /\ n.answer = m.answer /\ n.asked = m.asked /\ n.up = m.up
  BY <1>4, <1>5, <1>6, ReachingIs
<1>8. m.op # "list" /\ m.answer = "none"
  BY <1>4 DEF RequestInv, Placed
<1>9. Placed(c, n)
  BY <1>4, <1>7, <1>8 DEF RequestInv, Placed, Open, Same, Kept, Stages
<1>10. Probed(c, n)
  BY <1>7, <1>8 DEF Probed
<1>11. Noted(n)
  BY <1>4, <1>7, <1>8, InspectedSame DEF RequestInv, Noted, Same, Entries, CallMethods
<1>12. QED
  BY <1>1, <1>3, <1>5, <1>7, <1>9, <1>10, <1>11 DEF RequestInv

\* CallUp: the upstream the hook was asked about.
LEMMA CallUpKeeps ==
    ASSUME NEW c, NEW r \in Request, RequestInv(c, r), r.pc = "call up"
    PROVE  LET n == Asking(r, r.up, "calling") IN n \in Request /\ RequestInv(c, n)
<1>1. PICK n : n = Asking(r, r.up, "calling")
  OBVIOUS
<1>2. Open(c, r, r.up) /\ r.op # "list" /\ r.answer = "none"
  BY DEF RequestInv, Placed
<1>3. r.up \in Servers
  <2>1. r.rt \in Snapshots
    BY DEF Request
  <2>2. QED
    BY <1>2, <2>1, Visible DEF Open
<1>4. "calling" \in Points
  BY DEF Points
<1>5. /\ n \in Request /\ Same(n, r) /\ Kept(n, r)
      /\ n.pc = "calling" /\ n.answer = r.answer /\ n.asked = r.asked \cup {r.up} /\ n.up = r.up
  <2>1. PICK u \in Servers : u = r.up
    BY <1>3
  <2>2. n = Asking(r, u, "calling")
    BY <1>1, <2>1
  <2>3. /\ n \in Request /\ Same(n, r) /\ Kept(n, r)
        /\ n.pc = "calling" /\ n.answer = r.answer /\ n.asked = r.asked \cup {u} /\ n.up = u
    BY ONLY <1>4, <2>2, r \in Request, u \in Servers, AskingIs
  <2>4. QED
    BY <2>1, <2>3
<1>6. Placed(c, n)
  BY <1>2, <1>5 DEF RequestInv, Placed, Open, authorized, Same, Kept, Stages
<1>7. Probed(c, n)
  BY <1>2, <1>5 DEF Probed
<1>8. Noted(n)
  BY <1>2, <1>5, InspectedSame DEF RequestInv, Noted, Same, Entries, CallMethods
<1>9. QED
  BY <1>1, <1>5, <1>6, <1>7, <1>8 DEF RequestInv
\* The hook: what a stage says is on the event before the call goes on.
LEMMA HookKeeps ==
    ASSUME NEW c, NEW r \in Request, RequestInv(c, r), NEW stage \in Stages, r.pc = stage,
           Inspected(r, stage), NEW outcome \in {"allow", "deny", "error"}
    PROVE  /\ LET n == Ended(Noting(r, outcome), "withheld", "deny")
              IN  n \in Request /\ RequestInv(c, n)
           /\ outcome # "deny" =>
                 LET n == Reaching(Noting(r, outcome), Beyond(stage))
                 IN  n \in Request /\ RequestInv(c, n)
<1>1. PICK m : m = Noting(r, outcome)
  OBVIOUS
<1>2. /\ m \in Request /\ Kept(m, r) /\ m.op = r.op /\ m.rt = r.rt
      /\ m.pc = r.pc /\ m.answer = r.answer /\ m.asked = r.asked /\ m.up = r.up
      /\ m.hookOutcome = HookWord(r, outcome)
      /\ m.open = (r.open \/ outcome = "error")
  BY <1>1, NotingIs
<1>3. r.op # "list" /\ r.answer = "none" /\ Open(c, r, r.up)
  BY DEF RequestInv, Placed, Stages
<1>4. Placed(c, m)
  BY <1>2 DEF RequestInv, Placed, Open, Kept
<1>5. Ended(m, "withheld", "deny") \in Request /\ RequestInv(c, Ended(m, "withheld", "deny"))
  <2>1. PICK n : n = Ended(m, "withheld", "deny")
    OBVIOUS
  <2>2. "withheld" \in Answers /\ "deny" \in Words
    BY DEF Answers, Words
  <2>3. /\ n \in Request /\ Same(n, m) /\ Kept(n, m)
        /\ n.pc = "done" /\ n.answer = "withheld" /\ n.asked = m.asked /\ n.up = m.up
    BY <1>2, <2>1, <2>2, EndedIs
  <2>4. Placed(c, n)
    BY <1>4, <2>3 DEF Placed, Open, Same, Kept, Stages
  <2>5. Probed(c, n)
    BY <2>3 DEF Probed
  <2>6. Noted(n)
    BY <2>3, InspectedSame DEF Noted, Entries, CallMethods
  <2>7. QED
    BY <2>1, <2>3, <2>4, <2>5, <2>6 DEF RequestInv
<1>6. ASSUME outcome # "deny"
      PROVE  Reaching(m, Beyond(stage)) \in Request /\ RequestInv(c, Reaching(m, Beyond(stage)))
  <2>1. PICK n : n = Reaching(m, Beyond(stage))
    OBVIOUS
  <2>2. Beyond(stage) \in Points /\ Beyond(stage) \in {"call up", "disclose"}
    BY DEF Points, Beyond
  <2>3. /\ n \in Request /\ Same(n, m) /\ Kept(n, m)
        /\ n.pc = Beyond(stage) /\ n.answer = m.answer /\ n.asked = m.asked /\ n.up = m.up
    <3>1. PICK p \in Points : p = Beyond(stage)
      BY <2>2
    <3>2. n = Reaching(m, p)
      BY <2>1, <3>1
    <3>3. /\ n \in Request /\ Same(n, m) /\ Kept(n, m)
          /\ n.pc = p /\ n.answer = m.answer /\ n.asked = m.asked /\ n.up = m.up
      BY ONLY <1>2, <3>2, p \in Points, ReachingIs
    <3>4. QED
      BY <3>1, <3>3
  <2>4. Placed(c, n)
    BY <1>2, <1>3, <1>4, <2>2, <2>3 DEF Placed, Open, Same, Kept, Stages
  <2>5. Probed(c, n)
    BY <1>2, <1>3, <2>2, <2>3 DEF Probed
  <2>6. n.hookOutcome = HookWord(r, outcome) /\ n.open = (r.open \/ outcome = "error") /\ n.rt = r.rt
    BY <1>2, <2>3 DEF Same
  <2>7. /\ (r.open \/ outcome = "error") <=> HookWord(r, outcome) = "error"
        /\ HookWord(r, outcome) # ""
    <3>1. CASE stage = "ingress"
      <4>1. r.hookOutcome = "" /\ ~r.open
        BY <3>1 DEF RequestInv, Noted
      <4>2. QED
        BY <4>1 DEF HookWord
    <3>2. CASE stage = "egress"
      <4>1. r.open <=> r.hookOutcome = "error"
        BY <3>2 DEF RequestInv, Noted
      <4>2. QED
        BY <1>6, <4>1 DEF HookWord
    <3>3. QED
      BY <3>1, <3>2 DEF Stages
  <2>8. Noted(n)
    <3>1. \A s : Inspected(n, s) <=> Inspected(r, s)
      BY <1>2, <2>3, InspectedSame DEF Same
    <3>2. stage = "ingress" \/ stage = "egress"
      BY DEF Stages
    <3>3. n.pc = IF stage = "ingress" THEN "call up" ELSE "disclose"
      BY <2>3 DEF Beyond
    <3>4. QED
      BY <1>2, <1>3, <2>3, <2>6, <2>7, <3>1, <3>2, <3>3 DEF Noted, Entries
  <2>9. QED
    BY <2>1, <2>3, <2>4, <2>5, <2>8 DEF RequestInv
<1>7. QED
  BY <1>1, <1>5, <1>6
-----------------------------------------------------------------------------
\* A set of positions has a last member.
LEMMA LastIsOne ==
    ASSUME NEW k \in Nat, NEW S, S \subseteq 1..k, S # {} PROVE Max(S) \in S
<1>1. PICK T : T = {k - i : i \in S}
  OBVIOUS
<1>2. T \subseteq Nat /\ T # {}
  <2>1. PICK i : i \in S
    OBVIOUS
  <2>2. k - i \in T
    BY <1>1, <2>1
  <2>3. QED
    BY <1>1, <2>2
<1>3. PICK t \in T : \A v \in T : t <= v
  BY <1>2, LeastIsOne
<1>4. PICK i \in S : t = k - i
  BY <1>1
<1>5. \A j \in S : i >= j
  <2>. SUFFICES ASSUME NEW j \in S PROVE i >= j
    OBVIOUS
  <2>1. k - j \in T
    BY <1>1
  <2>2. k - i <= k - j
    BY <1>3, <1>4, <2>1
  <2>3. QED
    BY <2>2
<1>6. QED
  BY <1>5 DEF Max

\* A list leaves owners that are upstreams.
LEMMA StoredIs ==
    ASSUME NEW s \in Snapshots, NEW listed, resourceOwner \in [URIs -> Owners]
    PROVE  Stored(s, listed) \in [URIs -> Owners]
<1>1. ASSUME NEW x \in URIs PROVE Stored(s, listed)[x] \in Owners
  <2>1. PICK from : from = {i \in DOMAIN s.ups : <<s.ups[i], x>> \in listed}
    OBVIOUS
  <2>2. Stored(s, listed)[x] = IF from = {} THEN resourceOwner[x] ELSE s.ups[Max(from)]
    BY <2>1 DEF Stored
  <2>3. CASE from = {}
    BY <2>2, <2>3
  <2>4. CASE from # {}
    <3>1. Len(s.ups) \in Nat /\ from \subseteq 1..Len(s.ups) /\ DOMAIN s.ups = 1..Len(s.ups)
      BY <2>1, RoutingAssumption
    <3>2. Max(from) \in from
      BY <2>4, <3>1, LastIsOne
    <3>3. s.ups[Max(from)] \in Servers
      BY <3>1, <3>2, RoutingAssumption
    <3>4. QED
      BY <2>2, <2>4, <3>3 DEF Owners
  <2>5. QED
    BY <2>3, <2>4
<1>2. QED
  BY <1>1 DEF Stored
\* A step replaces one request by one that keeps its invariant.
LEMMA Stepped ==
    ASSUME RoutingInv, NEW c \in Clients, NEW n \in Request, RequestInv(c, n),
           Set(c, n), snapshot' \in Snapshots, resourceOwner' \in [URIs -> Owners]
    PROVE  RoutingInv'
<1>1. req \in [Clients -> Request] /\ req' = [req EXCEPT ![c] = n]
  BY DEF RoutingInv, RoutingTypeOK, Set
<1>2. req' \in [Clients -> Request]
  BY <1>1
<1>3. ASSUME NEW d \in Clients PROVE RequestInv(d, req'[d])
  <2>1. CASE d = c
    BY <1>1, <2>1
  <2>2. CASE d # c
    <3>1. req'[d] = req[d]
      BY <1>1, <2>2
    <3>2. QED
      BY <3>1 DEF RoutingInv
  <2>3. QED
    BY <2>1, <2>2
<1>4. RoutingTypeOK'
  BY <1>2 DEF RoutingTypeOK
<1>5. QED
  BY <1>3, <1>4 DEF RoutingInv

\* No request is under way at first.
LEMMA RoutingInitInv == RoutingInit => RoutingInv
<1>. SUFFICES ASSUME RoutingInit PROVE RoutingInv
  OBVIOUS
<1>1. PICK s \in Snapshots, x \in URIs :
        Idle0 = [pc |-> "idle", op |-> "none", rt |-> s, uri |-> x, up |-> NoOwner, left |-> {},
                 denied |-> FALSE, asked |-> {}, refused |-> {}, open |-> FALSE,
                 hookOutcome |-> "", decision |-> "", answer |-> "none"]
  BY RoutingAssumption, Zenon DEF Idle0
<1>2. /\ "idle" \in Points /\ "none" \in Operations \cup {"none"} /\ NoOwner \in Owners
      /\ {} \in Groups /\ "" \in Words /\ "none" \in Answers
  BY DEF Points, Owners, Groups, Words, Answers
<1>3. Idle0 \in Request
  BY <1>1, <1>2 DEF Request
<1>4. /\ Idle0.pc = "idle" /\ Idle0.op = "none" /\ Idle0.left = {} /\ Idle0.asked = {}
      /\ Idle0.answer = "none"
  BY <1>1
<1>5. \A c : RequestInv(c, Idle0)
  BY <1>4 DEF RequestInv, Placed, Probed, Noted, Entries, CallMethods, Stages
<1>6. resourceOwner \in [URIs -> Owners] /\ snapshot \in Snapshots
  BY <1>2 DEF RoutingInit
<1>7. QED
  BY <1>3, <1>5, <1>6 DEF RoutingInit, RoutingInv, RoutingTypeOK

\* The steps of a read keep RoutingInv,
LEMMA ReadStepKeeps ==
    ASSUME RoutingInv, NEW c \in Clients, ReadStep(c) PROVE RoutingInv'
<1>. USE DEF At
<1>0. PICK r \in Request : r = req[c]
  BY DEF RoutingInv, RoutingTypeOK
<1>1. RequestInv(c, r) /\ r.rt \in Snapshots /\ r.op \in Operations \cup {"none"}
  BY <1>0 DEF RoutingInv, Request
<1>2. snapshot \in Snapshots /\ resourceOwner \in [URIs -> Owners]
  BY DEF RoutingInv, RoutingTypeOK
<1>3. \A u \in ToSet(r.rt.ups) : u \in Servers /\ u # NoOwner
  BY <1>1, Visible
<1>4. "served" \in Answers /\ "allow" \in Words /\ "denied" \in Answers /\ "deny" \in Words
      /\ "notfound" \in Answers /\ r.decision \in Words
  BY DEF Answers, Words, Request
<1>5. CASE readResource(c)
  <2>1. PICK u : u = resourceOwner[r.uri]
    OBVIOUS
  <2>2. /\ r.pc = "read" /\ UNCHANGED <<snapshot, resourceOwner>>
        /\ IF u \notin ToSet(r.rt.ups) THEN Set(c, Probing(r, c))
           ELSE IF ~authorized(c, r.rt, u) THEN Set(c, Ended(Toward(r, u), "denied", "deny"))
           ELSE Set(c, Asking(Allowed(r), u, "affinity"))
    BY <1>0, <1>5, <2>1, Zenon DEF readResource, Refuses, Ends, Asks
  <2>3. CASE u \notin ToSet(r.rt.ups)
    BY <1>1, <1>2, <2>2, <2>3, ProbingKeeps, Stepped
  <2>4. CASE u \in ToSet(r.rt.ups) /\ ~authorized(c, r.rt, u)
    BY <1>1, <1>2, <1>3, <2>2, <2>4, RefusesKeeps, Stepped
  <2>5. CASE u \in ToSet(r.rt.ups) /\ authorized(c, r.rt, u)
    <3>1. Open(c, r, u) /\ u \in Servers
      BY <1>3, <2>5 DEF Open
    <3>2. QED
      BY <1>1, <1>2, <2>2, <2>5, <3>1, AskingKeeps, Stepped
  <2>6. QED
    BY <2>3, <2>4, <2>5
<1>6. CASE AffinityServes(c)
  <2>1. r.pc = "affinity" /\ UNCHANGED <<snapshot, resourceOwner>> /\ Set(c, Ended(r, "served", "allow"))
    BY <1>0, <1>6 DEF AffinityServes, Ends
  <2>2. r.op \notin CallMethods
    BY <1>1, <2>1 DEF RequestInv, Placed, Stages
  <2>3. QED
    BY <1>1, <1>2, <1>4, <2>1, <2>2, EndedKeeps, Stepped
<1>7. CASE AffinityMisses(c)
  <2>1. r.pc = "affinity" /\ UNCHANGED <<snapshot, resourceOwner>> /\ Set(c, Probing(Refused(r), c))
    BY <1>0, <1>7 DEF AffinityMisses
  <2>2. QED
    BY <1>1, <1>2, <2>1, MissKeeps, Stepped
<1>8. CASE ProbeServes(c)
  <2>1. /\ r.pc = "probing" /\ snapshot' = snapshot /\ Set(c, Ended(r, "served", "allow"))
        /\ resourceOwner' = [resourceOwner EXCEPT ![r.uri] = r.up]
    BY <1>0, <1>8 DEF ProbeServes, Ends
  <2>2. r.op \notin CallMethods
    BY <1>1, <2>1 DEF RequestInv, Placed, Stages
  <2>3. r.up \in Owners
    BY DEF Request
  <2>4. resourceOwner' \in [URIs -> Owners]
    BY <1>2, <2>1, <2>3
  <2>5. QED
    BY <1>1, <1>2, <1>4, <2>1, <2>2, <2>4, EndedKeeps, Stepped
<1>9. CASE ProbeMisses(c)
  <2>1. r.pc = "probing" /\ UNCHANGED <<snapshot, resourceOwner>> /\ Set(c, Reaching(Refused(r), "probe"))
    BY <1>0, <1>9 DEF ProbeMisses, Reaches
  <2>2. QED
    BY <1>1, <1>2, <2>1, MissKeeps, Stepped
<1>10. CASE ProbeEnds(c)
  <2>1. /\ r.pc = "probe" /\ r.left = {} /\ UNCHANGED <<snapshot, resourceOwner>>
        /\ IF r.denied THEN Set(c, Ended(r, "denied", "deny")) ELSE Set(c, Ended(r, "notfound", r.decision))
    BY <1>0, <1>10 DEF ProbeEnds, Ends, Refuses
  <2>2. CASE r.denied
    BY <1>1, <1>2, <1>4, <2>1, <2>2, EndedKeeps, Stepped
  <2>3. CASE ~r.denied
    <3>1. visibleUpstreams(c, r.rt) \subseteq r.refused
      BY <1>1, <2>1, <2>3 DEF RequestInv, Probed
    <3>2. PICK n : n = Ended(r, "notfound", r.decision)
      OBVIOUS
    <3>3. n \in Request /\ RequestInv(c, n)
      BY <1>1, <1>4, <3>1, <3>2, EndedKeeps
    <3>4. QED
      BY <1>2, <2>1, <2>3, <3>2, <3>3, Stepped
  <2>4. QED
    BY <2>2, <2>3
<1>11. ASSUME NEW u \in Servers, Probe(c, u) PROVE RoutingInv'
  <2>1. /\ r.pc = "probe" /\ u \in r.left /\ UNCHANGED <<snapshot, resourceOwner>>
        /\ IF ~May(c, r.rt, u) THEN Set(c, [Passed(r, u) EXCEPT !.denied = TRUE])
           ELSE Set(c, Asking(Passed(r, u), u, "probing"))
    BY <1>0, <1>11, Zenon DEF Probe, IsNext, Asks
  <2>2. QED
    BY <1>1, <1>2, <2>1, ProbeKeeps, Stepped
<1>12. ASSUME NEW u \in Servers, ReadMinted(c, u) PROVE RoutingInv'
  <2>1. /\ r.pc = "ui" /\ UNCHANGED <<snapshot, resourceOwner>>
        /\ IF u \notin ToSet(r.rt.ups) THEN Set(c, Reaching(r, "read"))
           ELSE IF ~authorized(c, r.rt, u) THEN Set(c, Ended(Toward(r, u), "denied", "deny"))
           ELSE Set(c, Asking(Allowed(r), u, "minted"))
    BY <1>0, <1>12, Zenon DEF ReadMinted, Reaches, Refuses, Ends, Asks
  <2>2. CASE u \notin ToSet(r.rt.ups)
    BY <1>1, <1>2, <2>1, <2>2, ReachingKeeps, Stepped
  <2>3. CASE u \in ToSet(r.rt.ups) /\ ~authorized(c, r.rt, u)
    BY <1>1, <1>2, <2>1, <2>3, RefusesKeeps, Stepped
  <2>4. CASE u \in ToSet(r.rt.ups) /\ authorized(c, r.rt, u)
    <3>1. Open(c, r, u)
      BY <2>4 DEF Open
    <3>2. QED
      BY <1>1, <1>2, <2>1, <2>4, <3>1, AskingKeeps, Stepped
  <2>5. QED
    BY <2>2, <2>3, <2>4
<1>13. QED
  BY <1>5, <1>6, <1>7, <1>8, <1>9, <1>10, <1>11, <1>12 DEF ReadStep
\* the steps of a completion,
LEMMA OwnerStepKeeps ==
    ASSUME RoutingInv, NEW c \in Clients, OwnerStep(c) PROVE RoutingInv'
<1>. USE DEF At
<1>0. PICK r \in Request : r = req[c]
  BY DEF RoutingInv, RoutingTypeOK
<1>1. RequestInv(c, r) /\ r.rt \in Snapshots /\ r.op \in Operations \cup {"none"}
  BY <1>0 DEF RoutingInv, Request
<1>2. snapshot \in Snapshots /\ resourceOwner \in [URIs -> Owners]
  BY DEF RoutingInv, RoutingTypeOK
<1>3. \A u \in ToSet(r.rt.ups) : u \in Servers /\ u # NoOwner
  BY <1>1, Visible
<1>4. /\ "served" \in Answers /\ "error" \in Answers /\ "notfound" \in Answers
      /\ "allow" \in Words /\ "" \in Words /\ r.decision \in Words
  BY DEF Answers, Words, Request
<1>5. ASSUME NEW pc \in {"complete", "refreshed"}, complete(c, pc) PROVE RoutingInv'
  <2>1. PICK u : u = Owned(c)
    OBVIOUS
  <2>2. /\ r.pc = pc /\ u # NoOwner /\ UNCHANGED <<snapshot, resourceOwner>>
        /\ IF ~authorized(c, r.rt, u) THEN Set(c, Ended(Toward(r, u), "denied", "deny"))
           ELSE Set(c, Asking(Allowed(r), u, "completing"))
    BY <1>0, <1>5, <2>1, Zenon DEF complete, Refuses, Ends, Asks
  <2>3. u \in ToSet(r.rt.ups) /\ u \in Servers
    BY <1>0, <1>3, <2>1, <2>2 DEF Owned
  <2>4. CASE ~authorized(c, r.rt, u)
    BY <1>1, <1>2, <2>2, <2>3, <2>4, RefusesKeeps, Stepped
  <2>5. CASE authorized(c, r.rt, u)
    <3>1. Open(c, r, u)
      BY <2>3, <2>5 DEF Open
    <3>2. QED
      BY <1>1, <1>2, <2>2, <2>3, <2>5, <3>1, AskingKeeps, Stepped
  <2>6. QED
    BY <2>4, <2>5
<1>6. CASE RefreshOwners(c)
  <2>1. /\ r.pc = "complete" /\ snapshot' = snapshot /\ Set(c, Reaching(r, "refreshed"))
        /\ \E listed \in Listings(c, r.rt) : resourceOwner' = Stored(r.rt, listed)
    BY <1>0, <1>6 DEF RefreshOwners, Reaches
  <2>2. resourceOwner' \in [URIs -> Owners]
    BY <1>1, <1>2, <2>1, StoredIs
  <2>3. QED
    BY <1>1, <1>2, <2>1, <2>2, ReachingKeeps, Stepped
<1>7. CASE CompleteNotFound(c)
  <2>1. r.pc = "refreshed" /\ UNCHANGED <<snapshot, resourceOwner>> /\ Set(c, Ended(r, "notfound", ""))
    BY <1>0, <1>7 DEF CompleteNotFound, Ends
  <2>2. r.op \notin {"read", "ui"}
    BY <1>1, <2>1 DEF RequestInv, Placed
  <2>3. QED
    BY <1>1, <1>2, <1>4, <2>1, <2>2, EndedKeeps, Stepped
<1>8. CASE Serves(c)
  <2>1. /\ r.pc \in {"minted", "completing"} /\ UNCHANGED <<snapshot, resourceOwner>>
        /\ Set(c, Ended(r, "served", "allow"))
    BY <1>0, <1>8 DEF Serves, Ends
  <2>2. r.op \notin CallMethods
    BY <1>1, <2>1 DEF RequestInv, Placed, Stages
  <2>3. QED
    BY <1>1, <1>2, <1>4, <2>1, <2>2, EndedKeeps, Stepped
<1>9. CASE Fails(c)
  <2>1. UNCHANGED <<snapshot, resourceOwner>> /\ Set(c, Ended(r, "error", r.decision))
    BY <1>0, <1>9 DEF Fails, Ends
  <2>2. PICK n : n = Ended(r, "error", r.decision)
    OBVIOUS
  <2>3. n \in Request /\ RequestInv(c, n)
    BY <1>1, <1>4, <2>2, EndedKeeps
  <2>4. QED
    BY <1>2, <2>1, <2>2, <2>3, Stepped
<1>10. CASE ListResources(c)
  <2>1. /\ r.pc = "list" /\ snapshot' = snapshot /\ Set(c, Ended(AskingAll(r, c), "listed", ""))
        /\ \E listed \in Listings(c, r.rt) : resourceOwner' = Stored(r.rt, listed)
    BY <1>0, <1>10 DEF ListResources, Ends
  <2>2. resourceOwner' \in [URIs -> Owners]
    BY <1>1, <1>2, <2>1, StoredIs
  <2>3. QED
    BY <1>1, <1>2, <2>1, <2>2, ListedKeeps, Stepped
<1>11. CASE ListFails(c)
  <2>1. /\ r.pc = "list" /\ UNCHANGED <<snapshot, resourceOwner>>
        /\ Set(c, Ended(AskingAll(r, c), "down", ""))
    BY <1>0, <1>11 DEF ListFails, Ends
  <2>2. QED
    BY <1>1, <1>2, <2>1, ListedKeeps, Stepped
<1>12. QED
  BY <1>5, <1>6, <1>7, <1>8, <1>9, <1>10, <1>11 DEF OwnerStep

\* and the steps of a call through the hook.
LEMMA CallStepKeeps ==
    ASSUME RoutingInv, NEW c \in Clients, CallStep(c) PROVE RoutingInv'
<1>. USE DEF At
<1>0. PICK r \in Request : r = req[c]
  BY DEF RoutingInv, RoutingTypeOK
<1>1. RequestInv(c, r) /\ r.rt \in Snapshots
  BY <1>0 DEF RoutingInv, Request
<1>2. snapshot \in Snapshots /\ resourceOwner \in [URIs -> Owners]
  BY DEF RoutingInv, RoutingTypeOK
<1>3. ASSUME NEW u \in Servers, resolved(c, u) PROVE RoutingInv'
  <2>1. /\ r.pc = "call" /\ UNCHANGED <<snapshot, resourceOwner>>
        /\ IF u \notin ToSet(r.rt.ups) THEN Set(c, Ended(r, "unknown", ""))
           ELSE IF ~authorized(c, r.rt, u) THEN Set(c, Ended(Toward(r, u), "denied", "deny"))
           ELSE Set(c, Reaching(Allowed(Toward(r, u)), "ingress"))
    BY <1>0, <1>3, Zenon DEF resolved, Refuses, Ends, Reaches
  <2>2. CASE u \notin ToSet(r.rt.ups)
    <3>1. "unknown" \in Answers /\ "" \in Words
      BY DEF Answers, Words
    <3>2. QED
      BY <1>1, <1>2, <2>1, <2>2, <3>1, EndedKeeps, Stepped
  <2>3. CASE u \in ToSet(r.rt.ups) /\ ~authorized(c, r.rt, u)
    BY <1>1, <1>2, <2>1, <2>3, RefusesKeeps, Stepped
  <2>4. CASE u \in ToSet(r.rt.ups) /\ authorized(c, r.rt, u)
    <3>1. Open(c, r, u)
      BY <2>4 DEF Open
    <3>2. QED
      BY <1>1, <1>2, <2>1, <2>4, <3>1, ResolvedKeeps, Stepped
  <2>5. QED
    BY <2>2, <2>3, <2>4
<1>4. ASSUME NEW stage \in Stages, Hook(c, stage) PROVE RoutingInv'
  <2>1. /\ r.pc = stage /\ UNCHANGED <<snapshot, resourceOwner>>
        /\ \/ ~Inspected(r, stage) /\ Set(c, Reaching(r, Beyond(stage)))
           \/ /\ Inspected(r, stage)
              /\ \E outcome \in Outcomes0(r.rt.hook) :
                    IF outcome = "deny" THEN Set(c, Ended(Noting(r, outcome), "withheld", "deny"))
                    ELSE Set(c, Reaching(Noting(r, outcome), Beyond(stage)))
    BY <1>0, <1>4, Zenon DEF Hook, Ends, Reaches
  <2>2. CASE ~Inspected(r, stage)
    <3>1. \/ r.pc = "ingress" /\ Beyond(stage) = "call up" /\ ~Inspected(r, "ingress")
          \/ r.pc = "egress" /\ Beyond(stage) = "disclose" /\ ~Inspected(r, "egress")
      BY <2>1, <2>2 DEF Stages, Beyond
    <3>2. QED
      BY <1>1, <1>2, <2>1, <2>2, <3>1, ReachingKeeps, Stepped
  <2>3. CASE Inspected(r, stage)
    <3>1. PICK outcome \in Outcomes0(r.rt.hook) :
             IF outcome = "deny" THEN Set(c, Ended(Noting(r, outcome), "withheld", "deny"))
             ELSE Set(c, Reaching(Noting(r, outcome), Beyond(stage)))
      BY <2>1, <2>3
    <3>2. outcome \in {"allow", "deny", "error"}
      BY DEF Outcomes0
    <3>3. QED
      BY <1>1, <1>2, <2>1, <2>3, <3>1, <3>2, HookKeeps, Stepped
  <2>4. QED
    BY <2>2, <2>3
<1>5. CASE CallUp(c)
  <2>1. r.pc = "call up" /\ UNCHANGED <<snapshot, resourceOwner>> /\ Set(c, Asking(r, r.up, "calling"))
    BY <1>0, <1>5 DEF CallUp, Asks
  <2>2. QED
    BY <1>1, <1>2, <2>1, CallUpKeeps, Stepped
<1>6. CASE CallReturns(c)
  <2>1. r.pc = "calling" /\ UNCHANGED <<snapshot, resourceOwner>> /\ Set(c, Reaching(r, "egress"))
    BY <1>0, <1>6 DEF CallReturns, Reaches
  <2>2. QED
    BY <1>1, <1>2, <2>1, ReachingKeeps, Stepped
<1>7. CASE Disclose(c)
  <2>1. r.pc = "disclose" /\ UNCHANGED <<snapshot, resourceOwner>> /\ Set(c, Ended(r, "served", "allow"))
    BY <1>0, <1>7 DEF Disclose, Ends
  <2>2. "served" \in Answers /\ "allow" \in Words
    BY DEF Answers, Words
  <2>3. QED
    BY <1>1, <1>2, <2>1, <2>2, EndedKeeps, Stepped
<1>8. QED
  BY <1>3, <1>4, <1>5, <1>6, <1>7 DEF CallStep

\* RoutingInv holds throughout.
LEMMA RoutingInvariant == RoutingSpec => []RoutingInv
<1>1. RoutingInit => RoutingInv
  BY RoutingInitInv
<1>2. RoutingInv /\ [RoutingNext]_rvars => RoutingInv'
  <2>. SUFFICES ASSUME RoutingInv, [RoutingNext]_rvars PROVE RoutingInv'
    OBVIOUS
  <2>1. ASSUME NEW s \in Snapshots, Reroute(s) PROVE RoutingInv'
    BY <2>1 DEF Reroute, RoutingInv, RoutingTypeOK
  <2>2. ASSUME NEW c \in Clients, NEW op \in Operations, NEW x \in URIs, Route(c, op, x)
        PROVE  RoutingInv'
    <3>1. snapshot \in Snapshots /\ resourceOwner \in [URIs -> Owners]
      BY DEF RoutingInv, RoutingTypeOK
    <3>2. PICK n : n = Started(op, x, snapshot)
      OBVIOUS
    <3>3. Set(c, n) /\ UNCHANGED <<snapshot, resourceOwner>>
      BY <2>2, <3>2 DEF Route
    <3>4. n \in Request /\ RequestInv(c, n)
      BY <3>1, <3>2, StartedKeeps
    <3>5. QED
      BY <3>1, <3>3, <3>4, Stepped
  <2>3. CASE UNCHANGED rvars
    BY <2>3 DEF rvars, RoutingInv, RoutingTypeOK
  <2>4. QED
    BY <2>1, <2>2, <2>3, ReadStepKeeps, OwnerStepKeeps, CallStepKeeps DEF RoutingNext
<1>3. QED
  BY <1>1, <1>2, PTL DEF RoutingSpec

\* The shared owner index leads a request of no client to an upstream that the
\* snapshot it started in does not show to the client's tenant or, beyond a
\* list, that policy denies it; and a read that reports the resource missing
\* asked every upstream it could have (readResource, ownerForURI).
THEOREM ReadsSoundCorrect == RoutingSpec => []ReadsSound
<1>1. RoutingInv => ReadsSound
  <2>. SUFFICES ASSUME RoutingInv PROVE ReadsSound
    OBVIOUS
  <2>1. Confined
    BY DEF RoutingInv, RequestInv, Placed, Open, authorized, Confined
  <2>2. MissIsMiss
    BY DEF RoutingInv, RequestInv, Probed, MissIsMiss
  <2>3. QED
    BY <2>1, <2>2 DEF RoutingInv, ReadsSound
<1>2. QED
  BY <1>1, RoutingInvariant, PTL

\* A call disclosed although a stage of the decision hook failed open says so in
\* its audit event, and the event has an outcome of the hook exactly if the call
\* was to be inspected at one of its stages (hook.go, inspects).
THEOREM UninspectedIsRecordedCorrect == RoutingSpec => []UninspectedIsRecorded
<1>1. RoutingInv => UninspectedIsRecorded
  <2>. SUFFICES ASSUME RoutingInv, NEW c \in Clients,
                       req[c].op \in CallMethods, req[c].answer = "served"
                PROVE  /\ req[c].open <=> req[c].hookOutcome = "error"
                       /\ req[c].hookOutcome # "" <=> \E stage \in Stages : Inspected(req[c], stage)
    BY DEF UninspectedIsRecorded
  <2>1. Noted(req[c])
    BY DEF RoutingInv, RequestInv
  <2>2. QED
    BY <2>1 DEF Noted, Stages
<1>2. QED
  BY <1>1, RoutingInvariant, PTL
-----------------------------------------------------------------------------
(* Paging.                                                                 *)

\* A walk in progress holds the first pages of the list its cursor names.
UnderWay(c) ==
    LET w == walk[c]
    IN  w.cursor # NoCursor =>
          \E g : \E k \in 1..Len(g) :
            /\ g \in Seq(ToSet(g))
            /\ w.cursor = Cursor(k, g, c)
            /\ w.got = SubSeq(g, 1, k)

PagingInv == PagingTypeOK /\ \A c \in Listers : UnderWay(c)

\* What shaping leaves of a merged list is a sequence.
LEMMA FilteredIs ==
    ASSUME PagingTypeOK, NEW c
    PROVE  Filtered(c).items \in Seq(ToSet(Filtered(c).items))
<1>1. Len(merged) \in Nat /\ DOMAIN merged = 1..Len(merged)
  BY PagingAssumption DEF PagingTypeOK
<1>2. IsFiniteSet(1..Len(merged))
  BY <1>1, FS_Interval
<1>3. Admitted(c) \subseteq 1..Len(merged)
  BY <1>1 DEF Admitted, Shown
<1>4. Cardinality(Admitted(c)) \in Nat
  BY <1>2, <1>3, FS_Subset, FS_CardinalityType
<1>5. PICK g : g = Filtered(c).items
  OBVIOUS
<1>6. PICK n \in Nat : n = Cardinality(Admitted(c))
  BY <1>4
<1>7. g = [k \in 1..n |-> merged[Nth(Admitted(c), k)]]
  BY <1>5, <1>6 DEF Filtered
<1>8. DOMAIN g = 1..n /\ ToSet(g) = {g[k] : k \in 1..n}
  BY <1>7 DEF ToSet
<1>9. g \in Seq(ToSet(g))
  <2>1. \A k \in 1..n : g[k] \in ToSet(g)
    BY <1>8
  <2>2. g \in [1..n -> ToSet(g)]
    BY <1>7, <1>8, <2>1
  <2>3. QED
    BY <2>2
<1>10. QED
  BY <1>5, <1>9

\* Pages put together are the list up to where the last one ends.
LEMMA Joined ==
    ASSUME NEW S, NEW g \in Seq(S), NEW k \in 0..Len(g), NEW m \in k..Len(g)
    PROVE  SubSeq(g, 1, k) \o SubSeq(g, k + 1, m) = SubSeq(g, 1, m)
  OBVIOUS

\* The whole of a sequence, and none of it.
LEMMA WholeIs ==
    ASSUME NEW S, NEW g \in Seq(S) PROVE SubSeq(g, 1, Len(g)) = g /\ SubSeq(g, 1, 0) = <<>>
  OBVIOUS
\* A cursor is not the absence of one.
LEMMA CursorIsOne == ASSUME NEW k, NEW g, NEW c PROVE Cursor(k, g, c) # NoCursor
<1>1. "offset" \in DOMAIN Cursor(k, g, c)
  BY DEF Cursor
<1>2. "offset" \notin DOMAIN NoCursor
  <2>1. DOMAIN NoCursor = {}
    BY DEF NoCursor
  <2>2. QED
    BY <2>1
<1>3. QED
  BY <1>1, <1>2

\* What a request adds to the pages held: the rest of the list, or a cursor to
\* where they now end.
Continues(a, pages, g, c) ==
    a.ok => \/ a.next = NoCursor /\ pages \o a.page = g
            \/ \E m \in 1..Len(g) : a.next = Cursor(m, g, c) /\ pages \o a.page = SubSeq(g, 1, m)

\* A listing without a cursor begins the list.
LEMMA FirstPage ==
    ASSUME NEW S, NEW g \in Seq(S), NEW c
    PROVE  Continues(paginate(g, NoCursor, c), <<>>, g, c)
<1>1. PICK a : a = paginate(g, NoCursor, c)
  OBVIOUS
<1>2. PICK end : end = IF 0 + PageSize < Len(g) THEN 0 + PageSize ELSE Len(g)
  OBVIOUS
<1>3. Len(g) \in Nat /\ PageSize \in Int
  BY PagingAssumption
<1>4. CASE PageSize <= 0 \/ Len(g) <= PageSize
  <2>1. a = Answer(g, NoCursor)
    BY <1>1, <1>3, <1>4 DEF paginate
  <2>2. a.next = NoCursor /\ a.page = g
    BY <2>1 DEF Answer
  <2>3. <<>> \o g = g
    OBVIOUS
  <2>4. QED
    BY <1>1, <2>2, <2>3 DEF Continues
<1>5. CASE PageSize > 0 /\ PageSize < Len(g)
  <2>1. end = PageSize /\ end \in 1..Len(g) /\ end < Len(g)
    BY <1>2, <1>3, <1>5
  <2>2. a = Answer(SubSeq(g, 1, end), Cursor(end, g, c))
    <3>1. ~(PageSize <= 0) /\ ~(Len(g) <= PageSize) /\ 0 + PageSize < Len(g) /\ 0 + 1 = 1 /\ 0 + PageSize = end
      BY <1>3, <1>5, <2>1
    <3>2. QED
      BY <1>1, <2>1, <3>1 DEF paginate
  <2>3. a.page = SubSeq(g, 1, end) /\ a.next = Cursor(end, g, c)
    BY <2>2 DEF Answer
  <2>4. <<>> \o SubSeq(g, 1, end) = SubSeq(g, 1, end)
    BY <2>1
  <2>5. QED
    BY <1>1, <2>1, <2>3, <2>4 DEF Continues
<1>6. QED
  BY <1>3, <1>4, <1>5

\* A listing with the cursor of the same list goes on where it stopped.
LEMMA NextPage ==
    ASSUME NEW S, NEW g \in Seq(S), NEW c, NEW k \in 1..Len(g)
    PROVE  Continues(paginate(g, Cursor(k, g, c), c), SubSeq(g, 1, k), g, c)
<1>1. PICK cur : cur = Cursor(k, g, c)
  OBVIOUS
<1>2. cur # NoCursor /\ cur.offset = k /\ cur.gen = g /\ cur.caller = c
  <2>1. cur.offset = k /\ cur.gen = g /\ cur.caller = c
    BY <1>1 DEF Cursor
  <2>2. QED
    BY <1>1, <2>1, CursorIsOne
<1>3. PICK a : a = paginate(g, cur, c)
  OBVIOUS
<1>4. Len(g) \in Nat /\ PageSize \in Int
  BY PagingAssumption
<1>5. CASE PageSize <= 0
  <2>1. a = errBadCursor
    BY <1>2, <1>3, <1>5 DEF paginate
  <2>2. QED
    BY <1>1, <1>3, <2>1 DEF errBadCursor, Continues
<1>6. CASE PageSize > 0
  <2>1. PICK end : end = IF k + PageSize < Len(g) THEN k + PageSize ELSE Len(g)
    OBVIOUS
  <2>2. end \in k..Len(g) /\ end \in 1..Len(g) /\ ~(PageSize <= 0)
    BY <1>4, <1>6, <2>1
  <2>3. Accepts(cur, g, c)
    BY <1>2 DEF Accepts
  <2>4. a = Answer(SubSeq(g, k + 1, end), IF end < Len(g) THEN Cursor(end, g, c) ELSE NoCursor)
    BY <1>2, <1>3, <2>1, <2>2, <2>3 DEF paginate
  <2>5. a.page = SubSeq(g, k + 1, end) /\ a.next = IF end < Len(g) THEN Cursor(end, g, c) ELSE NoCursor
    BY <2>4 DEF Answer
  <2>6. SubSeq(g, 1, k) \o a.page = SubSeq(g, 1, end)
    BY <2>2, <2>5, Joined
  <2>7. CASE end < Len(g)
    BY <1>1, <1>3, <2>2, <2>5, <2>6, <2>7 DEF Continues
  <2>8. CASE ~(end < Len(g))
    <3>1. end = Len(g)
      BY <1>4, <2>2, <2>8
    <3>2. SubSeq(g, 1, end) = g
      BY <3>1, WholeIs
    <3>3. QED
      BY <1>1, <1>3, <2>5, <2>6, <2>8, <3>2 DEF Continues
  <2>9. QED
    BY <2>7, <2>8
<1>7. QED
  BY <1>4, <1>5, <1>6
\* A cursor of an earlier list, or of another caller, is refused.
LEMMA StaleCursor ==
    ASSUME NEW g, NEW c, NEW k, NEW h, NEW d, h # g \/ d # c
    PROVE  paginate(g, Cursor(k, h, d), c) = errBadCursor
<1>1. PICK cur : cur = Cursor(k, h, d)
  OBVIOUS
<1>2. cur.gen = h /\ cur.caller = d
  BY <1>1 DEF Cursor
<1>3. cur # NoCursor
  BY <1>1, CursorIsOne
<1>4. ~Accepts(cur, g, c)
  BY <1>2 DEF Accepts
<1>5. paginate(g, cur, c) = errBadCursor
  BY <1>3, <1>4, Zenon DEF paginate
<1>6. QED
  BY <1>1, <1>5

\* A listing keeps PagingInv, and completes only the list it walked.
LEMMA ListStep ==
    ASSUME PagingInv, NEW c \in Listers, NEW d \in Listers, List(c, d)
    PROVE  /\ PagingInv'
           /\ \A b \in Listers : walk'[b] # walk[b] /\ walk'[b].seen = "whole" =>
                                    walk'[b].got = Filtered(b).items
<1>1. PICK g : g = Filtered(c).items
  OBVIOUS
<1>2. g \in Seq(ToSet(g))
  BY <1>1, FilteredIs DEF PagingInv
<1>3. PICK cursor : cursor = walk[d].cursor
  OBVIOUS
<1>4. PICK pages : pages = IF cursor = NoCursor THEN <<>> ELSE walk[c].got
  OBVIOUS
<1>5. PICK a : a = paginate(g, cursor, c)
  OBVIOUS
<1>6. /\ walk' = [walk EXCEPT ![c] =
                    IF ~a.ok THEN [cursor |-> NoCursor, got |-> <<>>, seen |-> "restart"]
                    ELSE [cursor |-> a.next, got |-> pages \o a.page,
                          seen |-> IF a.next = NoCursor THEN "whole" ELSE "more"]]
      /\ merged' = merged
  BY <1>1, <1>3, <1>4, <1>5 DEF List
<1>7. Continues(a, pages, g, c)
  <2>1. CASE cursor = NoCursor
    BY <1>2, <1>4, <1>5, <2>1, FirstPage
  <2>2. CASE cursor # NoCursor
    <3>1. PICK h : \E k \in 1..Len(h) : /\ h \in Seq(ToSet(h))
                                          /\ cursor = Cursor(k, h, d)
                                          /\ walk[d].got = SubSeq(h, 1, k)
      BY <1>3, <2>2 DEF PagingInv, UnderWay
    <3>2. PICK k \in 1..Len(h) : cursor = Cursor(k, h, d) /\ walk[d].got = SubSeq(h, 1, k)
      BY <3>1
    <3>3. CASE h # g \/ d # c
      <4>1. a = errBadCursor
        BY <1>5, <3>2, <3>3, StaleCursor
      <4>2. QED
        BY <4>1 DEF errBadCursor, Continues
    <3>4. CASE h = g /\ d = c
      <4>1. pages = SubSeq(g, 1, k) /\ a = paginate(g, Cursor(k, g, c), c) /\ k \in 1..Len(g)
        BY <1>4, <1>5, <2>2, <3>2, <3>4
      <4>2. QED
        BY <1>2, <4>1, NextPage
    <3>5. QED
      BY <3>3, <3>4
  <2>3. QED
    BY <2>1, <2>2
<1>8. PICK w : w = IF ~a.ok THEN [cursor |-> NoCursor, got |-> <<>>, seen |-> "restart"]
                   ELSE [cursor |-> a.next, got |-> pages \o a.page,
                         seen |-> IF a.next = NoCursor THEN "whole" ELSE "more"]
  OBVIOUS
<1>9. walk' = [walk EXCEPT ![c] = w]
  BY <1>6, <1>8
<1>10. DOMAIN walk = Listers
  BY DEF PagingInv, PagingTypeOK
<1>11. walk'[c] = w /\ \A b \in Listers : b # c => walk'[b] = walk[b]
  BY <1>9, <1>10
<1>12. /\ w.seen \in {"none", "more", "whole", "restart"}
       /\ w.seen = "whole" => w.got = g
       /\ w.cursor # NoCursor => \E k \in 1..Len(g) : w.cursor = Cursor(k, g, c) /\ w.got = SubSeq(g, 1, k)
  <2>1. CASE ~a.ok
    <3>1. w.cursor = NoCursor /\ w.seen = "restart"
      BY <1>8, <2>1
    <3>2. QED
      BY <3>1
  <2>2. CASE a.ok
    <3>1. /\ w.cursor = a.next /\ w.got = pages \o a.page
          /\ w.seen = IF a.next = NoCursor THEN "whole" ELSE "more"
      BY <1>8, <2>2
    <3>2. CASE a.next = NoCursor /\ pages \o a.page = g
      BY <3>1, <3>2
    <3>3. ASSUME NEW m \in 1..Len(g), a.next = Cursor(m, g, c), pages \o a.page = SubSeq(g, 1, m)
          PROVE  /\ w.seen \in {"none", "more", "whole", "restart"}
                 /\ w.seen = "whole" => w.got = g
                 /\ w.cursor # NoCursor =>
                      \E k \in 1..Len(g) : w.cursor = Cursor(k, g, c) /\ w.got = SubSeq(g, 1, k)
      <4>1. a.next # NoCursor
        BY <3>3, CursorIsOne
      <4>2. w.seen = "more" /\ w.cursor = Cursor(m, g, c) /\ w.got = SubSeq(g, 1, m)
        BY <3>1, <3>3, <4>1
      <4>3. QED
        BY <4>2
    <3>4. QED
      BY <1>7, <2>2, <3>2, <3>3 DEF Continues
  <2>3. QED
    BY <2>1, <2>2
<1>13. PagingTypeOK'
  BY <1>6, <1>9, <1>10, <1>11, <1>12 DEF PagingInv, PagingTypeOK
<1>14. ASSUME NEW b \in Listers PROVE UnderWay(b)'
  <2>1. CASE b = c
    <3>1. walk'[b] = w
      BY <1>11, <2>1
    <3>2. w.cursor # NoCursor =>
            \E h : \E k \in 1..Len(h) :
              h \in Seq(ToSet(h)) /\ w.cursor = Cursor(k, h, c) /\ w.got = SubSeq(h, 1, k)
      <4>. SUFFICES ASSUME w.cursor # NoCursor
                    PROVE  \E k \in 1..Len(g) : /\ g \in Seq(ToSet(g)) /\ w.cursor = Cursor(k, g, c)
                                                  /\ w.got = SubSeq(g, 1, k)
        OBVIOUS
      <4>1. QED
        BY <1>2, <1>12
    <3>3. QED
      BY <2>1, <3>1, <3>2 DEF UnderWay
  <2>2. CASE b # c
    <3>1. walk'[b] = walk[b]
      BY <1>11, <2>2
    <3>2. UnderWay(b)
      BY DEF PagingInv
    <3>3. QED
      BY <3>1, <3>2, Zenon DEF UnderWay
  <2>3. QED
    BY <2>1, <2>2
<1>15. QED
  BY <1>1, <1>11, <1>12, <1>13, <1>14 DEF PagingInv

\* A caller that pages to the end without being told to restart holds exactly
\* its filtered list, whatever the upstreams and other callers did meanwhile
\* (paginate, listFilter.decide).
THEOREM WalkIsWholeCorrect == PagingSpec => WalkIsWhole
<1>. DEFINE Ending == \A c \in Listers : walk'[c] # walk[c] /\ walk'[c].seen = "whole" =>
                                           walk'[c].got = Filtered(c).items
<1>1. PagingInit => PagingInv
  <2>. SUFFICES ASSUME PagingInit PROVE PagingInv
    OBVIOUS
  <2>1. DOMAIN walk = Listers /\ \A c \in Listers : walk[c].cursor = NoCursor /\ walk[c].seen = "none"
    BY DEF PagingInit, NewWalk
  <2>2. QED
    BY <2>1 DEF PagingInit, PagingInv, PagingTypeOK, UnderWay
<1>2. PagingInv /\ [PagingNext]_gvars => PagingInv' /\ [Ending]_gvars
  <2>. SUFFICES ASSUME PagingInv, [PagingNext]_gvars PROVE PagingInv' /\ Ending
    OBVIOUS
  <2>1. ASSUME NEW m \in Merges, Relist(m) PROVE PagingInv' /\ Ending
    BY <2>1 DEF Relist, PagingInv, PagingTypeOK, UnderWay
  <2>2. ASSUME NEW c \in Listers, NEW d \in Listers, List(c, d) PROVE PagingInv' /\ Ending
    BY <2>2, ListStep
  <2>3. CASE UNCHANGED gvars
    BY <2>3 DEF gvars, PagingInv, PagingTypeOK, UnderWay
  <2>4. QED
    BY <2>1, <2>2, <2>3 DEF PagingNext
<1>3. PagingInv => PagingTypeOK
  BY DEF PagingInv
<1>4. QED
  BY <1>1, <1>2, <1>3, PTL DEF PagingSpec, WalkIsWhole
-----------------------------------------------------------------------------
(* Config.                                                                 *)

\* What was discovered passed the check of the document in force, which is valid
\* and has the discovery section that every reload must keep.
SecretsInv ==
    /\ ConfigTypeOK
    /\ Validate(running)
    /\ base.discovery = running.discovery
    /\ found # <<>> => /\ running.discovery # Nil
                       /\ checkDiscoveredCredentials(running.discovery, found)

\* applyLocked refuses a reload that changes the discovery section.
LEMMA WiringKept ==
    ASSUME NEW d \in Configurations, NEW e \in Configurations, SameWiring(d, e)
    PROVE  d.discovery = e.discovery
<1>1. d = [s \in Sections |-> d[s]] /\ "discovery" \in Sections
  BY ConfigAssumption DEF Sections
<1>. DEFINE x == [d EXCEPT !.ups = e.ups]
            y == [x EXCEPT !.tenants = e.tenants]
            z == [y EXCEPT !.policy = e.policy]
<1>2. x.discovery = d.discovery /\ x = [s \in Sections |-> x[s]]
  BY <1>1
<1>3. y.discovery = x.discovery /\ y = [s \in Sections |-> y[s]]
  BY <1>1, <1>2
<1>4. z.discovery = y.discovery
  BY <1>1, <1>3
<1>5. z = e
  BY DEF SameWiring
<1>6. QED
  BY <1>2, <1>3, <1>4, <1>5

\* A validated document and an empty registry satisfy SecretsInv.
LEMMA SecretsInit == ConfigInit => SecretsInv
  BY DEF ConfigInit, SecretsInv, ConfigTypeOK

\* Every step of a reload and of discovery keeps SecretsInv.
LEMMA SecretsStep == SecretsInv /\ [ConfigNext]_fvars => SecretsInv'
<1>. SUFFICES ASSUME SecretsInv, [ConfigNext]_fvars PROVE SecretsInv'
  OBVIOUS
<1>1. ASSUME NEW d \in Configurations, Reconfigure(d) PROVE SecretsInv'
  <2>1. base' = d /\ UNCHANGED <<running, found>> /\ SameWiring(d, running)
    BY <1>1 DEF Reconfigure
  <2>2. d.discovery = running.discovery
    BY <2>1, WiringKept DEF SecretsInv, ConfigTypeOK
  <2>3. QED
    BY <2>1, <2>2 DEF SecretsInv, ConfigTypeOK
<1>2. ASSUME NEW ups \in Found, Discover(ups) PROVE SecretsInv'
  BY <1>2 DEF Discover, SecretsInv, ConfigTypeOK
<1>3. CASE UNCHANGED fvars
  BY <1>3 DEF fvars, SecretsInv, ConfigTypeOK
<1>4. QED
  BY <1>1, <1>2, <1>3 DEF ConfigNext

\* checkDiscoveredCredentials and Validate ("the two halves are only meaningful
\* together"), for all documents and whatever discovery finds: a discovered
\* upstream uses listed secrets only, and sends them to listed hosts only.
THEOREM SecretsConfinedCorrect == ConfigSpec => []SecretsConfined
<1>1. SecretsInv => SecretsConfined
  <2>. SUFFICES ASSUME SecretsInv, NEW i \in DOMAIN found,
                       running.discovery.secretRefs # Nil, found[i].secrets # {}
                PROVE  /\ found[i].secrets \subseteq running.discovery.secretRefs
                       /\ running.discovery.credentialHosts # Nil
                       /\ SentTo(found[i]) \subseteq running.discovery.credentialHosts
    BY DEF SecretsConfined
  <2>1. found # <<>>
    OBVIOUS
  <2>2. running.discovery # Nil /\ checkDiscoveredCredentials(running.discovery, found)
    BY <2>1 DEF SecretsInv
  <2>3. found[i].secrets \subseteq running.discovery.secretRefs
    BY <2>2 DEF checkDiscoveredCredentials, Permits
  <2>4. running.discovery.credentialHosts # Nil
    BY <2>2, <2>3 DEF SecretsInv, Validate, ValidDiscovery
  <2>5. QED
    BY <2>2, <2>3, <2>4 DEF checkDiscoveredCredentials, Permits
<1>2. QED
  BY <1>1, SecretsInit, SecretsStep, PTL DEF ConfigSpec

\* Where the elements of two sequences are once they are joined.
JoinOf(u, s, t, S) ==
    /\ u \in Seq(S) /\ Len(u) = Len(s) + Len(t)
    /\ \A k \in 1..Len(s) : u[k] = s[k]
    /\ \A k \in 1..Len(t) : u[Len(s) + k] = t[k]

\* Joining sequences of one kind.
LEMMA JoinIs ==
    ASSUME NEW S, NEW s \in Seq(S), NEW t \in Seq(S)
    PROVE  JoinOf(s \o t, s, t, S)
  BY DEF JoinOf

\* The first element of a part of a sequence.
LEMMA FirstOfPart ==
    ASSUME NEW S, NEW s \in Seq(S), NEW j \in 1..Len(s), NEW e \in j..Len(s)
    PROVE  SubSeq(s, j, e)[1] = s[j]
<1>1. PICK x : x = SubSeq(s, j, e)
  OBVIOUS
<1>2. \A i \in 1..(e - j + 1) : x[i] = s[j + i - 1]
  BY <1>1
<1>3. 1 \in 1..(e - j + 1) /\ j + 1 - 1 = j
  OBVIOUS
<1>4. QED
  BY <1>1, <1>2, <1>3

\* A name is cut where its namespace ends when nothing of the namespace can
\* begin the separator.
LEMMA CutAtEnd ==
    ASSUME NEW a \in Seq(Chars), NEW sep \in Seq(Chars), NEW b \in Seq(Chars), sep # <<>>,
           \A k \in 1..Len(a) : a[k] # sep[1]
    PROVE  Cut(a \o sep \o b, sep) = [found |-> TRUE, before |-> a, after |-> b]
<1>1. PICK s : s = a \o sep \o b
  OBVIOUS
<1>2. PICK m \in Nat : m = Len(a)
  OBVIOUS
<1>3. PICK l \in Nat : l = Len(sep)
  OBVIOUS
<1>4. PICK n \in Nat : n = Len(b)
  OBVIOUS
<1>5. l >= 1
  BY <1>3
<1>6. /\ s \in Seq(Chars) /\ Len(s) = m + l + n
      /\ \A k \in 1..m : s[k] = a[k]
      /\ \A k \in 1..l : s[m + k] = sep[k]
      /\ \A k \in 1..n : s[m + l + k] = b[k]
  <2>1. PICK t : t = a \o sep
    OBVIOUS
  <2>2. /\ t \in Seq(Chars) /\ Len(t) = m + l
        /\ \A k \in 1..m : t[k] = a[k]
        /\ \A k \in 1..l : t[m + k] = sep[k]
    <3>1. JoinOf(t, a, sep, Chars)
      BY <2>1, JoinIs
    <3>2. QED
      BY <1>2, <1>3, <3>1 DEF JoinOf
  <2>3. s = t \o b
    BY <1>1, <2>1
  <2>4. /\ s \in Seq(Chars) /\ Len(s) = m + l + n
        /\ \A k \in 1..(m + l) : s[k] = t[k]
        /\ \A k \in 1..n : s[m + l + k] = b[k]
    <3>1. JoinOf(s, t, b, Chars)
      BY <2>2, <2>3, JoinIs
    <3>2. QED
      BY <1>4, <2>2, <3>1 DEF JoinOf
  <2>5. ASSUME NEW k \in 1..l PROVE s[m + k] = sep[k]
    <3>1. m + k \in 1..(m + l)
      OBVIOUS
    <3>2. QED
      BY <2>2, <2>4, <3>1
  <2>6. \A k \in 1..m : s[k] = a[k]
    <3>1. \A k \in 1..m : k \in 1..(m + l)
      OBVIOUS
    <3>2. QED
      BY <2>2, <2>4, <3>1, Zenon
  <2>7. QED
    BY <2>4, <2>5, <2>6
<1>7. SubSeq(s, 1, m) = a
  <2>1. PICK x : x = SubSeq(s, 1, m)
    OBVIOUS
  <2>2. x \in Seq(Chars) /\ Len(x) = m /\ \A k \in 1..m : x[k] = s[k]
    BY <1>6, <2>1
  <2>3. x = a
    BY <1>2, <1>6, <2>2, SeqEqual
  <2>4. QED
    BY <2>1, <2>3
<1>8. SubSeq(s, m + 1, m + l) = sep
  <2>1. PICK x : x = SubSeq(s, m + 1, m + l)
    OBVIOUS
  <2>2. x \in Seq(Chars) /\ Len(x) = l /\ \A k \in 1..l : x[k] = s[m + k]
    BY <1>5, <1>6, <2>1
  <2>3. x = sep
    BY <1>3, <1>6, <2>2, SeqEqual
  <2>4. QED
    BY <2>1, <2>3
<1>9. SubSeq(s, m + l + 1, m + l + n) = b
  <2>0. PICK o \in Nat : o = m + l
    OBVIOUS
  <2>1. PICK x : x = SubSeq(s, o + 1, o + n)
    OBVIOUS
  <2>2. x \in Seq(Chars) /\ Len(x) = n /\ \A k \in 1..n : x[k] = s[m + l + k]
    <3>1. Len(s) = o + n /\ s \in Seq(Chars)
      BY <1>6, <2>0
    <3>2. x \in Seq(Chars) /\ Len(x) = n /\ \A k \in 1..n : x[k] = s[o + k]
      BY <2>1, <3>1
    <3>3. QED
      BY <2>0, <3>2
  <2>3. x = b
    BY <1>4, <1>6, <2>2, SeqEqual
  <2>4. QED
    BY <2>0, <2>1, <2>3
<1>10. m + 1 \in Occurrences(s, sep)
  <2>1. PICK e : e = Len(s)
    OBVIOUS
  <2>2. e = m + l + n /\ Len(sep) = l
    BY <1>3, <1>6, <2>1
  <2>3. m + 1 \in 1..(e - l + 1) /\ (m + 1) + l - 1 = m + l
    BY ONLY <2>2, m \in Nat, l \in Nat, n \in Nat
  <2>4. QED
    BY <1>8, <2>1, <2>2, <2>3, Zenon DEF Occurrences
<1>11. ASSUME NEW j \in Occurrences(s, sep) PROVE m + 1 <= j
  <2>1. j \in 1..(m + n + 1) /\ SubSeq(s, j, j + l - 1) = sep
    BY <1>3, <1>6 DEF Occurrences
  <2>2. s[j] = sep[1]
    <3>1. j \in 1..Len(s) /\ j + l - 1 \in j..Len(s)
      BY <1>5, <1>6, <2>1
    <3>2. s \in Seq(Chars)
      BY <1>6
    <3>3. SubSeq(s, j, j + l - 1)[1] = s[j]
      BY <3>1, <3>2, FirstOfPart
    <3>4. QED
      BY <2>1, <3>3
  <2>3. CASE j <= m
    <3>1. j \in 1..m
      BY <2>1, <2>3
    <3>2. s[j] = a[j]
      BY <1>6, <3>1
    <3>3. QED
      BY <1>2, <2>2, <3>1, <3>2
  <2>4. QED
    BY <2>1, <2>3
<1>12. Occurrences(s, sep) # {} /\ \A j \in Occurrences(s, sep) : j \in Int
  <2>1. Len(s) \in Int /\ Len(sep) \in Int
    BY <1>6
  <2>2. Occurrences(s, sep) # {}
    BY <1>10
  <2>3. Occurrences(s, sep) \subseteq 1..(Len(s) - Len(sep) + 1)
    BY DEF Occurrences
  <2>4. \A j \in 1..(Len(s) - Len(sep) + 1) : j \in Int
    BY ONLY <2>1
  <2>5. QED
    BY <2>2, <2>3, <2>4
<1>13. (CHOOSE i \in Occurrences(s, sep) : \A j \in Occurrences(s, sep) : i <= j) = m + 1
  <2>. DEFINE First1(i) == i \in Occurrences(s, sep) /\ \A j \in Occurrences(s, sep) : i <= j
  <2>1. First1(m + 1)
    BY <1>10, <1>11
  <2>2. ASSUME NEW i, First1(i) PROVE i = m + 1
    BY <1>10, <1>11, <1>12, <2>2
  <2>. HIDE DEF First1
  <2>3. (CHOOSE i : First1(i)) = m + 1
    BY <2>1, <2>2
  <2>4. QED
    BY <2>3 DEF First1
<1>14. Cut(s, sep) = [found |-> TRUE, before |-> SubSeq(s, 1, (m + 1) - 1), after |-> SubSeq(s, (m + 1) + l, m + l + n)]
  BY <1>3, <1>6, <1>12, <1>13, Zenon DEF Cut
<1>15. (m + 1) - 1 = m /\ (m + 1) + l = m + l + 1
  OBVIOUS
<1>16. QED
  BY <1>1, <1>7, <1>9, <1>14, <1>15

\* The upstream a valid document gives a namespace to is found by it, and what
\* follows the separator, or the slash of a UI address, is the rest.
LEMMA NamesLead ==
    ASSUME NEW d, Upstreams(d.ups), d.sep \in Seq(Chars) \ {<<>>},
           ValidUpstreams(d), ValidSeparator(d),
           NEW i \in DOMAIN d.ups, NEW text \in Seq(Chars)
    PROVE  /\ resolve(d, publicName(d, d.ups[i], text)) = <<i, text>>
           /\ d.ups[i].ns # Nil /\ text # <<>> => uiOwner(d, mintUIURI(d.ups[i], text)) = <<i, text>>
<1>1. DOMAIN d.ups = 1..Len(d.ups) /\ Len(d.ups) \in Nat
  BY DEF Upstreams
<1>2. CASE d.ups[i].ns = Nil
  <2>1. ~(Len(d.ups) > 1)
    BY <1>2 DEF ValidUpstreams
  <2>2. Len(d.ups) = 1 /\ i = 1
    <3>1. PICK n \in Nat : n = Len(d.ups)
      BY <1>1
    <3>2. i \in 1..n /\ ~(n > 1)
      BY <1>1, <2>1, <3>1
    <3>3. n = 1 /\ i = 1
      BY ONLY <3>2, n \in Nat
    <3>4. QED
      BY <3>1, <3>3
  <2>3. Passthrough(d)
    BY <1>2, <2>2 DEF Passthrough
  <2>4. QED
    BY <1>2, <2>2, <2>3 DEF resolve, publicName
<1>3. CASE d.ups[i].ns # Nil
  <2>1. PICK ns : ns = d.ups[i].ns
    OBVIOUS
  <2>2. ns \in Seq(Chars) /\ ns # <<>> /\ Range(ns) = {NsChar}
    BY <1>3, <2>1 DEF Upstreams, ValidUpstreams
  <2>3. \A k \in 1..Len(ns) : ns[k] = NsChar
    <3>1. DOMAIN ns = 1..Len(ns)
      BY <2>2
    <3>2. \A k \in DOMAIN ns : ns[k] \in Range(ns)
      BY DEF Range
    <3>3. QED
      BY <2>2, <3>1, <3>2
  <2>4. ~Passthrough(d)
    BY <1>1, <1>3 DEF Passthrough
  <2>5. ASSUME NEW j \in DOMAIN d.ups, d.ups[j].ns = ns PROVE j = i
    BY <1>3, <2>1, <2>5 DEF ValidUpstreams, Distinct
  <2>6. ByNamespace(d, ns) = {i}
    BY <2>1, <2>5 DEF ByNamespace
  <2>7. (CHOOSE j \in ByNamespace(d, ns) : TRUE) = i
    BY <2>6
  <2>8. ASSUME NEW cut, cut = [found |-> TRUE, before |-> ns, after |-> text]
        PROVE  OwnerOf(d, cut) = <<i, text>>
    <3>1. cut.found /\ cut.before = ns /\ cut.after = text
      BY <2>8
    <3>2. ByNamespace(d, cut.before) # {}
      BY <2>6, <3>1
    <3>3. QED
      BY <2>7, <3>1, <3>2 DEF OwnerOf
  <2>9. resolve(d, publicName(d, d.ups[i], text)) = <<i, text>>
    <3>1. d.sep[1] # NsChar
      BY DEF ValidSeparator, Range
    <3>2. Cut(ns \o d.sep \o text, d.sep) = [found |-> TRUE, before |-> ns, after |-> text]
      BY <2>2, <2>3, <3>1, CutAtEnd
    <3>3. publicName(d, d.ups[i], text) = ns \o d.sep \o text
      BY <1>3, <2>1 DEF publicName
    <3>4. QED
      BY <2>4, <2>8, <3>2, <3>3 DEF resolve
  <2>10. ASSUME text # <<>> PROVE uiOwner(d, mintUIURI(d.ups[i], text)) = <<i, text>>
    <3>1. <<Slash>> \in Seq(Chars) /\ <<Slash>> # <<>> /\ <<Slash>>[1] # NsChar
      BY DEF Slash, NsChar, Chars
    <3>2. Cut(ns \o <<Slash>> \o text, <<Slash>>) = [found |-> TRUE, before |-> ns, after |-> text]
      BY <2>2, <2>3, <3>1, CutAtEnd
    <3>3. mintUIURI(d.ups[i], text) = ns \o <<Slash>> \o text
      BY <2>1 DEF mintUIURI
    <3>4. PICK cut : cut = Cut(mintUIURI(d.ups[i], text), <<Slash>>)
      OBVIOUS
    <3>5. cut = [found |-> TRUE, before |-> ns, after |-> text]
      BY <3>2, <3>3, <3>4
    <3>6. cut.before # <<>> /\ cut.after # <<>>
      BY <2>2, <2>10, <3>5
    <3>7. QED
      BY <2>4, <2>8, <3>4, <3>5, <3>6 DEF uiOwner
  <2>11. QED
    BY <2>9, <2>10
<1>4. QED
  BY <1>2, <1>3

\* The patterns of s are those of R, each once.
Once(s, R) == s \in Seq(R) /\ IsInjective(s) /\ Range(s) = R

\* Lists of patterns that share none are joined.
LEMMA OnceJoin ==
    ASSUME NEW s, NEW R, NEW t, NEW Q, Once(s, R), Once(t, Q), R \cap Q = {}
    PROVE  Once(s \o t, R \cup Q)
<1>1. s \in Seq(R \cup Q) /\ t \in Seq(R \cup Q)
  BY DEF Once
<1>2. PICK m \in Nat, n \in Nat : m = Len(s) /\ n = Len(t)
  BY <1>1
<1>3. PICK u : u = s \o t
  OBVIOUS
<1>4. /\ u \in Seq(R \cup Q) /\ Len(u) = m + n
      /\ \A k \in 1..m : u[k] = s[k]
      /\ \A k \in 1..n : u[m + k] = t[k]
  <2>1. JoinOf(u, s, t, R \cup Q)
    BY <1>1, <1>3, JoinIs
  <2>2. QED
    BY <1>2, <2>1 DEF JoinOf
<1>5. \A k \in 1..m : u[k] \in R
  BY <1>2, <1>4 DEF Once
<1>6. ASSUME NEW k \in (m + 1)..(m + n) PROVE k - m \in 1..n /\ u[k] = t[k - m] /\ u[k] \in Q
  <2>1. k - m \in 1..n /\ m + (k - m) = k
    OBVIOUS
  <2>2. u[k] = t[k - m]
    BY <1>4, <2>1
  <2>3. QED
    BY <1>2, <2>1, <2>2 DEF Once
<1>7. ASSUME NEW j \in 1..(m + n), NEW k \in 1..(m + n), u[j] = u[k] PROVE j = k
  <2>1. CASE j <= m /\ k <= m
    <3>1. j \in 1..m /\ k \in 1..m
      BY <2>1
    <3>2. s[j] = s[k]
      BY <1>4, <1>7, <3>1
    <3>3. QED
      BY <1>1, <1>2, <3>1, <3>2 DEF Once, IsInjective
  <2>2. CASE j > m /\ k > m
    <3>1. j \in (m + 1)..(m + n) /\ k \in (m + 1)..(m + n)
      BY <2>2
    <3>2. t[j - m] = t[k - m] /\ j - m \in 1..n /\ k - m \in 1..n
      BY <1>6, <1>7, <3>1
    <3>3. PICK x, y : x = j - m /\ y = k - m
      OBVIOUS
    <3>4. t[x] = t[y] /\ x \in DOMAIN t /\ y \in DOMAIN t
      BY <1>1, <1>2, <3>2, <3>3
    <3>5. x = y
      BY <3>4, Zenon DEF Once, IsInjective
    <3>6. QED
      BY <3>3, <3>5
  <2>3. CASE (j <= m) # (k <= m)
    <3>1. \/ j \in 1..m /\ k \in (m + 1)..(m + n)
          \/ k \in 1..m /\ j \in (m + 1)..(m + n)
      BY <2>3
    <3>2. \/ u[j] \in R /\ u[k] \in Q
          \/ u[k] \in R /\ u[j] \in Q
      BY <1>5, <1>6, <3>1
    <3>3. QED
      BY <1>7, <3>2
  <2>4. QED
    BY <2>1, <2>2, <2>3
<1>8. IsInjective(u)
  BY <1>4, <1>7 DEF IsInjective
<1>9. Range(u) = R \cup Q
  <2>1. Range(u) \subseteq R \cup Q
    BY <1>4 DEF Range
  <2>2. ASSUME NEW x \in R PROVE x \in Range(u)
    <3>1. PICK k \in 1..m : s[k] = x
      BY <1>1, <1>2 DEF Once, Range
    <3>2. k \in 1..(m + n) /\ u[k] = x
      BY <1>4, <3>1
    <3>3. QED
      BY <1>4, <3>2 DEF Range
  <2>3. ASSUME NEW x \in Q PROVE x \in Range(u)
    <3>1. PICK k \in 1..n : t[k] = x
      BY <1>1, <1>2 DEF Once, Range
    <3>2. m + k \in DOMAIN u /\ u[m + k] = x
      BY <1>4, <3>1
    <3>3. QED
      BY <3>2, Zenon DEF Range
  <2>4. QED
    BY <2>1, <2>2, <2>3
<1>10. QED
  BY <1>3, <1>4, <1>8, <1>9 DEF Once

\* What a condition of buildHandler registers, or nothing.
LEMMA OnceWhen ==
    ASSUME NEW c, NEW s, NEW R, Once(s, R)
    PROVE  Once(When(c, s), IF c THEN R ELSE {})
<1>1. Once(<<>>, {})
  BY DEF Once, IsInjective, Range
<1>2. CASE c
  BY <1>2 DEF When
<1>3. CASE ~c
  BY <1>1, <1>3 DEF When
<1>4. QED
  BY <1>2, <1>3

\* One pattern is registered.
LEMMA OnceOne == ASSUME NEW x PROVE Once(<<x>>, {x})
  BY DEF Once, IsInjective, Range

\* Two patterns are registered.
LEMMA OnceTwo == ASSUME NEW x, NEW y, x # y PROVE Once(<<x, y>>, {x, y})
  BY DEF Once, IsInjective, Range

\* A pattern, or none, is added to patterns it is not among.
LEMMA OnceMore ==
    ASSUME NEW s, NEW R, Once(s, R), NEW c, NEW t, NEW Q, Once(t, Q), R \cap Q = {}
    PROVE  Once(s \o When(c, t), R \cup (IF c THEN Q ELSE {}))
<1>1. PICK u, T : u = When(c, t) /\ T = IF c THEN Q ELSE {}
  OBVIOUS
<1>2. Once(u, T)
  BY <1>1, OnceWhen
<1>3. T \subseteq Q
  BY <1>1
<1>4. Once(s \o u, R \cup T)
  BY <1>2, <1>3, OnceJoin
<1>5. QED
  BY <1>1, <1>4

\* The patterns a document that validates registers are distinct, and those of
\* the console come with those of the API.
LEMMA PatternsFit ==
    ASSUME NEW d, ValidServer(d)
    PROVE  /\ IsInjective(buildHandler(d))
           /\ "/console" \in Range(buildHandler(d)) => "/api/federation" \in Range(buildHandler(d))
<1>. DEFINE s1 == <<d.mcpPath, "/health">>
            s2 == s1 \o When(~d.server.metricsAddr, <<"/metrics">>)
            s3 == s2 \o When(d.introspection.enabled, <<"/api/federation", "/api/auth-hint">>)
            s4 == s3 \o When(d.console.enabled, <<"/console/", "/console">>)
            s5 == s4 \o When(iconsServed(d), <<"/icons/">>)
            s6 == s5 \o When(AuthRequired(d), <<"/.well-known/oauth-protected-resource">>)
            t1 == <<"/.well-known/jwks.json", "/.well-known/oauth-authorization-server">>
            t2 == t1 \o When(d.auth.resource = ResourcePath, <<ResourcePath>>)
            t3 == t2 \o <<"/oauth/token">>
            s7 == s6 \o When(AuthRequired(d) /\ d.auth.ema, t3)
<1>1. buildHandler(d) = s7
  BY DEF buildHandler
<1>. HIDE DEF s1, s2, s3, s4, s5, s6, t1, t2, t3, s7
<1>2. /\ d.mcpPath \notin Reserved \cup Metadata /\ d.mcpPath # ResourcePath
      /\ ResourcePath \notin Metadata \cup Reserved
  BY ConfigAssumption DEF ValidServer
<1>3. PICK R1 : R1 = {d.mcpPath, "/health"}
  OBVIOUS
<1>4. PICK R2 : R2 = R1 \cup IF ~d.server.metricsAddr THEN {"/metrics"} ELSE {}
  OBVIOUS
<1>5. PICK R3 : R3 = R2 \cup IF d.introspection.enabled THEN {"/api/federation", "/api/auth-hint"} ELSE {}
  OBVIOUS
<1>6. PICK R4 : R4 = R3 \cup IF d.console.enabled THEN {"/console/", "/console"} ELSE {}
  OBVIOUS
<1>7. PICK R5 : R5 = R4 \cup IF iconsServed(d) THEN {"/icons/"} ELSE {}
  OBVIOUS
<1>8. PICK R6 : R6 = R5 \cup IF AuthRequired(d) THEN {"/.well-known/oauth-protected-resource"} ELSE {}
  OBVIOUS
<1>9. PICK Q1 : Q1 = {"/.well-known/jwks.json", "/.well-known/oauth-authorization-server"}
  OBVIOUS
<1>10. PICK Q2 : Q2 = Q1 \cup IF d.auth.resource = ResourcePath THEN {ResourcePath} ELSE {}
  OBVIOUS
<1>11. PICK Q3 : Q3 = Q2 \cup {"/oauth/token"}
  OBVIOUS
<1>12. PICK R7 : R7 = R6 \cup IF AuthRequired(d) /\ d.auth.ema THEN Q3 ELSE {}
  OBVIOUS
<1>13. R1 \subseteq {d.mcpPath, "/health"}
  BY <1>3
<1>14. R2 \subseteq {d.mcpPath, "/health", "/metrics"}
  BY <1>4, <1>13
<1>15. R3 \subseteq {d.mcpPath, "/health", "/metrics", "/api/federation", "/api/auth-hint"}
  BY <1>5, <1>14
<1>16. R4 \subseteq {d.mcpPath, "/health", "/metrics", "/api/federation", "/api/auth-hint", "/console/", "/console"}
  BY <1>6, <1>15
<1>17. R5 \subseteq {d.mcpPath, "/health", "/metrics", "/api/federation", "/api/auth-hint", "/console/", "/console", "/icons/"}
  BY <1>7, <1>16
<1>18. R6 \subseteq {d.mcpPath, "/health", "/metrics", "/api/federation", "/api/auth-hint", "/console/", "/console", "/icons/",
                     "/.well-known/oauth-protected-resource"}
  BY <1>8, <1>17
<1>19. Q3 \subseteq {"/.well-known/jwks.json", "/.well-known/oauth-authorization-server", ResourcePath, "/oauth/token"}
  BY <1>9, <1>10, <1>11
<1>20. Once(s1, R1)
  BY <1>2, <1>3, OnceTwo DEF s1, Reserved
<1>21. Once(s2, R2)
  <2>1. R1 \cap {"/metrics"} = {}
    BY <1>2, <1>13 DEF Reserved
  <2>2. QED
    BY <1>4, <1>20, <2>1, OnceOne, OnceMore DEF s2
<1>22. Once(s3, R3)
  <2>1. R2 \cap {"/api/federation", "/api/auth-hint"} = {}
    BY <1>2, <1>14 DEF Reserved
  <2>2. QED
    BY <1>5, <1>21, <2>1, OnceTwo, OnceMore DEF s3
<1>23. Once(s4, R4)
  <2>1. R3 \cap {"/console/", "/console"} = {}
    BY <1>2, <1>15 DEF Reserved
  <2>2. QED
    BY <1>6, <1>22, <2>1, OnceTwo, OnceMore DEF s4
<1>24. Once(s5, R5)
  <2>1. R4 \cap {"/icons/"} = {}
    BY <1>2, <1>16 DEF Reserved
  <2>2. QED
    BY <1>7, <1>23, <2>1, OnceOne, OnceMore DEF s5
<1>25. Once(s6, R6)
  <2>1. R5 \cap {"/.well-known/oauth-protected-resource"} = {}
    BY <1>2, <1>17 DEF Metadata
  <2>2. QED
    BY <1>8, <1>24, <2>1, OnceOne, OnceMore DEF s6
<1>26. Once(t3, Q3)
  <2>1. Once(t1, Q1)
    BY <1>9, OnceTwo DEF t1
  <2>2. Q1 \cap {ResourcePath} = {}
    BY <1>2, <1>9 DEF Metadata
  <2>3. Once(t2, Q2)
    BY <1>10, <2>1, <2>2, OnceOne, OnceMore DEF t2
  <2>4. Q2 \cap {"/oauth/token"} = {}
    BY <1>2, <1>9, <1>10 DEF Reserved
  <2>5. QED
    BY <1>11, <2>3, <2>4, OnceOne, OnceJoin DEF t3
<1>27. Once(s7, R7)
  <2>1. d.mcpPath \notin {"/.well-known/jwks.json", "/.well-known/oauth-authorization-server", ResourcePath, "/oauth/token"}
    BY <1>2 DEF Metadata, Reserved
  <2>2. ResourcePath \notin {"/health", "/metrics", "/api/federation", "/api/auth-hint", "/console/", "/console", "/icons/",
                             "/.well-known/oauth-protected-resource"}
    BY <1>2 DEF Metadata, Reserved
  <2>3. R6 \cap Q3 = {}
    BY <1>18, <1>19, <2>1, <2>2
  <2>4. QED
    BY <1>12, <1>25, <1>26, <2>3, OnceMore DEF s7
<1>28. CASE d.console.enabled
  <2>1. d.introspection.enabled
    BY <1>28 DEF ValidServer
  <2>2. "/api/federation" \in R7
    BY <1>5, <1>6, <1>7, <1>8, <1>12, <2>1
  <2>3. QED
    BY <1>1, <1>27, <2>2 DEF Once
<1>29. CASE ~d.console.enabled
  <2>1. R4 = R3
    BY <1>6, <1>29
  <2>2. "/console" \notin R3 \cup Q3
    BY <1>2, <1>15, <1>19 DEF Reserved
  <2>3. "/console" \notin R7
    BY <1>7, <1>8, <1>12, <2>1, <2>2
  <2>4. QED
    BY <1>1, <1>27, <2>3 DEF Once
<1>30. QED
  BY <1>28, <1>29

\* The inductive invariant of AddressesLead: the document the gateway was built
\* with validates, and so does the one in force, discovered upstreams included.
ServingInv == ConfigTypeOK /\ Validate(running) /\ Validate(Serving)

\* A document with which nothing was discovered is in force as it is.
LEMMA MergeNothing ==
    ASSUME NEW d \in Configurations
    PROVE  Merge(d, <<>>) = d
<1>1. d = [s \in Sections |-> d[s]] /\ d.ups \in Seq(Range(d.ups))
  BY ConfigAssumption DEF Upstreams
<1>2. d.ups \o <<>> = d.ups
  BY <1>1
<1>3. QED
  BY <1>1, <1>2 DEF Merge, Sections

\* What is in force has the shape of a document.
LEMMA MergeIs ==
    ASSUME NEW d \in Configurations, NEW ups \in Found \cup {<<>>}
    PROVE  Upstreams(Merge(d, ups).ups) /\ Merge(d, ups).sep \in Seq(Chars) \ {<<>>}
<1>1. d = [s \in Sections |-> d[s]] /\ Upstreams(d.ups) /\ d.sep \in Seq(Chars) \ {<<>>}
  BY ConfigAssumption
<1>2. Upstreams(ups)
  <2>1. CASE ups \in Found
    BY <2>1, ConfigAssumption
  <2>2. CASE ups = <<>>
    BY <2>2 DEF Upstreams
  <2>3. QED
    BY <2>1, <2>2
<1>3. Merge(d, ups).sep = d.sep /\ Merge(d, ups).ups = d.ups \o ups
  BY <1>1 DEF Merge, Sections
<1>4. PICK s, R : s = d.ups /\ R = Range(s)
  OBVIOUS
<1>5. PICK t, Q : t = ups /\ Q = Range(t)
  OBVIOUS
<1>6. s \in Seq(R \cup Q) /\ t \in Seq(R \cup Q)
  BY <1>1, <1>2, <1>4, <1>5 DEF Upstreams
<1>7. PICK m \in Nat, n \in Nat : m = Len(s) /\ n = Len(t)
  BY <1>6
<1>8. PICK u : u = s \o t
  OBVIOUS
<1>9. /\ u \in Seq(R \cup Q) /\ Len(u) = m + n
      /\ \A k \in 1..m : u[k] = s[k]
      /\ \A k \in 1..n : u[m + k] = t[k]
  <2>1. JoinOf(u, s, t, R \cup Q)
    BY <1>6, <1>8, JoinIs
  <2>2. QED
    BY <1>7, <2>1 DEF JoinOf
<1>10. u \in Seq(Range(u))
  <2>1. DOMAIN u = 1..Len(u) /\ Len(u) \in Nat
    BY <1>9
  <2>2. \A k \in 1..Len(u) : u[k] \in Range(u)
    BY <2>1, Zenon DEF Range
  <2>3. QED
    BY <1>9, <2>2, IsASeq
<1>11. ASSUME NEW k \in DOMAIN u PROVE u[k].ns # Nil => u[k].ns \in Seq(Chars)
  <2>1. k \in 1..(m + n)
    BY <1>9
  <2>2. CASE k <= m
    <3>1. k \in 1..m
      BY <2>1, <2>2
    <3>2. u[k] = s[k] /\ k \in DOMAIN s
      BY <1>6, <1>7, <1>9, <3>1
    <3>3. QED
      BY <1>1, <1>4, <3>2 DEF Upstreams
  <2>3. CASE k > m
    <3>1. k - m \in 1..n /\ m + (k - m) = k
      BY <2>1, <2>3
    <3>2. u[k] = t[k - m]
      BY <1>9, <3>1
    <3>3. k - m \in DOMAIN t
      BY <1>6, <1>7, <3>1
    <3>4. QED
      BY <1>2, <1>5, <3>2, <3>3 DEF Upstreams
  <2>4. QED
    BY <2>1, <2>2, <2>3
<1>12. Upstreams(u)
  BY <1>10, <1>11 DEF Upstreams
<1>13. QED
  BY <1>1, <1>3, <1>4, <1>5, <1>8, <1>12

\* The gateway starts with a document that validates.
LEMMA ServingInit == ConfigInit => ServingInv
<1>. SUFFICES ASSUME ConfigInit PROVE ServingInv
  OBVIOUS
<1>1. running \in Configurations /\ Validate(running) /\ base = running /\ found = <<>>
  BY DEF ConfigInit
<1>2. Serving = running
  BY <1>1, MergeNothing DEF Serving
<1>3. QED
  BY <1>1, <1>2 DEF ServingInv, ConfigTypeOK

\* Reload and setDiscovered validate what will be in force before they keep it.
LEMMA ServingStep == ServingInv /\ [ConfigNext]_fvars => ServingInv'
<1>. SUFFICES ASSUME ServingInv, [ConfigNext]_fvars PROVE ServingInv'
  OBVIOUS
<1>1. ASSUME NEW d \in Configurations, Reconfigure(d) PROVE ServingInv'
  BY <1>1, Zenon DEF Reconfigure, ServingInv, ConfigTypeOK, Serving
<1>2. ASSUME NEW ups \in Found, Discover(ups) PROVE ServingInv'
  <2>1. found' \in Found \cup {<<>>}
    BY <1>2 DEF Discover
  <2>2. QED
    BY <1>2, <2>1, Zenon DEF Discover, ServingInv, ConfigTypeOK, Serving
<1>3. CASE UNCHANGED fvars
  BY <1>3, Zenon DEF fvars, ServingInv, ConfigTypeOK, Serving
<1>4. QED
  BY <1>1, <1>2, <1>3 DEF ConfigNext

\* Whatever is reloaded or discovered, every name and UI address fold publishes
\* leads back to the upstream it came from, and the handlers of buildHandler fit
\* on one mux, for every set of documents and discovered upstreams.
THEOREM AddressesLeadCorrect == ConfigSpec => []AddressesLead
<1>1. ServingInv => AddressesLead
  <2>. SUFFICES ASSUME ServingInv PROVE AddressesLead
    OBVIOUS
  <2>1. Upstreams(Serving.ups) /\ Serving.sep \in Seq(Chars) \ {<<>>}
    BY MergeIs DEF ServingInv, ConfigTypeOK, Serving
  <2>2. ValidUpstreams(Serving) /\ ValidSeparator(Serving)
    BY DEF ServingInv, Validate
  <2>3. Texts \subseteq Seq(Chars)
    BY ConfigAssumption
  <2>4. NamesRouteBack
    BY <2>1, <2>2, <2>3, NamesLead DEF NamesRouteBack
  <2>5. ValidServer(running)
    BY DEF ServingInv, Validate
  <2>6. HandlersFit
    BY <2>5, PatternsFit DEF HandlersFit
  <2>7. QED
    BY <2>4, <2>6 DEF AddressesLead
<1>2. QED
  BY <1>1, ServingInit, ServingStep, PTL DEF ConfigSpec
-----------------------------------------------------------------------------
(* Tasks.                                                                  *)

\* A call of p that has read the store and may still write or forward.
Out(p) == job[p].at \in {"locate", "pin", "store", "refresh", "listed"}

\* Before the mint is on record nobody has seen an owner ...
Unclaimed ==
    job["mint"].at # "done" /\ ~expired =>
        /\ record \in {NoRecord, Unowned} /\ job["mint"].seen \in {NoRecord, Unowned}
        /\ \A p \in Principals : Out(p) => job[p].seen \in {NoRecord, Unowned}

\* ... and after it every call that is out is the owner's and has seen it.
Claimed ==
    job["mint"].at = "done" /\ ~expired /\ ~overlap =>
        /\ record = Owner /\ reached \subseteq {Owner}
        /\ \A p \in Principals : Out(p) => job[p].at = "refresh" /\ job[p].seen = Owner /\ p = Owner

OwnerInv == TasksTypeOK /\ Unclaimed /\ Claimed

\* What a move of one call does to the calls.
LEMMA MovesTyped ==
    ASSUME TasksTypeOK, NEW j \in Jobs, NEW at \in JobStages, NEW seen \in Records, Moves(j, at, seen)
    PROVE  /\ job' \in [Jobs -> [at : JobStages, on : Replicas, seen : Records]]
           /\ job'[j].at = at /\ job'[j].seen = seen
           /\ \A k \in Jobs : k # j => job'[k] = job[k]
<1>1. job' = [job EXCEPT ![j] = [at |-> at, on |-> job[j].on, seen |-> seen]]
  BY DEF Moves, TasksTypeOK
<1>2. QED
  BY <1>1 DEF TasksTypeOK

\* What a read of the task store may return.
LEMMA GetTyped ==
    ASSUME TasksTypeOK, NEW j \in Jobs, NEW v \in Records, Get(j, v)
    PROVE  expired' \in BOOLEAN /\ (expired => expired') /\ (~expired' => v = record)
<1>1. expired \in BOOLEAN
  BY DEF TasksTypeOK
<1>2. QED
  <2>1. CASE v = record /\ UNCHANGED expired
    BY <1>1, <2>1
  <2>2. CASE expired' = TRUE
    BY <2>2
  <2>3. QED
    BY <2>1, <2>2 DEF Get

\* What a write of the task store may leave.
LEMMA SaveTyped ==
    ASSUME TasksTypeOK, NEW j \in Jobs, NEW v \in Records, Save(j, v)
    PROVE  /\ expired' \in BOOLEAN /\ (expired => expired') /\ (~expired' => record' = v)
           /\ record' \in Records /\ mirror' \in [Replicas -> Records]
<1>1. expired \in BOOLEAN /\ record \in Records
  BY DEF TasksTypeOK
<1>2. mirror' \in [Replicas -> Records]
  BY DEF Save, TasksTypeOK
<1>3. QED
  BY <1>1, <1>2, Zenon DEF Save

\* No task is recorded at first.
LEMMA OwnerInit == TasksInit => OwnerInv
<1>. SUFFICES ASSUME TasksInit PROVE OwnerInv
  OBVIOUS
<1>1. TasksTypeOK
  BY DEF TasksInit, TasksTypeOK, Records, JobStages
<1>2. QED
  BY <1>1 DEF TasksInit, OwnerInv, Unclaimed, Claimed, Out, Jobs

\* Every step of a replica keeps OwnerInv.
LEMMA OwnerInvStep == OwnerInv /\ [TasksNext]_tvars => OwnerInv'
<1>. SUFFICES ASSUME OwnerInv, [TasksNext]_tvars PROVE OwnerInv'
  OBVIOUS
<1>. USE TasksAssumption DEF JobStages
<1>0. /\ TasksTypeOK /\ "mint" \in Jobs /\ NoRecord \in Records /\ Unowned \in Records /\ Owner \in Records
      /\ \A p \in Principals : p \in Jobs /\ p # "mint" /\ p \in Records /\ p \notin {NoRecord, Unowned}
  BY DEF OwnerInv, Jobs, Principals, Records
<1>1. CASE Mint
  BY <1>1 DEF Mint, OwnerInv, TasksTypeOK, Unclaimed, Claimed, Out
<1>2. CASE MintLoad
  <2>1. PICK v \in Records : Get("mint", v) /\ Moves("mint", "store", v)
    BY <1>2 DEF MintLoad
  <2>2. expired' \in BOOLEAN /\ (expired => expired') /\ (~expired' => v = record)
    BY <1>0, <2>1, GetTyped
  <2>3. /\ job' \in [Jobs -> [at : JobStages, on : Replicas, seen : Records]]
        /\ job'["mint"].at = "store" /\ job'["mint"].seen = v
        /\ \A k \in Jobs : k # "mint" => job'[k] = job[k]
    BY <1>0, <2>1, MovesTyped
  <2>4. job["mint"].at = "new" /\ UNCHANGED <<record, mirror, reached, held, overlap>>
    BY <1>2 DEF MintLoad
  <2>5. TasksTypeOK'
    BY <1>0, <2>2, <2>3, <2>4 DEF TasksTypeOK
  <2>6. QED
    BY <1>0, <2>2, <2>3, <2>4, <2>5 DEF OwnerInv, Unclaimed, Claimed, Out
<1>3. CASE MintStore
  <2>. DEFINE v == mergeTaskOwner(job["mint"].seen, Owner)
  <2>1. v \in Records /\ (job["mint"].seen \in {NoRecord, Unowned} => v = Owner)
    BY <1>0 DEF mergeTaskOwner, TasksTypeOK
  <2>2. /\ expired' \in BOOLEAN /\ (expired => expired') /\ (~expired' => record' = v)
        /\ record' \in Records /\ mirror' \in [Replicas -> Records]
    BY <1>0, <1>3, <2>1, SaveTyped DEF MintStore
  <2>3. /\ job' \in [Jobs -> [at : JobStages, on : Replicas, seen : Records]]
        /\ job'["mint"].at = "done" /\ job'["mint"].seen = NoRecord
        /\ \A k \in Jobs : k # "mint" => job'[k] = job[k]
    BY <1>0, <1>3, MovesTyped DEF MintStore
  <2>4. /\ job["mint"].at = "store" /\ reached' = {} /\ held' = held
        /\ overlap' = \E p \in Principals : Out(p) /\ job[p].seen \in {NoRecord, Unowned}
    BY <1>3, Zenon DEF MintStore, Out
  <2>5. overlap' \in BOOLEAN
    BY <2>4, Zenon
  <2>6. TasksTypeOK'
    BY <1>0, <2>2, <2>3, <2>4, <2>5 DEF TasksTypeOK
  <2>7. ASSUME ~expired', ~overlap' PROVE record' = Owner /\ \A p \in Principals : ~Out(p)
    <3>1. ~expired
      BY <2>2, <2>7
    <3>2. job["mint"].seen \in {NoRecord, Unowned} /\ \A p \in Principals : Out(p) => job[p].seen \in {NoRecord, Unowned}
      BY <2>4, <3>1 DEF OwnerInv, Unclaimed
    <3>3. \A p \in Principals : ~Out(p)
      BY <2>4, <2>7, <3>2, Zenon
    <3>4. QED
      BY <2>1, <2>2, <2>7, <3>2, <3>3
  <2>. HIDE DEF v
  <2>8. Claimed'
    BY <1>0, <2>3, <2>4, <2>7 DEF Claimed, Out
  <2>9. QED
    BY <2>3, <2>6, <2>8 DEF OwnerInv, Unclaimed
<1>4. CASE Expire
  <2>1. TasksTypeOK'
    BY <1>0, <1>4 DEF Expire, TasksTypeOK
  <2>2. QED
    BY <1>4, <2>1 DEF Expire, OwnerInv, Unclaimed, Claimed
<1>5. ASSUME NEW p \in Principals, RouteLoad(p) PROVE OwnerInv'
  <2>1. PICK v \in Records :
           /\ Get(p, v)
           /\ CASE v = NoRecord -> Moves(p, "locate", NoRecord)
                [] v \in {Unowned, p} -> Moves(p, "refresh", v)
                [] OTHER -> Moves(p, "done", NoRecord)
    BY <1>5 DEF RouteLoad
  <2>2. expired' \in BOOLEAN /\ (expired => expired') /\ (~expired' => v = record)
    BY <1>0, <2>1, GetTyped
  <2>3. PICK at \in {"locate", "refresh", "done"}, seen \in Records :
           /\ Moves(p, at, seen)
           /\ at = "locate" => v = NoRecord /\ seen = v
           /\ at = "refresh" => v \in {Unowned, p} /\ seen = v
    <3>1. CASE v = NoRecord
      BY <1>0, <2>1, <3>1
    <3>2. CASE v \in {Unowned, p}
      BY <1>0, <2>1, <3>2
    <3>3. CASE v \notin {NoRecord, Unowned, p}
      BY <1>0, <2>1, <3>3
    <3>4. QED
      BY <3>1, <3>2, <3>3
  <2>4. /\ job' \in [Jobs -> [at : JobStages, on : Replicas, seen : Records]]
        /\ job'[p].at = at /\ job'[p].seen = seen
        /\ \A k \in Jobs : k # p => job'[k] = job[k]
    BY <1>0, <2>3, MovesTyped
  <2>5. UNCHANGED <<record, mirror, reached, held, overlap>>
    BY <1>5 DEF RouteLoad
  <2>6. TasksTypeOK'
    BY <1>0, <2>2, <2>4, <2>5 DEF TasksTypeOK
  <2>7. Unclaimed'
    BY <1>0, <2>2, <2>3, <2>4, <2>5 DEF OwnerInv, Unclaimed, Out
  <2>8. Claimed'
    BY <1>0, <2>2, <2>3, <2>4, <2>5 DEF OwnerInv, Claimed, Out
  <2>9. QED
    BY <2>6, <2>7, <2>8 DEF OwnerInv
<1>6. ASSUME NEW p \in Principals, Refresh(p) PROVE OwnerInv'
  <2>1. job[p].seen \in Records
    BY <1>0 DEF TasksTypeOK
  <2>2. /\ expired' \in BOOLEAN /\ (expired => expired') /\ (~expired' => record' = job[p].seen)
        /\ record' \in Records /\ mirror' \in [Replicas -> Records]
    BY <1>0, <1>6, <2>1, SaveTyped DEF Refresh
  <2>3. /\ job' \in [Jobs -> [at : JobStages, on : Replicas, seen : Records]]
        /\ job'[p].at = "done" /\ job'[p].seen = NoRecord
        /\ \A k \in Jobs : k # p => job'[k] = job[k]
    BY <1>0, <1>6, MovesTyped DEF Refresh
  <2>4. job[p].at = "refresh" /\ reached' = reached \cup {p} /\ UNCHANGED <<held, overlap>>
    BY <1>6 DEF Refresh
  <2>5. TasksTypeOK'
    BY <1>0, <2>2, <2>3, <2>4 DEF TasksTypeOK
  <2>6. Unclaimed' /\ Claimed'
    BY <1>0, <2>2, <2>3, <2>4 DEF OwnerInv, Unclaimed, Claimed, Out
  <2>7. QED
    BY <2>5, <2>6 DEF OwnerInv
<1>7. ASSUME NEW p \in Principals, Locate(p) PROVE OwnerInv'
  <2>1. job[p].at = "locate" /\ UNCHANGED <<record, mirror, reached, held, expired, overlap>>
    BY <1>7 DEF Locate
  <2>2. PICK at \in {"pin", "done"} : Moves(p, at, NoRecord)
    BY <1>7 DEF Locate
  <2>3. /\ job' \in [Jobs -> [at : JobStages, on : Replicas, seen : Records]]
        /\ job'[p].at = at /\ job'[p].seen = NoRecord
        /\ \A k \in Jobs : k # p => job'[k] = job[k]
    BY <1>0, <2>2, MovesTyped
  <2>4. TasksTypeOK'
    BY <1>0, <2>1, <2>3 DEF TasksTypeOK
  <2>5. Unclaimed' /\ Claimed'
    BY <1>0, <2>1, <2>3 DEF OwnerInv, Unclaimed, Claimed, Out
  <2>6. QED
    BY <2>4, <2>5 DEF OwnerInv
<1>8. ASSUME NEW p \in Principals, PinLoad(p) PROVE OwnerInv'
  <2>1. PICK v \in Records : Get(p, v) /\ Moves(p, "store", v)
    BY <1>8 DEF PinLoad
  <2>2. expired' \in BOOLEAN /\ (expired => expired') /\ (~expired' => v = record)
    BY <1>0, <2>1, GetTyped
  <2>3. /\ job' \in [Jobs -> [at : JobStages, on : Replicas, seen : Records]]
        /\ job'[p].at = "store" /\ job'[p].seen = v
        /\ \A k \in Jobs : k # p => job'[k] = job[k]
    BY <1>0, <2>1, MovesTyped
  <2>4. job[p].at = "pin" /\ UNCHANGED <<record, mirror, reached, held, overlap>>
    BY <1>8 DEF PinLoad
  <2>5. TasksTypeOK'
    BY <1>0, <2>2, <2>3, <2>4 DEF TasksTypeOK
  <2>6. Unclaimed' /\ Claimed'
    BY <1>0, <2>2, <2>3, <2>4 DEF OwnerInv, Unclaimed, Claimed, Out
  <2>7. QED
    BY <2>5, <2>6 DEF OwnerInv
<1>9. ASSUME NEW p \in Principals, PinStore(p) \/ ListStore(p) PROVE OwnerInv'
  <2>. DEFINE v == mergeTaskOwner(job[p].seen, Unowned)
  <2>1. v \in Records /\ (job[p].seen \in {NoRecord, Unowned} => v = Unowned)
    BY <1>0 DEF mergeTaskOwner, TasksTypeOK
  <2>2. /\ expired' \in BOOLEAN /\ (expired => expired') /\ (~expired' => record' = v)
        /\ record' \in Records /\ mirror' \in [Replicas -> Records]
    BY <1>0, <1>9, <2>1, SaveTyped DEF PinStore, ListStore
  <2>3. /\ job' \in [Jobs -> [at : JobStages, on : Replicas, seen : Records]]
        /\ job'[p].at = "done" /\ job'[p].seen = NoRecord
        /\ \A k \in Jobs : k # p => job'[k] = job[k]
    BY <1>0, <1>9, MovesTyped DEF PinStore, ListStore
  <2>4. job[p].at \in {"store", "listed"} /\ reached' \in {reached, reached \cup {p}} /\ UNCHANGED <<held, overlap>>
    BY <1>9 DEF PinStore, ListStore
  <2>5. TasksTypeOK'
    BY <1>0, <2>2, <2>3, <2>4 DEF TasksTypeOK
  <2>. HIDE DEF v
  <2>6. Unclaimed' /\ Claimed'
    BY <1>0, <2>1, <2>2, <2>3, <2>4 DEF OwnerInv, Unclaimed, Claimed, Out
  <2>7. QED
    BY <2>5, <2>6 DEF OwnerInv
<1>10. ASSUME NEW p \in Principals, ListLoad(p) PROVE OwnerInv'
  <2>1. PICK v \in Records :
           /\ Get(p, v)
           /\ reached' = IF mergeTaskOwner(v, Unowned) \in {Unowned, p} THEN reached \cup {p} ELSE reached
           /\ Moves(p, IF v = NoRecord THEN "listed" ELSE "done", v)
    BY <1>10 DEF ListLoad
  <2>2. expired' \in BOOLEAN /\ (expired => expired') /\ (~expired' => v = record)
    BY <1>0, <2>1, GetTyped
  <2>3. /\ job' \in [Jobs -> [at : JobStages, on : Replicas, seen : Records]]
        /\ job'[p].at = (IF v = NoRecord THEN "listed" ELSE "done") /\ job'[p].seen = v
        /\ \A k \in Jobs : k # p => job'[k] = job[k]
    BY <1>0, <2>1, MovesTyped
  <2>4. job[p].at = "new" /\ UNCHANGED <<record, mirror, held, overlap>>
    BY <1>10 DEF ListLoad
  <2>5. v = Owner => (reached' = IF p = Owner THEN reached \cup {p} ELSE reached)
    BY <1>0, <2>1 DEF mergeTaskOwner
  <2>6. TasksTypeOK'
    BY <1>0, <2>1, <2>2, <2>3, <2>4 DEF TasksTypeOK
  <2>7. Unclaimed'
    BY <1>0, <2>2, <2>3, <2>4 DEF OwnerInv, Unclaimed, Out
  <2>8. Claimed'
    BY <1>0, <2>2, <2>3, <2>4, <2>5 DEF OwnerInv, Claimed, Out
  <2>9. QED
    BY <2>6, <2>7, <2>8 DEF OwnerInv
<1>11. ASSUME NEW p \in Principals, Again(p) PROVE OwnerInv'
  <2>1. job[p].at = "done" /\ UNCHANGED <<record, mirror, reached, held, expired, overlap>>
    BY <1>11 DEF Again
  <2>2. PICK r \in Replicas : job' = [job EXCEPT ![p] = [at |-> "new", on |-> r, seen |-> NoRecord]]
    BY <1>11 DEF Again
  <2>3. /\ job' \in [Jobs -> [at : JobStages, on : Replicas, seen : Records]]
        /\ job'[p].at = "new" /\ job'[p].seen = NoRecord
        /\ \A k \in Jobs : k # p => job'[k] = job[k]
    BY <1>0, <2>2 DEF TasksTypeOK
  <2>4. TasksTypeOK'
    BY <1>0, <2>1, <2>3 DEF TasksTypeOK
  <2>5. Unclaimed' /\ Claimed'
    BY <1>0, <2>1, <2>3 DEF OwnerInv, Unclaimed, Claimed, Out
  <2>6. QED
    BY <2>4, <2>5 DEF OwnerInv
<1>12. CASE UNCHANGED tvars
  BY <1>12 DEF tvars, OwnerInv, TasksTypeOK, Unclaimed, Claimed, Out
<1>13. QED
  BY <1>1, <1>2, <1>3, <1>4, <1>5, <1>6, <1>7, <1>8, <1>9, <1>10, <1>11, <1>12 DEF TasksNext

\* OwnerKept, for any number of principals and instances: however the probes,
\* lists and refreshes of the others interleave with the mint, its owner keeps
\* the task (storeTaskAffinity, mergeTaskOwner).
THEOREM OwnerKeptCorrect == TasksSpec => []OwnerKept
<1>1. OwnerInv => OwnerKept
  BY DEF OwnerInv, Claimed, OwnerKept
<1>2. QED
  BY <1>1, OwnerInit, OwnerInvStep, PTL DEF TasksSpec
-----------------------------------------------------------------------------
(* Bridging.                                                               *)

NoRepeats(s) == \A k, l \in DOMAIN s : s[k] = s[l] => k = l

\* A context is on a stack once, and exactly while its call is in flight there.
OnStackInFlight ==
    /\ \A n \in DOMAIN stacks : NoRepeats(stacks[n].ctxs)
    /\ \A i \in Invocations, n \in DOMAIN stacks :
           i \in ToSet(stacks[n].ctxs) <=> Pc(i, "inflight") /\ call[i].on = n

BridgingInv == BridgingTypeOK /\ OnStackInFlight /\ NoDeadContext

\* Taking a context off leaves the others, each once.
LEMMA WithoutTakesOne ==
    ASSUME NEW S, NEW s \in Seq(S), NoRepeats(s), NEW i \in ToSet(s)
    PROVE  /\ Without(s, i) \in Seq(S) /\ NoRepeats(Without(s, i))
           /\ \A x : x \in ToSet(Without(s, i)) <=> x \in ToSet(s) /\ x # i
<1>1. PICK k \in DOMAIN s : s[k] = i
  BY DEF ToSet
<1>2. \A l \in DOMAIN s : s[l] = i => l = k
  BY <1>1 DEF NoRepeats
<1>3. k = CHOOSE m \in DOMAIN s : s[m] = i /\ \A l \in DOMAIN s : s[l] = i => l <= m
  <2>1. k \in Int
    BY <1>1
  <2>2. k \in DOMAIN s /\ s[k] = i /\ \A l \in DOMAIN s : s[l] = i => l <= k
    BY <1>1, <1>2, <2>1
  <2>3. \A m \in DOMAIN s : s[m] = i => m = k
    BY <1>2
  <2>4. QED
    BY <2>2, <2>3
<1>4. Without(s, i) = SubSeq(s, 1, k - 1) \o SubSeq(s, k + 1, Len(s))
  BY <1>3 DEF Without, RemoveAt
<1>. DEFINE a == SubSeq(s, 1, k - 1)
            b == SubSeq(s, k + 1, Len(s))
            w == a \o b
<1>5. k \in 1..Len(s) /\ Len(s) \in Nat
  BY <1>1
<1>6. a \in Seq(S) /\ Len(a) = k - 1 /\ \A m \in 1..(k - 1) : a[m] = s[m]
  BY <1>5
<1>7. b \in Seq(S) /\ Len(b) = Len(s) - k /\ \A m \in 1..(Len(s) - k) : b[m] = s[k + m]
  BY <1>5
<1>4a. Without(s, i) = w
  BY <1>4
<1>. HIDE DEF a, b
<1>8. w \in Seq(S) /\ Len(w) = Len(s) - 1
      /\ \A m \in 1..(Len(s) - 1) : w[m] = IF m < k THEN s[m] ELSE s[m + 1]
  <2>0. /\ w \in Seq(S) /\ Len(w) = Len(a) + Len(b)
        /\ \A m \in 1..Len(a) + Len(b) : w[m] = IF m <= Len(a) THEN a[m] ELSE b[m - Len(a)]
    BY <1>6, <1>7, ConcatProperties
  <2>. HIDE DEF w
  <2>1. w \in Seq(S) /\ Len(w) = Len(s) - 1
    BY <1>5, <1>6, <1>7, <2>0
  <2>2. ASSUME NEW m \in 1..(Len(s) - 1)
        PROVE  w[m] = IF m < k THEN s[m] ELSE s[m + 1]
    <3>0. Len(a) = k - 1 /\ Len(b) = Len(s) - k /\ m \in 1..Len(a) + Len(b)
      BY <1>5, <1>6, <1>7
    <3>00. w[m] = IF m <= Len(a) THEN a[m] ELSE b[m - Len(a)]
      BY <2>0, <3>0
    <3>1. CASE m < k
      <4>1. m \in 1..(k - 1) /\ m <= Len(a)
        BY <3>1, <3>0, <1>5
      <4>2. QED
        BY <3>1, <3>00, <4>1, <1>6
    <3>2. CASE ~(m < k)
      <4>1. w[m] = b[m - (k - 1)]
        <5>1. ~(m <= k - 1)
          BY <3>2, <1>5
        <5>2. QED
          BY <5>1, <3>0, <3>00
      <4>2. m - (k - 1) \in 1..(Len(s) - k) /\ k + (m - (k - 1)) = m + 1
        BY <3>2, <1>5
      <4>3. QED
        BY <4>1, <4>2, <3>2, <1>7
    <3>3. QED
      BY <3>1, <3>2
  <2>3. QED
    BY <2>1, <2>2
<1>. HIDE DEF w
<1>9. DOMAIN w = 1..(Len(s) - 1) /\ DOMAIN s = 1..Len(s)
  BY <1>5, <1>8
<1>10. NoRepeats(w)
  BY <1>5, <1>8, <1>9, SMTT(30) DEF NoRepeats
<1>11. ASSUME NEW x PROVE x \in ToSet(w) <=> x \in ToSet(s) /\ x # i
  <2>1. ASSUME NEW m \in DOMAIN w, w[m] = x PROVE x \in ToSet(s) /\ x # i
    BY <2>1, <1>1, <1>2, <1>5, <1>8, <1>9 DEF ToSet
  <2>2. ASSUME NEW m \in DOMAIN s, s[m] = x, x # i PROVE x \in ToSet(w)
    <3>1. CASE m < k
      BY <3>1, <2>2, <1>5, <1>8, <1>9 DEF ToSet
    <3>2. CASE m > k
      <4>1. m - 1 \in DOMAIN w /\ w[m - 1] = s[m]
        BY <3>2, <1>5, <1>8, <1>9
      <4>2. QED
        BY <4>1, <2>2 DEF ToSet
    <3>3. QED
      BY <3>1, <3>2, <2>2, <1>1, <1>5, <1>9
  <2>3. QED
    BY <2>1, <2>2 DEF ToSet
<1>12. QED
  BY <1>4a, <1>8, <1>10, <1>11
\* What a session's stack of contexts holds.
LEMMA StackTyped ==
    ASSUME BridgingTypeOK, NEW n \in DOMAIN stacks
    PROVE  stacks[n] \in [ctxs : Seq(Invocations), activity : Nat] /\ stacks[n].ctxs \in Seq(Invocations)
<1>1. \A S : \A s \in Seq(S) : \A m \in DOMAIN s : s[m] \in S
  OBVIOUS
<1>2. stacks \in Seq([ctxs : Seq(Invocations), activity : Nat])
  BY DEF BridgingTypeOK
<1>3. stacks[n] \in [ctxs : Seq(Invocations), activity : Nat]
  BY <1>1, <1>2, Zenon
<1>4. QED
  BY <1>3

\* What a change of one stack and one call does.
LEMMA StackChanged ==
    ASSUME BridgingTypeOK, NEW n \in DOMAIN stacks, NEW c \in Seq(Invocations),
           stacks' = [stacks EXCEPT ![n].ctxs = c]
    PROVE  /\ stacks' \in Seq([ctxs : Seq(Invocations), activity : Nat])
           /\ DOMAIN stacks' = DOMAIN stacks
           /\ stacks'[n].ctxs = c
           /\ \A m \in DOMAIN stacks : m # n => stacks'[m] = stacks[m]
<1>1. stacks[n] \in [ctxs : Seq(Invocations), activity : Nat]
  BY StackTyped
<1>2. [stacks[n] EXCEPT !.ctxs = c] \in [ctxs : Seq(Invocations), activity : Nat]
  BY <1>1
<1>3. [stacks[n] EXCEPT !.ctxs = c].ctxs = c
  BY <1>1
<1>4. stacks' = [stacks EXCEPT ![n] = [stacks[n] EXCEPT !.ctxs = c]]
  OBVIOUS
<1>5. QED
  BY <1>2, <1>3, <1>4 DEF BridgingTypeOK

\* A call that moves leaves the others where they are.
LEMMA CallMoved ==
    ASSUME BridgingTypeOK, NEW i \in Invocations,
           NEW pc \in {"new", "found", "inflight", "discard"}, Becomes(i, pc)
    PROVE  /\ call' \in [Invocations -> [pc : {"new", "found", "inflight", "discard"},
                                         on : {NoStack} \cup DOMAIN stacks]]
           /\ call'[i].pc = pc /\ call'[i].on = call[i].on
           /\ \A j \in Invocations : j # i => call'[j] = call[j]
<1>1. call[i] \in [pc : {"new", "found", "inflight", "discard"}, on : {NoStack} \cup DOMAIN stacks]
  BY DEF BridgingTypeOK
<1>2. call' = [call EXCEPT ![i] = [pc |-> pc, on |-> call[i].on]]
  <2>1. [call[i] EXCEPT !.pc = pc] = [pc |-> pc, on |-> call[i].on]
    BY <1>1
  <2>2. call' = [call EXCEPT ![i] = [call[i] EXCEPT !.pc = pc]]
    BY DEF Becomes
  <2>3. QED
    BY <2>1, <2>2
<1>3. QED
  BY <1>1, <1>2 DEF BridgingTypeOK

\* No call is under way at first.
LEMMA BridgingInvInit == BridgingInit => BridgingInv
<1>. SUFFICES ASSUME BridgingInit PROVE BridgingInv
  OBVIOUS
<1>1. stacks = <<>> /\ DOMAIN stacks = {}
  BY DEF BridgingInit
<1>2. BridgingTypeOK
  BY <1>1 DEF BridgingInit, BridgingTypeOK, Silent, Pc
<1>3. QED
  BY <1>1, <1>2 DEF BridgingInv, OnStackInFlight, NoDeadContext, BridgingInit, Silent

\* What an upstream's request rides.
LEMMA Rides ==
    ASSUME BridgingInv PROVE invocationCtx \in InFlight \cup {Fallback}
<1>1. CASE callCtx = NoStack
  BY <1>1 DEF invocationCtx
<1>2. CASE callCtx # NoStack
  <2>1. callCtx \in DOMAIN stacks /\ stacks[callCtx].ctxs \in Seq(Invocations)
    <3>1. callCtx \in DOMAIN stacks /\ BridgingTypeOK
      BY <1>2 DEF BridgingInv, BridgingTypeOK
    <3>2. QED
      BY <3>1, StackTyped
  <2>2. PICK s \in Seq(Invocations) : s = stacks[callCtx].ctxs
    BY <2>1
  <2>3. PICK live : live = {k \in DOMAIN s : s[k] \notin dead}
    OBVIOUS
  <2>4. invocationCtx = IF live = {} THEN Fallback ELSE s[Max(live)]
    BY <1>2, <2>2, <2>3 DEF invocationCtx
  <2>5. CASE live = {}
    BY <2>4, <2>5
  <2>6. CASE live # {}
    <3>1. Len(s) \in Nat /\ live \subseteq 1..Len(s)
      BY <2>3
    <3>2. Max(live) \in live
      BY <2>6, <3>1, LastIsOne
    <3>3. PICK k \in DOMAIN s : k = Max(live) /\ s[k] \notin dead
      BY <2>3, <3>2
    <3>4. s[k] \in Invocations /\ s[k] \in ToSet(s)
      BY DEF ToSet
    <3>5. Pc(s[k], "inflight")
      BY <2>1, <2>2, <3>4 DEF BridgingInv, OnStackInFlight
    <3>6. QED
      BY <2>4, <2>6, <3>3, <3>4, <3>5 DEF InFlight
  <2>7. QED
    BY <2>5, <2>6
<1>3. QED
  BY <1>1, <1>2

\* Every step of a call, a request from upstream or a sweep keeps BridgingInv.
LEMMA BridgingInvStep == BridgingInv /\ [BridgingNext]_bgvars => BridgingInv'
<1>. SUFFICES ASSUME BridgingInv, [BridgingNext]_bgvars PROVE BridgingInv'
  OBVIOUS
<1>. USE BridgingAssumption
<1>0. BridgingTypeOK /\ OnStackInFlight /\ NoDeadContext
  BY DEF BridgingInv
<1>. SUFFICES BridgingTypeOK' /\ OnStackInFlight'
              /\ (forwarded.end # "none" => forwarded.rode \in forwarded.inflight \cup {Fallback})'
  BY DEF BridgingInv, OnStackInFlight, NoDeadContext
<1>1. ASSUME NEW i \in Invocations, Find(i), callCtx # NoStack
      PROVE  BridgingTypeOK' /\ OnStackInFlight'
  <2>1. UNCHANGED <<callCtx, stacks, allowed, forwarded>> /\ dead' = dead \ {i}
        /\ call' = [call EXCEPT ![i] = [pc |-> "found", on |-> callCtx]]
    BY <1>1 DEF Find
  <2>2. BridgingTypeOK'
    BY <1>0, <1>1, <2>1 DEF BridgingTypeOK, Pc
  <2>3. QED
    BY <1>0, <1>1, <2>1, <2>2 DEF BridgingTypeOK, OnStackInFlight, Pc, Find
<1>2. ASSUME NEW i \in Invocations, Find(i), callCtx = NoStack
      PROVE  BridgingTypeOK' /\ OnStackInFlight'
  <2>1. /\ stacks' = Append(stacks, Fresh) /\ callCtx' = Len(stacks) + 1
        /\ call' = [call EXCEPT ![i] = [pc |-> "found", on |-> Len(stacks) + 1]]
        /\ UNCHANGED <<allowed, forwarded>> /\ dead' = dead \ {i}
    BY <1>2 DEF Find
  <2>2. Fresh \in [ctxs : Seq(Invocations), activity : Nat] /\ ToSet(Fresh.ctxs) = {}
        /\ NoRepeats(Fresh.ctxs)
    BY DEF Fresh, ToSet, NoRepeats
  <2>3. /\ stacks' \in Seq([ctxs : Seq(Invocations), activity : Nat])
        /\ DOMAIN stacks' = DOMAIN stacks \cup {Len(stacks) + 1} /\ Len(stacks) + 1 \notin DOMAIN stacks
        /\ stacks'[Len(stacks) + 1] = Fresh
        /\ \A n \in DOMAIN stacks : stacks'[n] = stacks[n]
    BY <1>0, <2>1, <2>2 DEF BridgingTypeOK
  <2>4. Len(stacks) + 1 # NoStack
    BY <1>0 DEF BridgingTypeOK
  <2>5. BridgingTypeOK'
    BY <1>0, <2>1, <2>3, <2>4 DEF BridgingTypeOK, Pc
  <2>6. \A j \in Invocations : call[j].on # Len(stacks) + 1
    BY <1>0, <2>3, <2>4 DEF BridgingTypeOK
  <2>7. \A j \in Invocations : j # i => call'[j] = call[j]
    BY <1>0, <2>1 DEF BridgingTypeOK
  <2>8. ~Pc(i, "inflight") /\ ~Pc(i, "inflight")'
    BY <1>0, <1>2, <2>1 DEF BridgingTypeOK, Pc, Find
  <2>9. QED
    BY <1>0, <2>2, <2>3, <2>5, <2>6, <2>7, <2>8 DEF OnStackInFlight, Pc
<1>3. ASSUME NEW i \in Invocations, PushCtx(i)
      PROVE  BridgingTypeOK' /\ OnStackInFlight'
  <2>. DEFINE n == call[i].on
              s == stacks[n].ctxs
  <2>1. n \in DOMAIN stacks /\ s \in Seq(Invocations)
    <3>1. n \in DOMAIN stacks
      BY <1>0, <1>3 DEF PushCtx, Pc, BridgingTypeOK
    <3>2. QED
      BY <1>0, <3>1, StackTyped
  <2>2. i \notin ToSet(s) /\ \A m \in DOMAIN stacks : i \notin ToSet(stacks[m].ctxs)
    BY <1>0, <1>3, <2>1 DEF PushCtx, Pc, OnStackInFlight
  <2>. HIDE DEF s
  <2>3. /\ Append(s, i) \in Seq(Invocations)
        /\ \A x : x \in ToSet(Append(s, i)) <=> x \in ToSet(s) \/ x = i
    <3>1. Append(s, i) \in Seq(Invocations) /\ DOMAIN Append(s, i) = DOMAIN s \cup {Len(s) + 1}
          /\ Append(s, i)[Len(s) + 1] = i /\ \A k \in DOMAIN s : Append(s, i)[k] = s[k]
      BY <2>1
    <3>2. QED
      BY <3>1 DEF ToSet
  <2>4. NoRepeats(s)
    BY <1>0, <2>1 DEF OnStackInFlight, s
  <2>5. NoRepeats(Append(s, i))
    BY <2>1, <2>2, <2>4 DEF NoRepeats, ToSet
  <2>6. stacks' = [stacks EXCEPT ![n].ctxs = Append(s, i)]
    BY <1>3 DEF PushCtx, s
  <2>7. /\ stacks' \in Seq([ctxs : Seq(Invocations), activity : Nat])
        /\ DOMAIN stacks' = DOMAIN stacks /\ stacks'[n].ctxs = Append(s, i)
        /\ \A m \in DOMAIN stacks : m # n => stacks'[m] = stacks[m]
    BY <1>0, <2>1, <2>3, <2>6, StackChanged
  <2>8. /\ call' \in [Invocations -> [pc : {"new", "found", "inflight", "discard"},
                                      on : {NoStack} \cup DOMAIN stacks]]
        /\ call'[i].pc = "inflight" /\ call'[i].on = n
        /\ \A j \in Invocations : j # i => call'[j] = call[j]
    BY <1>0, <1>3, CallMoved DEF PushCtx
  <2>9. BridgingTypeOK'
    <3>1. UNCHANGED <<callCtx, dead, allowed, forwarded>> /\ n # NoStack
      BY <1>0, <1>3, <2>1 DEF PushCtx, BridgingTypeOK
    <3>2. QED
      BY <1>0, <2>7, <2>8, <3>1 DEF BridgingTypeOK, Pc
  <2>10. ASSUME NEW m \in DOMAIN stacks' PROVE NoRepeats(stacks'[m].ctxs)
    BY <1>0, <2>5, <2>7 DEF OnStackInFlight
  <2>11. ASSUME NEW j \in Invocations, NEW m \in DOMAIN stacks'
         PROVE  j \in ToSet(stacks'[m].ctxs) <=> call'[j].pc = "inflight" /\ call'[j].on = m
    <3>1. CASE j = i
      BY <3>1, <2>2, <2>3, <2>7, <2>8
    <3>2. CASE j # i
      <4>1. j \in ToSet(stacks'[m].ctxs) <=> j \in ToSet(stacks[m].ctxs)
        BY <3>2, <2>3, <2>7 DEF s
      <4>2. j \in ToSet(stacks[m].ctxs) <=> call[j].pc = "inflight" /\ call[j].on = m
        BY <1>0, <2>7 DEF OnStackInFlight, Pc
      <4>3. call'[j] = call[j]
        BY <3>2, <2>8
      <4>4. QED
        BY <4>1, <4>2, <4>3
    <3>3. QED
      BY <3>1, <3>2
  <2>12. QED
    BY <2>9, <2>10, <2>11 DEF OnStackInFlight, Pc
<1>4. ASSUME NEW i \in Invocations, PopCtx(i)
      PROVE  BridgingTypeOK' /\ OnStackInFlight'
  <2>. DEFINE n == call[i].on
              s == stacks[n].ctxs
              w == Without(s, i)
  <2>1. n \in DOMAIN stacks /\ s \in Seq(Invocations) /\ n # NoStack
    <3>1. n \in DOMAIN stacks /\ n # NoStack
      BY <1>0, <1>4 DEF PopCtx, Pc, BridgingTypeOK
    <3>2. QED
      BY <1>0, <3>1, StackTyped
  <2>2. i \in ToSet(s) /\ NoRepeats(s)
    BY <1>0, <1>4, <2>1 DEF PopCtx, OnStackInFlight
  <2>3. w \in Seq(Invocations) /\ NoRepeats(w)
        /\ \A x : x \in ToSet(w) <=> x \in ToSet(s) /\ x # i
    BY <2>1, <2>2, WithoutTakesOne
  <2>4. stacks' = [stacks EXCEPT ![n].ctxs = w]
    BY <1>4 DEF PopCtx
  <2>5. PICK pc \in {"new", "discard"} : Becomes(i, pc)
    BY <1>4 DEF PopCtx
  <2>. HIDE DEF s, w
  <2>7. /\ stacks' \in Seq([ctxs : Seq(Invocations), activity : Nat])
        /\ DOMAIN stacks' = DOMAIN stacks /\ stacks'[n].ctxs = w
        /\ \A m \in DOMAIN stacks : m # n => stacks'[m] = stacks[m]
    BY <1>0, <2>1, <2>3, <2>4, StackChanged
  <2>8. /\ call' \in [Invocations -> [pc : {"new", "found", "inflight", "discard"},
                                      on : {NoStack} \cup DOMAIN stacks]]
        /\ call'[i].pc = pc /\ call'[i].on = n
        /\ \A j \in Invocations : j # i => call'[j] = call[j]
    BY <1>0, <2>5, CallMoved
  <2>9. BridgingTypeOK'
    <3>1. UNCHANGED <<callCtx, dead, allowed, forwarded>>
      BY <1>4 DEF PopCtx
    <3>2. QED
      BY <1>0, <2>1, <2>7, <2>8, <3>1 DEF BridgingTypeOK, Pc
  <2>10. ASSUME NEW m \in DOMAIN stacks' PROVE NoRepeats(stacks'[m].ctxs)
    BY <1>0, <2>3, <2>7 DEF OnStackInFlight
  <2>11. ASSUME NEW j \in Invocations, NEW m \in DOMAIN stacks'
         PROVE  j \in ToSet(stacks'[m].ctxs) <=> call'[j].pc = "inflight" /\ call'[j].on = m
    <3>1. CASE j = i
      <4>1. i \notin ToSet(stacks'[m].ctxs)
        <5>1. CASE m = n
          BY <5>1, <2>3, <2>7
        <5>2. CASE m # n
          BY <5>2, <1>0, <2>7 DEF OnStackInFlight
        <5>3. QED
          BY <5>1, <5>2
      <4>2. QED
        BY <3>1, <4>1, <2>8
    <3>2. CASE j # i
      <4>1. j \in ToSet(stacks'[m].ctxs) <=> j \in ToSet(stacks[m].ctxs)
        BY <3>2, <2>3, <2>7 DEF s
      <4>2. j \in ToSet(stacks[m].ctxs) <=> call[j].pc = "inflight" /\ call[j].on = m
        BY <1>0, <2>7 DEF OnStackInFlight, Pc
      <4>3. call'[j] = call[j]
        BY <3>2, <2>8
      <4>4. QED
        BY <4>1, <4>2, <4>3
    <3>3. QED
      BY <3>1, <3>2
  <2>12. QED
    BY <2>9, <2>10, <2>11 DEF OnStackInFlight, Pc
<1>5. ASSUME NEW i \in Invocations, Discard(i)
      PROVE  BridgingTypeOK' /\ OnStackInFlight'
  <2>1. UNCHANGED <<stacks, dead, allowed, forwarded>> /\ callCtx' = NoStack /\ Pc(i, "discard")
    BY <1>5 DEF Discard
  <2>2. /\ call' \in [Invocations -> [pc : {"new", "found", "inflight", "discard"},
                                      on : {NoStack} \cup DOMAIN stacks]]
        /\ call'[i].pc = "new" /\ call'[i].on = call[i].on
        /\ \A j \in Invocations : j # i => call'[j] = call[j]
    BY <1>0, <1>5, CallMoved DEF Discard
  <2>3. BridgingTypeOK'
    BY <1>0, <2>1, <2>2 DEF BridgingTypeOK, Pc
  <2>4. QED
    BY <1>0, <2>1, <2>2, <2>3 DEF OnStackInFlight, Pc
<1>6. ASSUME Notify PROVE BridgingTypeOK' /\ OnStackInFlight'
  <2>1. callCtx \in DOMAIN stacks /\ UNCHANGED <<callCtx, call, dead, allowed, forwarded>>
    BY <1>0, <1>6 DEF Notify, BridgingTypeOK
  <2>2. stacks[callCtx] \in [ctxs : Seq(Invocations), activity : Nat]
    BY <1>0, <2>1, StackTyped
  <2>3. stacks' = [stacks EXCEPT ![callCtx] =
                     [ctxs |-> stacks[callCtx].ctxs, activity |-> stacks[callCtx].activity + 1]]
    <3>1. [stacks[callCtx] EXCEPT !.activity = stacks[callCtx].activity + 1]
            = [ctxs |-> stacks[callCtx].ctxs, activity |-> stacks[callCtx].activity + 1]
      BY <2>2
    <3>2. stacks' = [stacks EXCEPT ![callCtx] =
                        [stacks[callCtx] EXCEPT !.activity = stacks[callCtx].activity + 1]]
      BY <1>6 DEF Notify
    <3>3. QED
      BY <3>1, <3>2
  <2>4. /\ stacks' \in Seq([ctxs : Seq(Invocations), activity : Nat])
        /\ DOMAIN stacks' = DOMAIN stacks
        /\ \A m \in DOMAIN stacks : stacks'[m].ctxs = stacks[m].ctxs
    BY <1>0, <2>1, <2>2, <2>3 DEF BridgingTypeOK
  <2>5. QED
    BY <1>0, <2>1, <2>4 DEF BridgingTypeOK, OnStackInFlight, Pc
<1>7. ASSUME Ask
      PROVE  BridgingTypeOK' /\ OnStackInFlight' /\ forwarded'.rode \in forwarded'.inflight \cup {Fallback}
  <2>1. /\ forwarded' = [rode |-> invocationCtx, inflight |-> InFlight, end |-> authorizeServerInitiated]
        /\ UNCHANGED <<callCtx, stacks, call, dead, allowed>>
    BY <1>7 DEF Ask
  <2>2. invocationCtx \in InFlight \cup {Fallback} /\ InFlight \subseteq Invocations
        /\ authorizeServerInitiated \in {"asking", "refused"}
    BY Rides DEF InFlight, authorizeServerInitiated
  <2>3. QED
    BY <1>0, <2>1, <2>2 DEF BridgingTypeOK, OnStackInFlight, Pc
<1>8. ASSUME Answered
      PROVE  BridgingTypeOK' /\ OnStackInFlight' /\ forwarded'.rode \in forwarded'.inflight \cup {Fallback}
  <2>1. forwarded' = [rode |-> forwarded.rode, inflight |-> forwarded.inflight, end |-> "answered"]
        /\ UNCHANGED <<callCtx, stacks, call, dead, allowed>>
    BY <1>0, <1>8 DEF Answered, BridgingTypeOK
  <2>2. forwarded.rode \in forwarded.inflight \cup {Fallback}
    BY <1>0, <1>8 DEF Answered, NoDeadContext
  <2>3. QED
    BY <1>0, <2>1, <2>2 DEF BridgingTypeOK, OnStackInFlight, Pc
<1>9. ASSUME ReloadPolicy \/ UNCHANGED bgvars PROVE BridgingTypeOK' /\ OnStackInFlight'
  <2>1. UNCHANGED <<callCtx, stacks, call, dead, forwarded>> /\ allowed' \in MayAsk
    BY <1>0, <1>9 DEF ReloadPolicy, bgvars, BridgingTypeOK
  <2>2. QED
    BY <1>0, <2>1 DEF BridgingTypeOK, OnStackInFlight, Pc
<1>13. ASSUME NEW i \in Invocations, CancelCall(i) PROVE BridgingTypeOK' /\ OnStackInFlight'
  <2>1. UNCHANGED <<callCtx, stacks, call, allowed, forwarded>> /\ dead' \subseteq Invocations
    BY <1>0, <1>13 DEF CancelCall, BridgingTypeOK
  <2>2. QED
    BY <1>0, <2>1 DEF BridgingTypeOK, OnStackInFlight, Pc
<1>10. CASE UNCHANGED forwarded
  <2>1. (forwarded.end # "none" => forwarded.rode \in forwarded.inflight \cup {Fallback})'
    BY <1>0, <1>10 DEF NoDeadContext
  <2>2. QED
    BY <2>1, <1>1, <1>2, <1>3, <1>4, <1>5, <1>6, <1>7, <1>8, <1>9, <1>13 DEF BridgingNext
<1>11. CASE Ask \/ Answered
  BY <1>11, <1>7, <1>8
<1>12. QED
  BY <1>10, <1>11 DEF BridgingNext, Find, PushCtx, PopCtx, Discard, CancelCall, Notify, ReloadPolicy, bgvars

\* pushCallCtx and its pop, for any number of calls of a session and however
\* they overlap, end or are cancelled: a call's context is on a stack exactly
\* while it is in flight, and an upstream's request rides that of a live call or
\* the session's own (invocationCtx).
THEOREM NoDeadContextCorrect == BridgingSpec => []NoDeadContext
<1>1. BridgingInv => NoDeadContext
  BY DEF BridgingInv
<1>2. QED
  BY <1>1, BridgingInvInit, BridgingInvStep, PTL DEF BridgingSpec
=============================================================================
