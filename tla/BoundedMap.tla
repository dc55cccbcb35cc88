------------------------------ MODULE BoundedMap ------------------------------
(***************************************************************************)
(* internal/bounded/map.go: the generational map behind task ownership,    *)
(* resource ownership, replay records, per-principal limiters and icons.   *)
(* Every operation runs under the map's lock, so each is one action.  An   *)
(* entry's expiry is "never" (ttl <= 0), "later", or "past" once the clock *)
(* has reached it.                                                         *)
(***************************************************************************)
EXTENDS Naturals, FiniteSets

CONSTANTS Keys, Vals, None,
          Max            \* limit of New

ASSUME MapAssumption ==
    /\ IsFiniteSet(Keys)
    /\ None \notin Vals
    /\ Max \in Nat

Entries == [val : Vals, exp : {"never", "later", "past"}]

\* No entry under a key.
Absent == [val |-> None, exp |-> "past"]

VARIABLES cur,      \* the live generation
          prev,     \* the previous generation
          got,      \* the result of the last Load or LoadOrStore
          touched   \* history: keys stored or found since the last rotation

mapVars == <<cur, prev, got, touched>>

Generation == [Keys -> Entries \cup {Absent}]

MapTypeOK ==
    /\ cur \in Generation
    /\ prev \in Generation
    /\ got \in Vals \cup {None}
    /\ touched \in SUBSET Keys

Empty == [k \in Keys |-> Absent]

MapInit ==
    /\ cur = Empty
    /\ prev = Empty
    /\ got = None
    /\ touched = {}

Dom(gen) == {k \in Keys : gen[k] # Absent}
Live(e) == e.exp # "past"

Without(gen, k) == [gen EXCEPT ![k] = Absent]

\* Mutant of HitCur: an entry's expiry is not looked at.
HitCurExpired(k) ==
    /\ k \in Dom(cur)
    /\ got' = cur[k].val
    /\ touched' = touched \cup {k}
    /\ UNCHANGED <<cur, prev>>

\* A read of k that finds it in the live generation.
HitCur(k) ==
    /\ Live(cur[k])
    /\ got' = cur[k].val
    /\ touched' = touched \cup {k}
    /\ UNCHANGED <<cur, prev>>

\* Mutant of HitPrev: a key found in the previous generation stays there.
HitPrevStays(k) ==
    /\ ~Live(cur[k])
    /\ Live(prev[k])
    /\ got' = prev[k].val
    /\ touched' = touched \cup {k}
    /\ UNCHANGED <<cur, prev>>

\* A read of k that finds it in the previous generation promotes it.
HitPrev(k) ==
    /\ ~Live(cur[k])
    /\ Live(prev[k])
    /\ cur' = [cur EXCEPT ![k] = prev[k]]
    /\ prev' = Without(prev, k)
    /\ got' = prev[k].val
    /\ touched' = touched \cup {k}

\* Load of a key found nowhere drops what is expired of it.
Miss(k) ==
    /\ ~Live(cur[k])
    /\ ~Live(prev[k])
    /\ cur' = Without(cur, k)
    /\ prev' = Without(prev, k)
    /\ got' = None
    /\ UNCHANGED touched

Load(k) == HitCur(k) \/ HitPrev(k) \/ Miss(k)

\* storeLocked starts a new generation.
Rotates(k) == k \notin Dom(cur) /\ Cardinality(Dom(cur)) >= Max

storeLocked(k, e) ==
    /\ cur' = [(IF Rotates(k) THEN Empty ELSE cur) EXCEPT ![k] = e]
    /\ prev' = Without(IF Rotates(k) THEN cur ELSE prev, k)
    /\ touched' = (IF Rotates(k) THEN {} ELSE touched) \cup {k}

NewEntries(v) == [val : {v}, exp : {"never", "later"}]

Store(k, v) ==
    /\ \E e \in NewEntries(v) : storeLocked(k, e)
    /\ UNCHANGED got

LoadOrStore(k, v) ==
    \/ HitCur(k)
    \/ HitPrev(k)
    \/ /\ ~Live(cur[k])
       /\ ~Live(prev[k])
       /\ \E e \in NewEntries(v) : storeLocked(k, e)
       /\ got' = v

Delete(k) ==
    /\ cur' = Without(cur, k)
    /\ prev' = Without(prev, k)
    /\ touched' = touched \ {k}
    /\ UNCHANGED got

\* The clock reaches an entry's expiry.
ExpireKey(k) ==
    /\ \/ /\ cur[k].exp = "later"
          /\ cur' = [cur EXCEPT ![k].exp = "past"]
          /\ UNCHANGED prev
       \/ /\ prev[k].exp = "later"
          /\ prev' = [prev EXCEPT ![k].exp = "past"]
          /\ UNCHANGED cur
    /\ touched' = touched \ {k}
    /\ UNCHANGED got

MapNext ==
    \E k \in Keys :
        \/ Load(k) \/ Delete(k) \/ ExpireKey(k)
        \/ \E v \in Vals : Store(k, v) \/ LoadOrStore(k, v)

MapSpec == MapInit /\ [][MapNext]_mapVars
-----------------------------------------------------------------------------
\* storeLocked: "one home per key".  No key is resident in both generations,
\* so no older value can come back when the newer one is dropped.
OneHome == Dom(cur) \cap Dom(prev) = {}

\* A key stored or read since the last rotation is in the live generation:
\* "a key in use survives a rotation".
InUseIsCurrent == touched \subseteq Dom(cur)

Held(k) == Live(cur[k]) \/ Live(prev[k])

\* "only keys untouched for a full generation are dropped": a key that was
\* stored or read since the last rotation goes away only by its own Delete
\* or its own expiry, never because another key is stored.
InUseSurvives ==
    [][\A k \in touched : Held(k) /\ ~Held(k)' => Delete(k) \/ ExpireKey(k)]_mapVars

\* What a reader sees under each key.
Visible == [k \in Keys |-> IF Live(cur[k]) THEN cur[k].val
                           ELSE IF Live(prev[k]) THEN prev[k].val
                           ELSE None]

Abstract == INSTANCE LossyMap WITH content <- Visible, ret <- got

\* The map implements the forgetful map its callers rely on.
ImplementsLossyMap == Abstract!Spec
=============================================================================
