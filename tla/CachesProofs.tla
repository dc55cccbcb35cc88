---------------------------- MODULE CachesProofs ----------------------------
(***************************************************************************)
(* Proofs about what the gateway keeps to answer from, for any keys,       *)
(* callers, requests, versions and limits: the generational map            *)
(* (BoundedMap) implements a forgetful one; the list cache, in Redis       *)
(* (RedisCache) or in process (ListCache), is as new as announced; HTTP    *)
(* requests (Front) are accounted for once; tokens are fetched by one      *)
(* caller at a time and assertions redeemed once (Exchange).               *)
(***************************************************************************)
EXTENDS MCCaches, FiniteSetTheorems, TLAPS

(* BoundedMap. *)

\* A key in use is live in the live generation.  InUseIsCurrent alone is not
\* inductive: Load drops an expired entry.
InUseIsLive == \A k \in touched : Live(cur[k])

\* OneHome, key by key.
Homes == \A k \in Keys : cur[k] = Absent \/ prev[k] = Absent

MapInv == MapTypeOK /\ Homes /\ InUseIsLive

\* An absent entry is not live, and a live one has a value.
LEMMA EntryFacts ==
    /\ ~Live(Absent)
    /\ Absent \notin Entries
    /\ \A e \in Entries \cup {Absent} : Live(e) => e \in Entries /\ e.val \in Vals
  BY MapAssumption DEF Live, Absent, Entries

\* The initial state satisfies the inductive invariant.
LEMMA MapInitInv == MapInit => MapInv
  BY DEF MapInit, MapInv, MapTypeOK, Homes, InUseIsLive, Empty, Generation

\* storeLocked keeps the invariant and leaves every other key with its value
\* or, in a rotation, without.
LEMMA StoreStep ==
    ASSUME MapInv, NEW k \in Keys, NEW v \in Vals, NEW e \in NewEntries(v),
           storeLocked(k, e), got' \in Vals \cup {None}
    PROVE  /\ MapInv'
           /\ Visible' \in [Keys -> Vals \cup {None}]
           /\ Visible'[k] = v
           /\ \A j \in Keys \ {k} : Visible'[j] \in {Visible[j], None}
           /\ \A j \in touched : Held(j)'
<1>1. e \in Entries /\ Live(e) /\ e.val = v /\ e # Absent
  BY MapAssumption DEF NewEntries, Entries, Live, Absent
<1>2. CASE Rotates(k)
  <2>1. /\ cur' = [j \in Keys |-> IF j = k THEN e ELSE Absent]
        /\ prev' = [cur EXCEPT ![k] = Absent]
        /\ touched' = {k}
    BY <1>2 DEF storeLocked, Without, Empty
  <2>2. MapTypeOK'
    BY <1>1, <2>1 DEF MapInv, MapTypeOK, Generation
  <2>3. Homes' /\ InUseIsLive'
    BY <1>1, <2>1 DEF MapInv, MapTypeOK, Generation, Homes, InUseIsLive
  <2>4. ASSUME NEW j \in Keys
        PROVE  Visible'[j] = IF j = k THEN v
                             ELSE IF Live(cur[j]) THEN cur[j].val ELSE None
    BY <1>1, <2>1, EntryFacts DEF Visible, MapInv, MapTypeOK, Generation
  <2>5. ASSUME NEW j \in touched PROVE Held(j)'
    BY <1>1, <2>1, <2>5 DEF Held, MapInv, MapTypeOK, Generation, InUseIsLive
  <2>6. \A j \in Keys \ {k} : Visible'[j] \in {Visible[j], None}
    BY <2>4 DEF Visible
  <2>7. Visible' \in [Keys -> Vals \cup {None}]
    <3>1. \A j \in Keys : Visible'[j] \in Vals \cup {None}
      BY <2>4, EntryFacts DEF MapInv, MapTypeOK, Generation
    <3>2. Visible' = [j \in Keys |-> Visible'[j]]
      BY DEF Visible
    <3>3. QED
      BY <3>1, <3>2
  <2>8. QED
    BY <2>2, <2>3, <2>4, <2>5, <2>6, <2>7 DEF MapInv
<1>3. CASE ~Rotates(k)
  <2>1. /\ cur' = [cur EXCEPT ![k] = e]
        /\ prev' = [prev EXCEPT ![k] = Absent]
        /\ touched' = touched \cup {k}
    BY <1>3 DEF storeLocked, Without
  <2>2. MapTypeOK'
    BY <1>1, <2>1 DEF MapInv, MapTypeOK, Generation
  <2>3. Homes' /\ InUseIsLive'
    BY <1>1, <2>1 DEF MapInv, MapTypeOK, Generation, Homes, InUseIsLive
  <2>4. ASSUME NEW j \in Keys
        PROVE  Visible'[j] = IF j = k THEN v ELSE Visible[j]
    BY <1>1, <2>1 DEF Visible, MapInv, MapTypeOK, Generation
  <2>5. ASSUME NEW j \in touched PROVE Held(j)'
    BY <1>1, <2>1, <2>5 DEF Held, MapInv, MapTypeOK, Generation, InUseIsLive
  <2>6. Visible' \in [Keys -> Vals \cup {None}]
    <3>1. \A j \in Keys : Visible'[j] \in Vals \cup {None}
      BY <2>4, EntryFacts DEF MapInv, MapTypeOK, Generation, Visible
    <3>2. Visible' = [j \in Keys |-> Visible'[j]]
      BY DEF Visible
    <3>3. QED
      BY <3>1, <3>2
  <2>7. QED
    BY <2>2, <2>3, <2>4, <2>5, <2>6 DEF MapInv
<1>4. QED
  BY <1>2, <1>3

\* A read that finds its key changes no key's value, whichever generation the
\* key was found in.
LEMMA HitStep ==
    ASSUME MapInv, NEW k \in Keys, HitCur(k) \/ HitPrev(k)
    PROVE  /\ MapInv'
           /\ Visible' = Visible
           /\ got' = Visible[k] /\ Visible[k] # None
           /\ \A j \in touched : Held(j)'
<1>. USE DEF MapInv, MapTypeOK, Generation, Homes, InUseIsLive
<1>1. CASE HitCur(k)
  <2>1. cur[k] \in Entries /\ cur[k].val \in Vals
    BY <1>1, EntryFacts DEF HitCur
  <2>2. QED
    BY <1>1, <2>1, MapAssumption DEF HitCur, Visible, Held
<1>2. CASE HitPrev(k)
  <2>1. prev[k] \in Entries /\ prev[k].val \in Vals
    BY <1>2, EntryFacts DEF HitPrev
  <2>2. /\ cur' = [cur EXCEPT ![k] = prev[k]]
        /\ prev' = [prev EXCEPT ![k] = Absent]
        /\ touched' = touched \cup {k} /\ got' = prev[k].val
        /\ ~Live(cur[k]) /\ Live(prev[k])
    BY <1>2 DEF HitPrev, Without
  <2>3. MapInv'
    BY <2>1, <2>2
  <2>4. Visible' = Visible /\ got' = Visible[k]
    BY <2>1, <2>2 DEF Visible
  <2>5. \A j \in touched : Held(j)'
    BY <2>2 DEF Held
  <2>6. QED
    BY <2>1, <2>2, <2>3, <2>4, <2>5, MapAssumption
<1>3. QED
  BY <1>1, <1>2

\* A read that does not find its key changes no key's value.
LEMMA MissStep ==
    ASSUME MapInv, NEW k \in Keys, Miss(k)
    PROVE  /\ MapInv'
           /\ Visible' = Visible
           /\ got' = Visible[k]
           /\ \A j \in touched : Held(j)'
<1>. USE DEF MapInv, MapTypeOK, Generation, Homes, InUseIsLive
<1>1. /\ cur' = [cur EXCEPT ![k] = Absent] /\ prev' = [prev EXCEPT ![k] = Absent]
      /\ touched' = touched /\ got' = None
      /\ ~Live(cur[k]) /\ ~Live(prev[k])
  BY DEF Miss, Without
<1>2. MapInv'
  BY <1>1
<1>3. Visible' = Visible /\ got' = Visible[k]
  BY <1>1, EntryFacts DEF Visible
<1>4. \A j \in touched : Held(j)'
  BY <1>1 DEF Held
<1>5. QED
  BY <1>2, <1>3, <1>4

\* Delete and expiry take exactly their own key away.
LEMMA DropStep ==
    ASSUME MapInv, NEW k \in Keys, Delete(k) \/ ExpireKey(k)
    PROVE  /\ MapInv'
           /\ Visible' = [Visible EXCEPT ![k] = None] \/ Visible' = Visible
           /\ got' = got
           /\ \A j \in touched : j # k => Held(j)'
<1>. USE DEF MapInv, MapTypeOK, Generation, Homes, InUseIsLive
<1>1. CASE Delete(k)
  <2>1. /\ cur' = [cur EXCEPT ![k] = Absent] /\ prev' = [prev EXCEPT ![k] = Absent]
        /\ touched' = touched \ {k} /\ got' = got
    BY <1>1 DEF Delete, Without
  <2>2. MapInv'
    BY <2>1
  <2>3. Visible' = [Visible EXCEPT ![k] = None]
    BY <2>1, EntryFacts DEF Visible
  <2>4. \A j \in touched : j # k => Held(j)'
    BY <2>1 DEF Held
  <2>5. QED
    BY <2>1, <2>2, <2>3, <2>4
<1>2. ASSUME cur[k].exp = "later", cur' = [cur EXCEPT ![k].exp = "past"], prev' = prev,
             touched' = touched \ {k}, got' = got
      PROVE  MapInv' /\ Visible' = [Visible EXCEPT ![k] = None] /\ \A j \in touched : j # k => Held(j)'
  <2>1. cur[k] \in Entries /\ cur[k] # Absent
    BY <1>2 DEF Absent
  <2>2. prev[k] = Absent
    BY <2>1
  <2>3. cur'[k] \in Entries /\ ~Live(cur'[k])
    BY <1>2, <2>1 DEF Entries, Live
  <2>4. MapInv'
    BY <1>2, <2>2, <2>3
  <2>5. Visible' = [Visible EXCEPT ![k] = None]
    BY <1>2, <2>2, <2>3, EntryFacts DEF Visible
  <2>6. \A j \in touched : j # k => Held(j)'
    BY <1>2 DEF Held
  <2>7. QED
    BY <2>4, <2>5, <2>6
<1>3. ASSUME prev[k].exp = "later", prev' = [prev EXCEPT ![k].exp = "past"], cur' = cur,
             touched' = touched \ {k}, got' = got
      PROVE  MapInv' /\ Visible' = [Visible EXCEPT ![k] = None] /\ \A j \in touched : j # k => Held(j)'
  <2>1. prev[k] \in Entries /\ prev[k] # Absent
    BY <1>3 DEF Absent
  <2>2. cur[k] = Absent
    BY <2>1
  <2>3. prev'[k] \in Entries /\ ~Live(prev'[k])
    BY <1>3, <2>1 DEF Entries, Live
  <2>4. MapInv'
    BY <1>3, <2>2, <2>3
  <2>5. Visible' = [Visible EXCEPT ![k] = None]
    BY <1>3, <2>2, <2>3, EntryFacts DEF Visible
  <2>6. \A j \in touched : j # k => Held(j)'
    BY <1>3 DEF Held
  <2>7. QED
    BY <2>4, <2>5, <2>6
<1>. HIDE DEF MapInv, MapTypeOK, Generation, Homes, InUseIsLive
<1>4. QED
  BY <1>1, <1>2, <1>3 DEF ExpireKey
-----------------------------------------------------------------------------
\* What one step of the map is, seen from outside.
LEMMA StepSeen ==
    ASSUME MapInv, [MapNext]_mapVars
    PROVE  /\ MapInv'
           /\ Abstract!Next \/ UNCHANGED <<Visible, got>>
           /\ [\A k \in touched : Held(k) /\ ~Held(k)' => Delete(k) \/ ExpireKey(k)]_mapVars
<1>1. ASSUME NEW k \in Keys, HitCur(k) \/ HitPrev(k)
      PROVE  /\ MapInv' /\ Abstract!Load(k) /\ Visible[k] # None
             /\ \A j \in touched : Held(j)'
  BY <1>1, HitStep DEF Abstract!Load
<1>2. ASSUME NEW k \in Keys, Miss(k)
      PROVE  MapInv' /\ Abstract!Load(k) /\ \A j \in touched : Held(j)'
  BY <1>2, MissStep DEF Abstract!Load
<1>3. ASSUME NEW k \in Keys, NEW v \in Vals, Store(k, v)
      PROVE  MapInv' /\ Abstract!Store(k, v) /\ \A j \in touched : Held(j)'
  <2>1. PICK e \in NewEntries(v) : storeLocked(k, e)
    BY <1>3 DEF Store
  <2>2. got' = got /\ got \in Vals \cup {None}
    BY <1>3 DEF Store, MapInv, MapTypeOK
  <2>3. QED
    BY <2>1, <2>2, StoreStep DEF Abstract!Store, Abstract!Bind
<1>4. ASSUME NEW k \in Keys, NEW v \in Vals, LoadOrStore(k, v)
      PROVE  MapInv' /\ Abstract!LoadOrStore(k, v) /\ \A j \in touched : Held(j)'
  <2>1. CASE HitCur(k) \/ HitPrev(k)
    BY <1>1, <2>1 DEF Abstract!LoadOrStore
  <2>2. CASE /\ ~Live(cur[k]) /\ ~Live(prev[k])
             /\ \E e \in NewEntries(v) : storeLocked(k, e)
             /\ got' = v
    <3>1. PICK e \in NewEntries(v) : storeLocked(k, e)
      BY <2>2
    <3>2. Visible[k] = None
      BY <2>2 DEF Visible
    <3>3. /\ MapInv' /\ Visible' \in [Keys -> Vals \cup {None}] /\ Visible'[k] = v
          /\ \A j \in Keys \ {k} : Visible'[j] \in {Visible[j], None}
          /\ \A j \in touched : Held(j)'
      BY <2>2, <3>1, StoreStep
    <3>4. QED
      BY <2>2, <3>2, <3>3 DEF Abstract!LoadOrStore, Abstract!Bind
  <2>3. QED
    BY <1>4, <2>1, <2>2 DEF LoadOrStore
<1>5. ASSUME NEW k \in Keys, Delete(k) \/ ExpireKey(k)
      PROVE  /\ MapInv'
             /\ Abstract!Drop(k) \/ UNCHANGED <<Visible, got>>
             /\ \A j \in touched : j # k => Held(j)'
  BY <1>5, DropStep DEF Abstract!Drop
<1>6. ASSUME UNCHANGED mapVars
      PROVE  MapInv' /\ UNCHANGED <<Visible, got>>
  BY <1>6 DEF mapVars, MapInv, MapTypeOK, Homes, InUseIsLive, Visible
<1>7. CASE UNCHANGED mapVars
  BY <1>6, <1>7
<1>8. ASSUME NEW k \in Keys, Load(k)
      PROVE  MapInv' /\ Abstract!Next /\ \A j \in touched : Held(j)'
  BY <1>1, <1>2, <1>8 DEF Load, Abstract!Next
<1>9. ASSUME NEW k \in Keys, NEW v \in Vals, Store(k, v) \/ LoadOrStore(k, v)
      PROVE  MapInv' /\ Abstract!Next /\ \A j \in touched : Held(j)'
  BY <1>3, <1>4, <1>9 DEF Abstract!Next
<1>10. ASSUME NEW k \in Keys, Delete(k) \/ ExpireKey(k)
       PROVE  /\ MapInv'
              /\ Abstract!Next \/ UNCHANGED <<Visible, got>>
              /\ \A j \in touched : Held(j) /\ ~Held(j)' => Delete(j) \/ ExpireKey(j)
  BY <1>5, <1>10 DEF Abstract!Next
<1>11. QED
  BY <1>7, <1>8, <1>9, <1>10 DEF MapNext

\* The map is well typed and no key has two homes, and a key in use is in the
\* live generation (Map.Load, Map.LoadOrStore, Map.storeLocked).
THEOREM HomesCorrect == MapSpec => [](MapTypeOK /\ OneHome /\ InUseIsCurrent)
<1>1. MapInv => MapTypeOK /\ OneHome /\ InUseIsCurrent
  BY EntryFacts DEF MapInv, MapTypeOK, Homes, InUseIsLive, OneHome, InUseIsCurrent, Dom
<1>2. MapInv /\ [MapNext]_mapVars => MapInv'
  BY StepSeen
<1>3. QED
  BY <1>1, <1>2, MapInitInv, PTL DEF MapSpec

\* "only keys untouched for a full generation are dropped" (map.go).
THEOREM InUseSurvivesCorrect == MapSpec => InUseSurvives
<1>1. MapInv /\ [MapNext]_mapVars => MapInv'
  BY StepSeen
<1>2. MapInv /\ [MapNext]_mapVars =>
          [\A k \in touched : Held(k) /\ ~Held(k)' => Delete(k) \/ ExpireKey(k)]_mapVars
  BY StepSeen
<1>3. QED
  BY <1>1, <1>2, MapInitInv, PTL DEF MapSpec, InUseSurvives

\* The generational map implements the forgetful map: a value found is the
\* one stored last, and a deleted or expired key does not come back.
THEOREM Refinement == MapSpec => ImplementsLossyMap
<1>1. MapInit => Abstract!Init
  BY EntryFacts DEF MapInit, Empty, Abstract!Init, Visible
<1>2. MapInv /\ [MapNext]_mapVars => MapInv'
  BY StepSeen
<1>3. MapInv /\ [MapNext]_mapVars => [Abstract!Next]_(Abstract!vars)
  BY StepSeen DEF Abstract!vars
<1>4. QED
  BY <1>1, <1>2, <1>3, MapInitInv, PTL DEF MapSpec, ImplementsLossyMap, Abstract!Spec

-----------------------------------------------------------------------------
(* RedisCache. *)

\* The generations: later ones are still empty, and each holds only what
\* was fetched after it began.
GenInv ==
    /\ announced <= version
    /\ \A g \in Gens : base[g] <= version
    /\ \A g \in Gens : g > gen => data[g] = NoData
    /\ NoOldFillUnderNewGen

\* A caller in GetOrFill: its generation has begun, and what it fetched is
\* no older than that generation.
CallerInv(c) ==
    /\ mygen[c] <= gen
    /\ pc[c] = "set" => fetched[c] >= base[mygen[c]]

\* The same measured against what was announced when the call began.
FreshCaller(c) ==
    /\ floor[c] <= announced
    /\ pc[c] \in {"get", "fill", "set"} => floor[c] <= base[mygen[c]]
    /\ outcome[c] = "list" => ret[c] >= floor[c]

RedisInv ==
    /\ TypeOK
    /\ GenInv
    /\ \A c \in Callers : CallerInv(c)
    /\ base[gen] = announced
    /\ \A c \in Callers : FreshCaller(c)

\* The bounds give the ranges the arithmetic below needs.
LEMMA Ranges ==
    /\ 0 \in Versions /\ \A v \in Versions : v \in Nat
    /\ 0 \in Gens /\ \A g \in Gens : g \in Nat
  BY RedisCacheAssumption DEF Versions, Gens

\* The initial state satisfies the inductive invariant.
LEMMA RedisInitInv == Init => RedisInv
<1>. SUFFICES ASSUME Init PROVE RedisInv
  OBVIOUS
<1>. USE Ranges, RedisCacheAssumption DEF Init
<1>1. TypeOK
  BY DEF TypeOK
<1>2. GenInv
  BY DEF GenInv, NoOldFillUnderNewGen
<1>3. ASSUME NEW c \in Callers PROVE CallerInv(c) /\ FreshCaller(c)
  <2>1. mygen[c] = 0 /\ pc[c] = "idle" /\ floor[c] = 0 /\ outcome[c] = "none"
    BY <1>3
  <2>2. QED
    BY <2>1 DEF CallerInv, FreshCaller
<1>4. QED
  BY <1>1, <1>2, <1>3 DEF RedisInv

\* Every step of GetOrFill, on any instance, keeps the types.
LEMMA StepType == TypeOK /\ [Next]_vars => TypeOK'
<1>. SUFFICES ASSUME TypeOK, [Next]_vars PROVE TypeOK'
  OBVIOUS
<1>. USE Ranges, RedisCacheAssumption DEF TypeOK
<1>1. ASSUME NEW c \in Callers, ReadGen(c) \/ ReadGenFails(c) PROVE TypeOK'
  BY <1>1 DEF ReadGen, ReadGenFails, Begin, world
<1>2. ASSUME NEW c \in Callers, GetHit(c) \/ GetMiss(c) PROVE TypeOK'
  BY <1>2 DEF GetHit, GetMiss, Return, world
<1>3. ASSUME NEW c \in Callers, Fetch(c) \/ FetchFails(c) PROVE TypeOK'
  BY <1>3 DEF Fetch, FetchFails, world
<1>4. ASSUME NEW c \in Callers, SetData(c) \/ SetFails(c) \/ DirectFill(c) PROVE TypeOK'
  BY <1>4 DEF SetData, SetFails, DirectFill, Return, world
<1>5. CASE Change
  BY <1>5 DEF Change, calls, Versions
<1>6. CASE Invalidate
  BY <1>6 DEF Invalidate, calls, Gens
<1>7. ASSUME NEW g \in Gens, Expire(g) PROVE TypeOK'
  BY <1>7 DEF Expire, calls, world
<1>8. CASE UNCHANGED vars
  BY <1>8 DEF vars, calls
<1>. HIDE DEF TypeOK
<1>9. QED
  BY <1>1, <1>2, <1>3, <1>4, <1>5, <1>6, <1>7, <1>8 DEF Next
-----------------------------------------------------------------------------
\* Callers store where they read, so no step puts an old list into a newer
\* generation.
LEMMA StepGen == RedisInv /\ TypeOK' /\ [Next]_vars => GenInv'
<1>. SUFFICES ASSUME RedisInv, TypeOK', [Next]_vars PROVE GenInv'
  OBVIOUS
<1>0. TypeOK /\ GenInv /\ \A c \in Callers : CallerInv(c)
  BY DEF RedisInv
<1>. USE <1>0, Ranges, RedisCacheAssumption
     DEF TypeOK, GenInv, NoOldFillUnderNewGen, CallerInv
<1>1. ASSUME NEW c \in Callers, ReadGen(c) PROVE GenInv'
  BY <1>1 DEF ReadGen, Begin, world
<1>2. ASSUME NEW c \in Callers, ReadGenFails(c) PROVE GenInv'
  BY <1>2 DEF ReadGenFails, Begin, world
<1>3. ASSUME NEW c \in Callers, GetHit(c) PROVE GenInv'
  BY <1>3 DEF GetHit, Return, world
<1>4. ASSUME NEW c \in Callers, GetMiss(c) PROVE GenInv'
  BY <1>4 DEF GetMiss, world
<1>5. ASSUME NEW c \in Callers, Fetch(c) PROVE GenInv'
  BY <1>5 DEF Fetch, world
<1>6. ASSUME NEW c \in Callers, FetchFails(c) PROVE GenInv'
  BY <1>6 DEF FetchFails, world
<1>7. ASSUME NEW c \in Callers, SetData(c) PROVE GenInv'
  BY <1>7 DEF SetData, Return, world
<1>8. ASSUME NEW c \in Callers, SetFails(c) PROVE GenInv'
  BY <1>8 DEF SetFails, Return, world
<1>9. ASSUME NEW c \in Callers, DirectFill(c) PROVE GenInv'
  BY <1>9 DEF DirectFill, Return, world
<1>10. CASE Change
  <2>1. version \in Nat /\ version' = version + 1 /\ announced \in Nat
    BY <1>10 DEF Change
  <2>2. ASSUME NEW g \in Gens PROVE base'[g] <= version'
    <3>1. base'[g] = base[g] /\ base[g] \in Nat /\ base[g] <= version
      BY <1>10 DEF Change
    <3>2. QED
      BY <2>1, <3>1
  <2>3. announced' <= version'
    BY <1>10, <2>1 DEF Change
  <2>4. QED
    BY <1>10, <2>2, <2>3 DEF Change
<1>11. CASE Invalidate
  BY <1>11 DEF Invalidate, calls, Gens
<1>12. ASSUME NEW g \in Gens, Expire(g) PROVE GenInv'
  BY <1>12 DEF Expire, calls, world
<1>13. CASE UNCHANGED vars
  BY <1>13 DEF vars, calls
<1>. HIDE DEF TypeOK, GenInv, NoOldFillUnderNewGen, CallerInv
<1>14. QED
  BY <1>1, <1>2, <1>3, <1>4, <1>5, <1>6, <1>7, <1>8, <1>9, <1>10, <1>11,
     <1>12, <1>13, Zenon DEF Next

\* A caller's generation only gets older.
LEMMA StepCaller ==
    ASSUME RedisInv, TypeOK', [Next]_vars, NEW d \in Callers
    PROVE  CallerInv(d)'
<1>0. TypeOK /\ GenInv /\ CallerInv(d)
  BY DEF RedisInv
<1>. USE <1>0, Ranges, RedisCacheAssumption DEF TypeOK, GenInv, CallerInv
<1>1. ASSUME NEW c \in Callers, ReadGen(c) PROVE CallerInv(d)'
  BY <1>1 DEF ReadGen, Begin, world
<1>2. ASSUME NEW c \in Callers, ReadGenFails(c) PROVE CallerInv(d)'
  BY <1>2 DEF ReadGenFails, Begin, world
<1>3. ASSUME NEW c \in Callers, GetHit(c) PROVE CallerInv(d)'
  BY <1>3 DEF GetHit, Return, world
<1>4. ASSUME NEW c \in Callers, GetMiss(c) PROVE CallerInv(d)'
  BY <1>4 DEF GetMiss, world
<1>5. ASSUME NEW c \in Callers, Fetch(c) PROVE CallerInv(d)'
  BY <1>5 DEF Fetch, world
<1>6. ASSUME NEW c \in Callers, FetchFails(c) PROVE CallerInv(d)'
  BY <1>6 DEF FetchFails, world
<1>7. ASSUME NEW c \in Callers, SetData(c) PROVE CallerInv(d)'
  BY <1>7 DEF SetData, Return, world
<1>8. ASSUME NEW c \in Callers, SetFails(c) PROVE CallerInv(d)'
  BY <1>8 DEF SetFails, Return, world
<1>9. ASSUME NEW c \in Callers, DirectFill(c) PROVE CallerInv(d)'
  BY <1>9 DEF DirectFill, Return, world
<1>10. CASE Change
  BY <1>10 DEF Change, calls
<1>11. CASE Invalidate
  BY <1>11 DEF Invalidate, calls, Gens
<1>12. ASSUME NEW g \in Gens, Expire(g) PROVE CallerInv(d)'
  BY <1>12 DEF Expire, calls, world
<1>13. CASE UNCHANGED vars
  BY <1>13 DEF vars, calls
<1>. HIDE DEF TypeOK, GenInv, CallerInv
<1>14. QED
  BY <1>1, <1>2, <1>3, <1>4, <1>5, <1>6, <1>7, <1>8, <1>9, <1>10, <1>11,
     <1>12, <1>13, Zenon DEF Next

\* The current generation began with the latest announcement.
LEMMA StepBase ==
    ASSUME RedisInv, TypeOK', [Next]_vars
    PROVE  base'[gen'] = announced'
<1>0. TypeOK /\ base[gen] = announced
  BY DEF RedisInv
<1>1. CASE Invalidate
  <2>1. gen + 1 \in Gens
    BY <1>0, <1>1, RedisCacheAssumption DEF Invalidate, Gens, TypeOK
  <2>2. QED
    BY <1>0, <1>1, <2>1 DEF Invalidate, TypeOK
<1>2. CASE UNCHANGED <<gen, base, announced>>
  BY <1>0, <1>2
<1>3. Invalidate \/ UNCHANGED <<gen, base, announced>>
  BY DEF Next, ReadGen, ReadGenFails, GetHit, GetMiss, Fetch, FetchFails, SetData,
         SetFails, DirectFill, Change, Expire, vars, world
<1>4. QED
  BY <1>1, <1>2, <1>3

\* A caller's generation began with what was announced
\* when its call did, or with something newer.
LEMMA StepFresh ==
    ASSUME RedisInv, TypeOK', [Next]_vars, NEW d \in Callers
    PROVE  FreshCaller(d)'
<1>0. TypeOK /\ GenInv /\ CallerInv(d) /\ FreshCaller(d) /\ base[gen] = announced
  BY DEF RedisInv
<1>m. mygen[d] \in Gens
  BY <1>0 DEF TypeOK
<1>n. /\ version \in Nat /\ announced \in Nat /\ floor[d] \in Nat
      /\ fetched[d] \in Nat /\ base[mygen[d]] \in Nat
  BY <1>0, <1>m, Ranges DEF TypeOK
<1>o. data[mygen[d]] # NoData =>
          data[mygen[d]] \in Nat /\ data[mygen[d]] >= base[mygen[d]]
  BY <1>0, <1>m, Ranges DEF TypeOK, GenInv, NoOldFillUnderNewGen
<1>. USE <1>0, <1>m, <1>n, <1>o DEF TypeOK, GenInv, CallerInv, FreshCaller
<1>1. ASSUME NEW c \in Callers, ReadGen(c) PROVE FreshCaller(d)'
  BY <1>1 DEF ReadGen, Begin, world
<1>2. ASSUME NEW c \in Callers, ReadGenFails(c) PROVE FreshCaller(d)'
  BY <1>2 DEF ReadGenFails, Begin, world
<1>3. ASSUME NEW c \in Callers, GetHit(c) PROVE FreshCaller(d)'
  BY <1>3 DEF GetHit, Return, world
<1>4. ASSUME NEW c \in Callers, GetMiss(c) PROVE FreshCaller(d)'
  BY <1>4 DEF GetMiss, world
<1>5. ASSUME NEW c \in Callers, Fetch(c) PROVE FreshCaller(d)'
  BY <1>5 DEF Fetch, world
<1>6. ASSUME NEW c \in Callers, FetchFails(c) PROVE FreshCaller(d)'
  BY <1>6 DEF FetchFails, world
<1>7. ASSUME NEW c \in Callers, SetData(c) PROVE FreshCaller(d)'
  BY <1>7 DEF SetData, Return, world
<1>8. ASSUME NEW c \in Callers, SetFails(c) PROVE FreshCaller(d)'
  BY <1>8 DEF SetFails, Return, world
<1>9. ASSUME NEW c \in Callers, DirectFill(c) PROVE FreshCaller(d)'
  BY <1>9 DEF DirectFill, Return, world
<1>10. CASE Change
  BY <1>10 DEF Change, calls
<1>11. CASE Invalidate
  BY <1>11 DEF Invalidate, calls, Gens
<1>12. ASSUME NEW g \in Gens, Expire(g) PROVE FreshCaller(d)'
  BY <1>12 DEF Expire, calls, world
<1>13. CASE UNCHANGED vars
  BY <1>13 DEF vars, calls
<1>. HIDE DEF TypeOK, GenInv, CallerInv, FreshCaller
<1>14. QED
  BY <1>1, <1>2, <1>3, <1>4, <1>5, <1>6, <1>7, <1>8, <1>9, <1>10, <1>11,
     <1>12, <1>13, Zenon DEF Next

\* Every step keeps the inductive invariant.
LEMMA RedisStepInv == RedisInv /\ [Next]_vars => RedisInv'
<1>. SUFFICES ASSUME RedisInv, [Next]_vars PROVE RedisInv'
  OBVIOUS
<1>1. TypeOK'
  BY StepType DEF RedisInv
<1>2. GenInv' /\ \A c \in Callers : CallerInv(c)'
  BY <1>1, StepGen, StepCaller
<1>3. base'[gen'] = announced' /\ \A c \in Callers : FreshCaller(c)'
  BY <1>1, StepBase, StepFresh
<1>4. QED
  BY <1>1, <1>2, <1>3 DEF RedisInv

\* RedisCache's variables always have their types: no caller takes a missing
\* key for a list.
THEOREM TypeCorrect == Spec => []TypeOK
<1>1. RedisInv => TypeOK
  BY DEF RedisInv
<1>2. QED
  BY <1>1, RedisInitInv, RedisStepInv, PTL DEF Spec

\* redisCache.GetOrFill stores under the generation it read before the fill:
\* no list fetched before an invalidation is ever found after it.
THEOREM GenerationsCorrect == Spec => []NoOldFillUnderNewGen
<1>1. RedisInv => NoOldFillUnderNewGen
  BY DEF RedisInv, GenInv
<1>2. QED
  BY <1>1, RedisInitInv, RedisStepInv, PTL DEF Spec

\* Invalidate's INCR: a call that begins after one has reached Redis returns
\* a list at least as new as the change it announced.
THEOREM FreshCorrect == Spec => []SeesAnnounced
<1>1. RedisInv => SeesAnnounced
  BY DEF RedisInv, FreshCaller, SeesAnnounced
<1>2. QED
  BY <1>1, RedisInitInv, RedisStepInv, PTL DEF Spec

-----------------------------------------------------------------------------
(* Front. *)

Refusals == {401, 403, 408, 413, 429, 500}
ReqType == [at : Places, status : Nat, rt : 0..SnapCap, began : 0..SnapCap, flight : Nat]

\* The events of a request that is at a place, with the status it has there.
Events(s, at, status) ==
    IF at = "done" THEN Due(s, status)
    ELSE IF at = "unwind" /\ s.path = "token" THEN 1 ELSE 0

\* Where a request to the token endpoint can be.
TokenPlaces == {"new", "host", "body", "tokenLimit", "serve", "unwind", "done"}

\* What holds of one request: the events that go with its place and status, the
\* snapshot it reads, and that only the leader of the flight is about to fetch.
ReqInv(r) ==
    /\ audited[r] = Events(shape[r], req[r].at, req[r].status)
    /\ req[r].at = "unwind" => req[r].status = 413 /\ shape[r].body = "chunked"
    /\ shape[r].path = "token" => req[r].at \in TokenPlaces
    /\ req[r].at = "new" => req[r].rt = 0
    /\ req[r].began <= snap
    /\ req[r].rt # 0 => req[r].rt >= req[r].began
    /\ req[r].at \in {"recheck", "fetch"} => flights.leader = r
    /\ req[r].at = "fetch" => ~icon

FrontInv == FrontTypeOK /\ \A r \in Requests : ReqInv(r)

\* The front starts with FrontInv.
LEMMA FrontInitially == FrontInit => FrontInv
<1>. SUFFICES ASSUME FrontInit PROVE FrontInv
  OBVIOUS
<1>. USE FrontAssumption
<1>1. FrontTypeOK
  <2>1. alive \in BOOLEAN /\ icon \in BOOLEAN
    BY Zenon DEF FrontInit
  <2>2. req \in [Requests -> ReqType]
    BY DEF FrontInit, ReqType, Places
  <2>3. left \in [DOMAIN Buckets -> Nat] /\ \A b \in DOMAIN Buckets : left[b] <= Buckets[b]
    BY DEF FrontInit
  <2>4. QED
    BY <2>1, <2>2, <2>3 DEF FrontInit, FrontTypeOK, ReqType
<1>2. QED
  BY <1>1 DEF FrontInit, FrontInv, ReqInv, Events, TokenPlaces

\* A request in progress moves to where it may be, with the events due there.
LEMMA RequestMoves ==
    ASSUME FrontInv, NEW r \in Requests, req[r].at \notin {"new", "done"},
           NEW at \in Places \ {"new"}, NEW status \in Nat, NEW rt \in 0..SnapCap,
           Put(r, at, status, rt),
           audited' = [audited EXCEPT ![r] = Events(shape[r], at, status)],
           snap' = snap, shape' = shape,
           rt # 0 => rt >= req[r].began,
           at = "unwind" => status = 413 /\ shape[r].body = "chunked",
           shape[r].path = "token" => at \in TokenPlaces,
           at \in {"recheck", "fetch"} => flights'.leader = r,
           at = "fetch" => ~icon',
           \A s \in Requests \ {r} : /\ req[s].at \in {"recheck", "fetch"} => flights'.leader = s
                                     /\ req[s].at = "fetch" => ~icon'
    PROVE  req' \in [Requests -> ReqType] /\ audited' \in [Requests -> Nat] /\ \A s \in Requests : ReqInv(s)'
<1>. DEFINE q == [at |-> at, status |-> status, rt |-> rt, began |-> req[r].began, flight |-> req[r].flight]
<1>1. req \in [Requests -> ReqType] /\ audited \in [Requests -> Nat] /\ snap \in Nat
  BY FrontAssumption DEF FrontInv, FrontTypeOK, ReqType
<1>2. req' = [req EXCEPT ![r] = q] /\ q \in ReqType
  BY <1>1 DEF Put, ReqType
<1>3. req'[r] = q /\ \A s \in Requests \ {r} : req'[s] = req[s] /\ audited'[s] = audited[s]
  BY <1>1, <1>2
<1>4. Events(shape[r], at, status) \in Nat
  BY DEF Events, Due
<1>5. audited'[r] = Events(shape[r], at, status)
  BY <1>1
<1>6. req' \in [Requests -> ReqType] /\ audited' \in [Requests -> Nat]
  BY <1>1, <1>2, <1>4
<1>7. ReqInv(r)'
  BY <1>3, <1>5 DEF ReqInv, FrontInv
<1>8. ASSUME NEW s \in Requests \ {r} PROVE ReqInv(s)'
  BY <1>3, <1>8 DEF ReqInv, FrontInv
<1>9. QED
  BY <1>6, <1>7, <1>8

\* A request that goes on has no event yet, unless ServeToken reported it.
LEMMA NoneYet ==
    ASSUME FrontInv, NEW r \in Requests, req[r].at \notin {"done", "unwind"}
    PROVE  /\ audited \in [Requests -> Nat] /\ audited[r] = 0
           /\ audited = [audited EXCEPT ![r] = 0]
           /\ [audited EXCEPT ![r] = @ + 1] = [audited EXCEPT ![r] = 1]
<1>1. audited \in [Requests -> Nat]
  BY DEF FrontInv, FrontTypeOK
<1>2. audited[r] = 0
  BY DEF FrontInv, ReqInv, Events
<1>3. QED
  BY <1>1, <1>2

\* The same, when nothing but the request changes.
LEMMA QuietMove ==
    ASSUME FrontInv, NEW r \in Requests, req[r].at \notin {"new", "done", "unwind"},
           NEW at \in Places \ {"new", "recheck", "unwind"}, NEW status \in Nat, NEW rt \in 0..SnapCap,
           Put(r, at, status, rt), Quiet,
           at = "done" => Due(shape[r], status) = 0,
           shape[r].path = "token" => at \in TokenPlaces,
           rt # 0 => rt >= req[r].began,
           at = "fetch" => req[r].at = "recheck" /\ ~icon
    PROVE  FrontInv'
<1>1. req' \in [Requests -> ReqType] /\ audited' \in [Requests -> Nat] /\ \A s \in Requests : ReqInv(s)'
  <2>1. \A s \in Requests : /\ req[s].at \in {"recheck", "fetch"} => flights'.leader = s
                            /\ req[s].at = "fetch" => ~icon'
    BY DEF FrontInv, ReqInv, Quiet
  <2>2. snap' = snap /\ icon' = icon /\ shape' = shape
    BY DEF Quiet
  <2>4. audited' = [audited EXCEPT ![r] = Events(shape[r], at, status)]
    <3>1. Events(shape[r], at, status) = 0
      BY DEF Events
    <3>2. QED
      BY <3>1, NoneYet DEF Quiet
  <2>3. QED
    BY <2>1, <2>2, <2>4, RequestMoves
<1>2. QED
  BY <1>1 DEF FrontInv, FrontTypeOK, Quiet, ReqType

\* An event more ends a request, with the events that are due.
LEMMA Ends ==
    ASSUME FrontInv, NEW r \in Requests, req[r].at \notin {"new", "done"},
           NEW code \in Nat, Done(r, code), Emit(r),
           audited[r] + 1 = Due(shape[r], code),
           UNCHANGED <<shape, left, snap, alive, flights, icon>>,
           health' \in [by : Requests \cup {Nobody}, rt : 0..SnapCap, age : 0..HealthTtl, ok : BOOLEAN]
    PROVE  FrontInv'
<1>. DEFINE rt == req[r].rt
<1>1. Put(r, "done", code, rt) /\ audited' = [audited EXCEPT ![r] = Events(shape[r], "done", code)]
  BY DEF Done, Emit, Events
<1>2. rt \in 0..SnapCap /\ (rt # 0 => rt >= req[r].began) /\ "done" \in (Places \ {"new"}) \cap TokenPlaces
  BY DEF FrontInv, FrontTypeOK, ReqInv, Places, TokenPlaces
<1>3. \A s \in Requests : /\ req[s].at \in {"recheck", "fetch"} => flights'.leader = s
                          /\ req[s].at = "fetch" => ~icon'
  BY DEF FrontInv, ReqInv
<1>. HIDE DEF rt
<1>4. req' \in [Requests -> ReqType] /\ audited' \in [Requests -> Nat] /\ \A s \in Requests : ReqInv(s)'
  BY <1>1, <1>2, <1>3, RequestMoves
<1>5. QED
  BY <1>4 DEF FrontInv, FrontTypeOK, ReqType

\* A request ends with no event, and none is due.
LEMMA EndsUnaudited ==
    ASSUME FrontInv, NEW r \in Requests, req[r].at \notin {"new", "done", "unwind"},
           NEW code \in Nat, Done(r, code), audited' = audited, Due(shape[r], code) = 0,
           snap' = snap, shape' = shape,
           \A s \in Requests \ {r} : /\ req[s].at \in {"recheck", "fetch"} => flights'.leader = s
                                     /\ req[s].at = "fetch" => ~icon'
    PROVE  req' \in [Requests -> ReqType] /\ audited' \in [Requests -> Nat] /\ \A s \in Requests : ReqInv(s)'
<1>. DEFINE rt == req[r].rt
<1>1. audited' = [audited EXCEPT ![r] = Events(shape[r], "done", code)]
  BY NoneYet DEF Events
<1>2. rt \in 0..SnapCap /\ (rt # 0 => rt >= req[r].began) /\ "done" \in (Places \ {"new"}) \cap TokenPlaces
  BY DEF FrontInv, FrontTypeOK, ReqInv, Places, TokenPlaces
<1>3. Put(r, "done", code, rt)
  BY DEF Done
<1>. HIDE DEF rt
<1>4. QED
  BY <1>1, <1>2, <1>3, RequestMoves

\* The health report is well formed, and a layer leaves it alone.
LEMMA HealthType ==
    ASSUME FrontInv
    PROVE  health \in [by : Requests \cup {Nobody}, rt : 0..SnapCap, age : 0..HealthTtl, ok : BOOLEAN]
BY DEF FrontInv, FrontTypeOK

\* A refusal is audited, and ends its request.
LEMMA Refused ==
    ASSUME FrontInv, NEW r \in Requests, req[r].at \notin {"new", "done", "unwind"},
           NEW code \in Refusals, Refuse(r, code),
           ~(code = 413 /\ shape[r].body = "chunked")
    PROVE  FrontInv'
<1>1. Due(shape[r], code) = 1 /\ code \in Nat
  BY DEF Due, Refusals
<1>2. audited[r] + 1 = Due(shape[r], code)
  BY <1>1, NoneYet
<1>3. QED
  BY <1>1, <1>2, HealthType, Ends DEF Refuse

\* The facts about a request's own record that every step below uses.
LEMMA Own ==
    ASSUME FrontInv, NEW r \in Requests
    PROVE  /\ req[r].status \in Nat /\ req[r].rt \in 0..SnapCap
           /\ req[r].rt # 0 => req[r].rt >= req[r].began
           /\ shape[r] \in Shapes
BY DEF FrontInv, FrontTypeOK, ReqInv

\* What is not a place of the token endpoint is not its.
LEMMA NotToken ==
    ASSUME FrontInv, NEW r \in Requests, req[r].at \notin TokenPlaces
    PROVE  shape[r].path # "token"
BY DEF FrontInv, ReqInv

\* A request moves on to a place that is not the front's last.
LEMMA AtMoves ==
    ASSUME FrontInv, NEW r \in Requests, req[r].at \notin {"new", "done", "unwind"},
           NEW at \in Places \ {"new", "done", "unwind", "recheck"}, At(r, at), Quiet,
           shape[r].path = "token" => at \in TokenPlaces,
           at = "fetch" => req[r].at = "recheck" /\ ~icon
    PROVE  FrontInv'
BY Own, QuietMove DEF At

\* A request is answered, and nothing is due for it.
LEMMA Answers ==
    ASSUME FrontInv, NEW r \in Requests, req[r].at \notin {"new", "done", "unwind"},
           NEW code \in Nat, Due(shape[r], code) = 0, Done(r, code), Quiet
    PROVE  FrontInv'
<1>1. "done" \in Places \ {"new", "recheck", "unwind"} /\ "done" \in TokenPlaces
  BY DEF Places, TokenPlaces
<1>2. QED
  BY <1>1, Own, QuietMove DEF Done

\* The SDK or the token endpoint answers.
LEMMA Served ==
    ASSUME FrontInv, NEW r \in Requests, req[r].at = "serve",
           NEW code \in {200, 400}, Answer(r, code)
    PROVE  FrontInv'
<1>1. CASE shape[r].path = "token"
  <2>3. Due(shape[r], code) = 1
    BY <1>1 DEF Due
  <2>4. audited[r] = 0
    BY NoneYet
  <2>1. audited[r] + 1 = Due(shape[r], code)
    BY <2>3, <2>4
  <2>2. QED
    BY <1>1, <2>1, HealthType, Ends DEF Answer
<1>2. CASE shape[r].path # "token"
  <2>1. Due(shape[r], code) = 0
    BY <1>2 DEF Due
  <2>2. Done(r, code) /\ Quiet
    BY <1>2 DEF Answer, Quiet
  <2>3. QED
    BY <2>1, <2>2, Answers
<1>3. QED
  BY <1>1, <1>2

\* A body over the cap unwinds its handler; the token endpoint reports it.
LEMMA CutOffMoves ==
    ASSUME FrontInv, NEW r \in Requests, req[r].at \notin {"new", "done", "unwind"},
           shape[r].body = "chunked", CutOff(r)
    PROVE  FrontInv'
<1>1. Put(r, "unwind", 413, req[r].rt) /\ UNCHANGED <<shape, left, snap, alive, health, flights, icon>>
  BY DEF CutOff
<1>2. audited' = [audited EXCEPT ![r] = Events(shape[r], "unwind", 413)]
  BY NoneYet DEF CutOff, Emit, Events
<1>3. "unwind" \in Places \ {"new", "recheck"} /\ 413 \in Nat /\ "unwind" \in TokenPlaces
  BY DEF Places, TokenPlaces
<1>4. \A s \in Requests : /\ req[s].at \in {"recheck", "fetch"} => flights'.leader = s
                          /\ req[s].at = "fetch" => ~icon'
  BY <1>1 DEF FrontInv, ReqInv
<1>5. req' \in [Requests -> ReqType] /\ audited' \in [Requests -> Nat] /\ \A s \in Requests : ReqInv(s)'
  <2>. DEFINE rt == req[r].rt
  <2>1. rt \in 0..SnapCap /\ (rt # 0 => rt >= req[r].began) /\ Put(r, "unwind", 413, rt)
    BY <1>1, Own
  <2>2. snap' = snap /\ shape' = shape
    BY <1>1
  <2>. HIDE DEF rt
  <2>3. QED
    BY <1>2, <1>3, <1>4, <2>1, <2>2, RequestMoves
<1>6. QED
  BY <1>1, <1>5 DEF FrontInv, FrontTypeOK, ReqType

\* The buckets never go below nothing; the request goes on or is refused.
LEMMA Spends ==
    ASSUME FrontInv, NEW r \in Requests, req[r].at \notin {"new", "done", "unwind"},
           NEW order, DOMAIN order \subseteq Nat,
           NEW next \in Places \ {"new", "done", "unwind", "recheck", "fetch"}, Spend(r, order, next),
           shape[r].path = "token" => next \in TokenPlaces
    PROVE  FrontInv'
<1>. DEFINE short == {i \in DOMAIN order : left[order[i]] = 0}
            spent == {order[i] : i \in {i \in DOMAIN order : \A j \in short : i < j}}
<1>1. /\ left' = [b \in DOMAIN left |-> IF b \in spent THEN left[b] - 1 ELSE left[b]]
      /\ IF short = {} THEN At(r, next) /\ UNCHANGED audited ELSE Done(r, 429) /\ Emit(r)
      /\ UNCHANGED <<shape, snap, alive, health, flights, icon>>
  BY DEF Spend
<1>2. left \in [DOMAIN Buckets -> Nat] /\ \A b \in DOMAIN Buckets : left[b] <= Buckets[b] /\ Buckets[b] \in Nat
  BY FrontAssumption DEF FrontInv, FrontTypeOK
<1>3. \A b \in spent : left[b] # 0
  <2>. SUFFICES ASSUME NEW i \in DOMAIN order, \A j \in short : i < j PROVE left[order[i]] # 0
    OBVIOUS
  <2>1. SUFFICES ASSUME i \in short PROVE FALSE
    OBVIOUS
  <2>2. i < i
    BY <2>1
  <2>3. QED
    BY <2>2
<1>. HIDE DEF spent
<1>4. left' \in [DOMAIN Buckets -> Nat] /\ \A b \in DOMAIN Buckets : left'[b] <= Buckets[b]
  <2>1. \A b \in DOMAIN Buckets : left'[b] \in Nat /\ left'[b] <= Buckets[b]
    BY <1>1, <1>2, <1>3
  <2>2. left' = [b \in DOMAIN Buckets |-> left'[b]]
    BY <1>1, <1>2
  <2>3. QED
    BY <2>1, <2>2
<1>5. \A s \in Requests : /\ req[s].at \in {"recheck", "fetch"} => flights'.leader = s
                          /\ req[s].at = "fetch" => ~icon'
  BY <1>1 DEF FrontInv, ReqInv
<1>6. req' \in [Requests -> ReqType] /\ audited' \in [Requests -> Nat] /\ \A s \in Requests : ReqInv(s)'
  <2>1. CASE short = {}
    <3>1. Put(r, next, req[r].status, req[r].rt) /\ audited' = audited /\ snap' = snap /\ shape' = shape
      BY <1>1, <2>1 DEF At
    <3>3. Events(shape[r], next, req[r].status) = 0
      BY DEF Events
    <3>4. audited' = [audited EXCEPT ![r] = Events(shape[r], next, req[r].status)]
      BY <3>1, <3>3, NoneYet
    <3>2. QED
      BY <1>5, <3>1, <3>4, Own, RequestMoves
  <2>2. CASE short # {}
    <3>1. Put(r, "done", 429, req[r].rt) /\ audited' = [audited EXCEPT ![r] = 1]
          /\ snap' = snap /\ shape' = shape
      BY <1>1, <2>2, NoneYet DEF Done, Emit
    <3>2. "done" \in Places \ {"new"} /\ 429 \in Nat /\ "done" \in TokenPlaces
      BY DEF Places, TokenPlaces
    <3>4. Events(shape[r], "done", 429) = 1
      BY DEF Events, Due
    <3>5. audited' = [audited EXCEPT ![r] = Events(shape[r], "done", 429)]
      BY <3>1, <3>4
    <3>3. QED
      BY <1>5, <3>1, <3>2, <3>5, Own, RequestMoves, ZenonT(30)
  <2>3. QED
    BY <2>1, <2>2
<1>. HIDE DEF short
<1>7. QED
  BY <1>1, <1>4, <1>6 DEF FrontInv, FrontTypeOK, ReqType

\* The steps a request makes by itself.
LEMMA StepKeeps ==
    ASSUME FrontInv, NEW r \in Requests, FrontStep(r) \/ Panic(r) \/ HangUp(r)
    PROVE  FrontInv'
<1>. USE FrontAssumption
<1>0. /\ {401, 403, 408, 413, 429, 500} = Refusals
      /\ \A s : \A code \in {200, 405, 502, 503, 504} : code \in Nat /\ (s.path = "token" => code # 200) => Due(s, code) = 0
  BY DEF Refusals, Due
<1>1. ASSUME Arrive(r) PROVE FrontInv'
  <2>. DEFINE q == [at |-> "host", status |-> 0, rt |-> 0, began |-> snap, flight |-> 0]
  <2>1. req[r].at = "new" /\ req' = [req EXCEPT ![r] = q] /\ Quiet
    BY <1>1 DEF Arrive
  <2>2. q \in ReqType /\ req \in [Requests -> ReqType] /\ snap \in Nat
    BY DEF ReqType, Places, FrontInv, FrontTypeOK
  <2>3. req' \in [Requests -> ReqType] /\ req'[r] = q /\ \A s \in Requests \ {r} : req'[s] = req[s]
    BY <2>1, <2>2
  <2>4. ASSUME NEW s \in Requests PROVE ReqInv(s)'
    BY <2>1, <2>2, <2>3 DEF FrontInv, ReqInv, Quiet, Events, TokenPlaces
  <2>5. QED
    BY <2>1, <2>3, <2>4 DEF FrontInv, FrontTypeOK, Quiet, ReqType
<1>2. ASSUME hostValidation(r) PROVE FrontInv'
  <2>1. req[r].at \notin {"new", "done", "unwind"} /\ ((At(r, "body") /\ Quiet) \/ Refuse(r, 403))
    BY <1>2 DEF hostValidation
  <2>2. "body" \in Places \cap TokenPlaces
    BY DEF Places, TokenPlaces
  <2>3. QED
    BY <1>0, <2>1, <2>2, AtMoves, Refused
<1>3. ASSUME bodyCap(r) PROVE FrontInv'
  <2>1. /\ req[r].at \notin {"new", "done", "unwind"}
        /\ (At(r, Behind(shape[r].path)) /\ Quiet) \/ (Refuse(r, 413) /\ shape[r].body # "chunked")
    BY <1>3 DEF bodyCap
  <2>2. shape[r].path \in {"mcp", "federation", "token", "health", "icon"}
    BY Own
  <2>3. /\ Behind(shape[r].path) \in Places \ {"new", "done", "unwind", "recheck", "fetch"}
        /\ shape[r].path = "token" => Behind(shape[r].path) \in TokenPlaces
    BY <2>2 DEF Behind, Places, TokenPlaces
  <2>4. QED
    BY <1>0, <2>1, <2>3, AtMoves, Refused
<1>4. ASSUME auth(r) \/ viewerGate(r) PROVE FrontInv'
  <2>1. /\ req[r].at \notin {"new", "done", "unwind"} /\ req[r].at \notin TokenPlaces
        /\ (\E at \in {"limit", "viewer"} : At(r, at) /\ Quiet) \/ Refuse(r, 401) \/ Refuse(r, 403)
    BY <1>4 DEF auth, viewerGate, TokenPlaces
  <2>2. {"limit", "viewer"} \subseteq Places
    BY DEF Places
  <2>3. QED
    BY <1>0, <2>1, <2>2, NotToken, AtMoves, Refused
<1>5. ASSUME rateLimit(r) \/ tokenRateLimit(r) PROVE FrontInv'
  <2>. DEFINE o3 == <<"global", "tenant", "principal">>
              o1 == <<"token">>
  <2>1. /\ req[r].at \notin {"new", "done", "unwind"}
        /\ \/ req[r].at \notin TokenPlaces /\ \E next \in {"discover", "snapshot"} : Spend(r, o3, next)
           \/ Spend(r, o1, "serve")
    BY <1>5 DEF rateLimit, tokenRateLimit, TokenPlaces
  <2>2. {"discover", "snapshot", "serve"} \subseteq Places /\ "serve" \in TokenPlaces /\ DOMAIN o3 \subseteq Nat /\ DOMAIN o1 \subseteq Nat
    BY DEF Places, TokenPlaces
  <2>. HIDE DEF o3, o1
  <2>3. QED
    BY <2>1, <2>2, NotToken, Spends
<1>6. ASSUME refuseDiscover(r) PROVE FrontInv'
  <2>1. /\ req[r].at \notin {"new", "done", "unwind"} /\ req[r].at \notin TokenPlaces
        /\ \/ At(r, "serve") /\ Quiet
           \/ Refuse(r, 408)
           \/ Done(r, 405) /\ Quiet
           \/ shape[r].body = "chunked" /\ CutOff(r)
    BY <1>6, Zenon DEF refuseDiscover, TokenPlaces
  <2>2. "serve" \in Places
    BY DEF Places
  <2>3. CASE At(r, "serve") /\ Quiet
    BY <2>1, <2>2, <2>3, NotToken, AtMoves
  <2>4. CASE Refuse(r, 408)
    BY <1>0, <2>1, <2>4, Refused
  <2>5. CASE Done(r, 405) /\ Quiet
    BY <1>0, <2>1, <2>5, Answers
  <2>6. QED
    BY <2>1, <2>3, <2>4, <2>5, CutOffMoves
<1>7. ASSUME Serve(r) PROVE FrontInv'
  <2>1. req[r].at = "serve"
    BY <1>7 DEF Serve
  <2>2. (shape[r].body = "chunked" /\ CutOff(r)) \/ (\E code \in {200, 400} : Answer(r, code))
    BY <1>7, Zenon DEF Serve
  <2>3. QED
    BY <2>1, <2>2, Served, CutOffMoves
<1>8. ASSUME Unwind(r) PROVE FrontInv'
  <2>1. req[r].at = "unwind" /\ req[r].status = 413 /\ shape[r].body = "chunked" /\ Refuse(r, 413)
    BY <1>8 DEF Unwind, FrontInv, ReqInv
  <2>2. audited[r] + 1 = Due(shape[r], 413)
    BY <2>1 DEF FrontInv, ReqInv, Events, Due
  <2>3. QED
    BY <2>1, <2>2, HealthType, Ends DEF Refuse
<1>17. ASSUME Panic(r) PROVE FrontInv'
  <2>1. /\ req[r].at \in {"serve", "collect", "fetch"} /\ Done(r, 500) /\ Emit(r)
        /\ UNCHANGED <<shape, left, snap, alive, flights, icon>>
    BY <1>17, Zenon DEF Panic
  <2>6. Due(shape[r], 500) = 1
    BY DEF Due
  <2>7. audited[r] = 0
    BY <2>1, NoneYet
  <2>2. audited[r] + 1 = Due(shape[r], 500)
    BY <2>6, <2>7
  <2>3. health' \in {health, [health EXCEPT !.by = Nobody]}
    BY <1>17 DEF Panic
  <2>4. health' \in [by : Requests \cup {Nobody}, rt : 0..SnapCap, age : 0..HealthTtl, ok : BOOLEAN]
    BY <2>3, HealthType
  <2>5. QED
    BY <2>1, <2>2, <2>4, Ends
<1>9. ASSUME ReadSnapshot(r) PROVE FrontInv'
  <2>4. shape[r].path # "token"
    BY <1>9, NotToken DEF ReadSnapshot, TokenPlaces
  <2>1. req[r].at = "snapshot" /\ Put(r, "lock", req[r].status, snap) /\ Quiet
    BY <1>9 DEF ReadSnapshot
  <2>2. snap \in 0..SnapCap /\ snap >= req[r].began /\ "lock" \in Places
    BY DEF FrontInv, FrontTypeOK, ReqInv, Places
  <2>3. QED
    BY <2>1, <2>2, <2>4, Own, QuietMove
<1>10. ASSUME LockHealth(r) \/ collectUpstreamHealth(r) PROVE FrontInv'
  <2>1. /\ req[r].at \in {"lock", "collect"}
        /\ UNCHANGED <<shape, audited, left, snap, alive, flights, icon>>
    BY <1>10 DEF LockHealth, collectUpstreamHealth
  <2>2. \/ Put(r, "collect", req[r].status, req[r].rt)
        \/ \E code \in {200, 503} : Put(r, "done", code, req[r].rt)
    BY <1>10 DEF LockHealth, collectUpstreamHealth, Report, At, Usable
  <2>3. health' \in [by : Requests \cup {Nobody}, rt : 0..SnapCap, age : 0..HealthTtl, ok : BOOLEAN]
    <3>1. health \in [by : Requests \cup {Nobody}, rt : 0..SnapCap, age : 0..HealthTtl, ok : BOOLEAN]
      BY DEF FrontInv, FrontTypeOK
    <3>2. alive \in BOOLEAN
      BY DEF FrontInv, FrontTypeOK
    <3>3. CASE LockHealth(r)
      <4>1. health' \in {health, [health EXCEPT !.by = r]}
        BY <3>3 DEF LockHealth
      <4>2. QED
        BY <3>1, <4>1
    <3>4. CASE collectUpstreamHealth(r)
      <4>1. health' = [by |-> Nobody, rt |-> req[r].rt, age |-> 0, ok |-> alive]
        BY <3>4 DEF collectUpstreamHealth
      <4>2. QED
        BY <3>2, <4>1, Own
    <3>5. QED
      BY <1>10, <3>3, <3>4
  <2>4. "collect" \in Places \ {"new"} /\ "done" \in Places \ {"new"}
    BY DEF Places
  <2>5. \A s \in Requests : /\ req[s].at \in {"recheck", "fetch"} => flights'.leader = s
                            /\ req[s].at = "fetch" => ~icon'
    BY <2>1 DEF FrontInv, ReqInv
  <2>8. shape[r].path # "token" /\ audited = [audited EXCEPT ![r] = 0]
    BY <2>1, NotToken, NoneYet DEF TokenPlaces
  <2>6. req' \in [Requests -> ReqType] /\ audited' \in [Requests -> Nat] /\ \A s \in Requests : ReqInv(s)'
    <3>1. CASE Put(r, "collect", req[r].status, req[r].rt)
      <4>1. audited' = [audited EXCEPT ![r] = Events(shape[r], "collect", req[r].status)]
        BY <2>1, <2>8 DEF Events
      <4>2. QED
        BY <2>1, <2>4, <2>5, <2>8, <3>1, <4>1, Own, RequestMoves
    <3>2. ASSUME NEW code \in {200, 503}, Put(r, "done", code, req[r].rt)
          PROVE  req' \in [Requests -> ReqType] /\ audited' \in [Requests -> Nat] /\ \A s \in Requests : ReqInv(s)'
      <4>1. code \in Nat /\ Due(shape[r], code) = 0
        BY <1>0, <2>8
      <4>2. QED
        BY <2>1, <2>5, <2>8, <3>2, <4>1, EndsUnaudited DEF Done
    <3>3. QED
      BY <2>2, <3>1, <3>2
  <2>7. QED
    BY <2>1, <2>3, <2>6 DEF FrontInv, FrontTypeOK, ReqType
<1>11. ASSUME LoadIcon(r) PROVE FrontInv'
  <2>1. req[r].at = "load" /\ Quiet /\ (Done(r, 200) \/ At(r, "begin")) /\ "begin" \in Places
    BY <1>11 DEF LoadIcon, Places
  <2>2. shape[r].path # "token"
    BY <2>1, NotToken DEF TokenPlaces
  <2>3. QED
    BY <1>0, <2>1, <2>2, AtMoves, Answers
<1>12. ASSUME JoinFlight(r) PROVE FrontInv'
  <2>1. req[r].at = "begin" /\ UNCHANGED <<shape, audited, left, snap, alive, health, icon>>
    BY <1>12 DEF JoinFlight
  <2>2. flights \in [leader : Requests \cup {Nobody}, n : Nat]
    BY DEF FrontInv, FrontTypeOK
  <2>6. shape[r].path # "token" /\ audited = [audited EXCEPT ![r] = 0] /\ audited[r] = 0
    BY <2>1, NotToken, NoneYet DEF TokenPlaces
  <2>3. CASE flights.leader = Nobody
    <3>7. audited' = [audited EXCEPT ![r] = Events(shape[r], "recheck", req[r].status)]
      BY <2>1, <2>6 DEF Events
    <3>1. At(r, "recheck") /\ flights' = [leader |-> r, n |-> flights.n + 1]
      BY <1>12, <2>3 DEF JoinFlight
    <3>2. \A s \in Requests : req[s].at \notin {"recheck", "fetch"}
      BY <2>3 DEF FrontInv, ReqInv
    <3>3. "recheck" \in Places \ {"new"} /\ Put(r, "recheck", req[r].status, req[r].rt)
      BY <3>1 DEF Places, At
    <3>4. req' \in [Requests -> ReqType] /\ audited' \in [Requests -> Nat] /\ \A s \in Requests : ReqInv(s)'
      BY <2>1, <2>6, <3>1, <3>2, <3>3, <3>7, Own, RequestMoves
    <3>5. flights' \in [leader : Requests \cup {Nobody}, n : Nat]
      BY <2>2, <3>1
    <3>6. QED
      BY <2>1, <3>4, <3>5 DEF FrontInv, FrontTypeOK, ReqType
  <2>4. CASE flights.leader # Nobody
    <3>. DEFINE q == [at |-> "wait", status |-> req[r].status, rt |-> req[r].rt,
                      began |-> req[r].began, flight |-> flights.n]
    <3>1. req' = [req EXCEPT ![r] = q] /\ flights' = flights
      BY <1>12, <2>4 DEF JoinFlight
    <3>2. q \in ReqType /\ req \in [Requests -> ReqType]
      BY <2>2 DEF ReqType, Places, FrontInv, FrontTypeOK
    <3>3. req' \in [Requests -> ReqType] /\ req'[r] = q /\ \A s \in Requests \ {r} : req'[s] = req[s]
      BY <3>1, <3>2
    <3>4. ASSUME NEW s \in Requests PROVE ReqInv(s)'
      BY <2>1, <2>6, <3>1, <3>2, <3>3 DEF FrontInv, ReqInv, Events
    <3>5. QED
      BY <2>1, <3>1, <3>3, <3>4 DEF FrontInv, FrontTypeOK, ReqType
  <2>5. QED
    BY <2>3, <2>4
<1>13. ASSUME Recheck(r), ~icon PROVE FrontInv'
  <2>1. req[r].at = "recheck" /\ At(r, "fetch") /\ Quiet /\ "fetch" \in Places
    BY <1>13 DEF Recheck, Quiet, Places
  <2>2. shape[r].path # "token"
    BY <2>1, NotToken DEF TokenPlaces
  <2>3. QED
    BY <1>13, <2>1, <2>2, AtMoves
<1>14. ASSUME (Recheck(r) /\ icon) \/ Fetched(r) PROVE FrontInv'
  <2>1. /\ req[r].at \in {"recheck", "fetch"}
        /\ flights' = [flights EXCEPT !.leader = Nobody]
        /\ UNCHANGED <<shape, audited, left, snap, alive, health>>
    BY <1>14 DEF Recheck, Fetched
  <2>2. \E code \in {200, 502} : Done(r, code)
    BY <1>14, ZenonT(30) DEF Recheck, Fetched
  <2>3. icon' \in BOOLEAN
    <3>1. icon \in BOOLEAN
      BY DEF FrontInv, FrontTypeOK
    <3>2. icon' = icon \/ icon' = TRUE
      BY <1>14 DEF Recheck, Fetched
    <3>3. QED
      BY <3>1, <3>2
  <2>4. \A s \in Requests \ {r} : req[s].at \notin {"recheck", "fetch"}
    BY <2>1 DEF FrontInv, ReqInv
  <2>5. PICK code \in {200, 502} : Done(r, code)
    BY <2>2
  <2>6. code \in Nat /\ Due(shape[r], code) = 0
    BY <1>0, <2>1, NotToken DEF TokenPlaces
  <2>7. req' \in [Requests -> ReqType] /\ audited' \in [Requests -> Nat] /\ \A s \in Requests : ReqInv(s)'
    BY <2>1, <2>4, <2>5, <2>6, EndsUnaudited
  <2>8. flights' \in [leader : Requests \cup {Nobody}, n : Nat]
    BY <2>1 DEF FrontInv, FrontTypeOK
  <2>9. QED
    BY <2>1, <2>3, <2>7, <2>8 DEF FrontInv, FrontTypeOK, ReqType
<1>15. ASSUME Follow(r) \/ HangUp(r) PROVE FrontInv'
  <2>1. req[r].at = "wait" /\ Quiet /\ \E code \in {200, 502, 504} : Done(r, code)
    BY <1>15 DEF Follow, HangUp
  <2>2. shape[r].path # "token"
    BY <2>1, NotToken DEF TokenPlaces
  <2>3. QED
    BY <1>0, <2>1, <2>2, Answers
<1>16. QED
  BY <1>1, <1>2, <1>3, <1>4, <1>5, <1>6, <1>7, <1>8, <1>9, <1>10, <1>11, <1>12, <1>13, <1>14, <1>15, <1>17 DEF FrontStep

\* Every step of the front keeps FrontInv.
LEMMA FrontStepKeeps == FrontInv /\ [FrontNext]_hvars => FrontInv'
<1>. SUFFICES ASSUME FrontInv, [FrontNext]_hvars PROVE FrontInv'
  OBVIOUS
<1>. USE FrontAssumption
<1>1. CASE Age
  <2>1. health' = [health EXCEPT !.age = @ + 1] /\ health.age < HealthTtl
        /\ UNCHANGED <<shape, req, audited, left, snap, alive, flights, icon>>
    BY <1>1 DEF Age
  <2>2. health' \in [by : Requests \cup {Nobody}, rt : 0..SnapCap, age : 0..HealthTtl, ok : BOOLEAN]
    <3>1. health \in [by : Requests \cup {Nobody}, rt : 0..SnapCap, age : 0..HealthTtl, ok : BOOLEAN]
      BY DEF FrontInv, FrontTypeOK
    <3>2. health' = [by |-> health.by, rt |-> health.rt, age |-> health.age + 1, ok |-> health.ok]
      BY <2>1, <3>1
    <3>3. health.age + 1 \in 0..HealthTtl
      BY <2>1, <3>1
    <3>4. QED
      BY <3>1, <3>2, <3>3
  <2>3. QED
    BY <2>1, <2>2 DEF FrontInv, FrontTypeOK, ReqInv
<1>2. CASE NewSnapshot
  <2>1. snap < SnapCap /\ snap' = snap + 1 /\ UNCHANGED <<shape, req, audited, left, alive, health, flights, icon>>
    BY <1>2 DEF NewSnapshot
  <2>2. snap' \in 1..SnapCap /\ snap \in Nat /\ \A r \in Requests : req[r].began \in Nat
    BY <2>1 DEF FrontInv, FrontTypeOK
  <2>3. QED
    BY <2>1, <2>2 DEF FrontInv, FrontTypeOK, ReqInv
<1>3. CASE Fail
  <2>1. alive' \in BOOLEAN
    BY <1>3, Zenon DEF Fail
  <2>2. QED
    BY <1>3, <2>1 DEF Fail, FrontInv, FrontTypeOK, ReqInv
<1>4. CASE Evict
  <2>1. icon' = FALSE /\ UNCHANGED <<shape, req, audited, left, snap, alive, health, flights>>
    BY <1>4 DEF Evict
  <2>2. FrontTypeOK'
    BY <2>1 DEF FrontInv, FrontTypeOK
  <2>3. \A r \in Requests : ReqInv(r)'
    BY <2>1 DEF FrontInv, ReqInv
  <2>4. QED
    BY <2>2, <2>3 DEF FrontInv
<1>5. CASE UNCHANGED hvars
  BY <1>5 DEF hvars, FrontInv, FrontTypeOK, ReqInv
<1>6. QED
  BY <1>1, <1>2, <1>3, <1>4, <1>5, StepKeeps DEF FrontNext

\* FrontInv implies the properties of the front.
LEMMA FrontInvMeans == FrontInv => RefusedOnce /\ HealthOfOwnWorld /\ OneIconFetch
<1>1. FrontInv => RefusedOnce
  BY DEF FrontInv, ReqInv, Events, RefusedOnce
<1>2. FrontInv => HealthOfOwnWorld
  BY DEF FrontInv, ReqInv, HealthOfOwnWorld
<1>3. FrontInv => OneIconFetch
  BY DEF FrontInv, ReqInv, OneIconFetch
<1>4. QED
  BY <1>1, <1>2, <1>3

\* What a layer refuses and what the token endpoint answers is audited once, or
\* twice if cut off inside the endpoint, for any mix of requests and any limits
\* (hostValidation, bodyCapMiddleware, authMiddleware, rateLimitMiddleware,
\* refuseDiscover, ServeToken, recoverHTTP).
THEOREM RefusedOnceCorrect == FrontSpec => []RefusedOnce
BY FrontInitially, FrontStepKeeps, FrontInvMeans, PTL DEF FrontSpec

\* A health report is not of a snapshot retired before its request arrived, for
\* any number of requests and reloads (upstreamHealthFor).
THEOREM HealthOfOwnWorldCorrect == FrontSpec => []HealthOfOwnWorld
BY FrontInitially, FrontStepKeeps, FrontInvMeans, PTL DEF FrontSpec

-----------------------------------------------------------------------------
(* Exchange. *)

\* The callers that count as waiters of gate g, when they are where k says.
On(k, g) == {c \in Fetchers : k[c].at \in {"wait", "fetch", "leave"} /\ k[c].gate = g}

\* The gates: waiters are counted, callers wait at the gate in the map and at no
\* other, which is there only while somebody does; and a lock has its holder.
GatesInv ==
    /\ \A g \in GateIds : gates[g].waiters = Cardinality(On(caller, g))
    /\ \A c \in Fetchers : /\ caller[c].at \in {"wait", "fetch", "leave"} => caller[c].gate = current /\ current # 0
                           /\ caller[c].at \in {"fetch", "leave", "unlock"} =>
                                 caller[c].gate \in GateIds /\ gates[caller[c].gate].lock = c
    /\ current # 0 => On(caller, current) # {}

\* The records: while the assertion lives they outlive it, and what was minted is
\* on one of them.
RecordsInv ==
    /\ IsFiniteSet(degraded)
    /\ life > 0 =>
        /\ once.redis = 0 \/ once.redis >= life
        /\ \A i \in Endpoints : once.mem[i] = 0 \/ once.mem[i] >= life
        /\ \A i \in degraded : once.mem[i] > 0
        /\ minted <= (IF once.redis > 0 THEN 1 ELSE 0) + Cardinality(degraded)

ExchangeInv == ExchangeTypeOK /\ GatesInv /\ RecordsInv

\* Gates are numbered from one.
LEMMA GateIdsNat == GateIds \subseteq Nat \ {0}
<1>1. Cardinality(Fetchers) \in Nat
  BY ExchangeAssumption, FS_CardinalityType
<1>2. QED
  BY <1>1 DEF GateIds

\* The jobs at a gate can be counted.
LEMMA OnFinite == \A k, g : IsFiniteSet(On(k, g)) /\ Cardinality(On(k, g)) \in Nat
  BY ExchangeAssumption, FS_Subset, FS_CardinalityType DEF On

\* The exchange starts with ExchangeInv.
LEMMA ExchangeInitially == ExchangeInit => ExchangeInv
<1>. SUFFICES ASSUME ExchangeInit PROVE ExchangeInv
  OBVIOUS
<1>. USE ExchangeAssumption
<1>1. ExchangeTypeOK
  BY DEF ExchangeInit, ExchangeTypeOK
<1>2. \A g : On(caller, g) = {}
  BY DEF ExchangeInit, On
<1>3. GatesInv
  BY <1>2, FS_EmptySet DEF ExchangeInit, GatesInv
<1>4. RecordsInv
  BY FS_EmptySet DEF ExchangeInit, RecordsInv
<1>5. QED
  BY <1>1, <1>3, <1>4 DEF ExchangeInv

\* A step of the records: RecordsInv is kept.
LEMMA RecordsStep ==
    ASSUME ExchangeInv, RedeemNext
    PROVE  /\ UNCHANGED cvars
           /\ life' \in (-Leeway)..Lifetime /\ once' \in [redis : Nat, mem : [Endpoints -> Nat]]
           /\ minted' \in Nat /\ degraded' \subseteq Endpoints
           /\ RecordsInv'
<1>. USE ExchangeAssumption
<1>0. /\ life \in (-Leeway)..Lifetime /\ once \in [redis : Nat, mem : [Endpoints -> Nat]]
      /\ minted \in Nat /\ degraded \subseteq Endpoints /\ IsFiniteSet(degraded) /\ Cardinality(degraded) \in Nat
  BY FS_CardinalityType DEF ExchangeInv, ExchangeTypeOK, RecordsInv
<1>1. ASSUME NEW r \in Redeemers, Validate(r)
      PROVE  UNCHANGED <<cvars, life, once, minted, degraded>>
  BY <1>1 DEF Validate
<1>2. ASSUME NEW r \in Redeemers, redeem[r] = "valid", Mints(r, once.redis = 0), UNCHANGED degraded,
             once' = IF once.redis = 0 THEN [once EXCEPT !.redis = RecordTtl] ELSE once,
             UNCHANGED <<cvars, life>>
      PROVE  once' \in [redis : Nat, mem : [Endpoints -> Nat]] /\ minted' \in Nat /\ RecordsInv'
  <2>1. minted' = IF once.redis = 0 THEN minted + 1 ELSE minted
    BY <1>2 DEF Mints
  <2>2. RecordTtl \in Nat /\ RecordTtl > 0 /\ RecordTtl >= life
    BY <1>0 DEF RecordTtl
  <2>3. CASE once.redis = 0
    <3>1. once' = [redis |-> RecordTtl, mem |-> once.mem]
      BY <1>0, <1>2, <2>3
    <3>2. QED
      BY <1>0, <1>2, <2>1, <2>2, <2>3, <3>1 DEF ExchangeInv, RecordsInv
  <2>4. CASE once.redis # 0
    BY <1>0, <1>2, <2>1, <2>4 DEF ExchangeInv, RecordsInv
  <2>5. QED
    BY <2>3, <2>4
<1>3. ASSUME NEW r \in Redeemers, redeem[r] = "valid", NEW i, i = Endpoint[r], Mints(r, once.mem[i] = 0),
             degraded' = degraded \cup {i},
             once' = IF once.mem[i] = 0 THEN [once EXCEPT !.mem[i] = RecordTtl] ELSE once,
             UNCHANGED <<cvars, life>>
      PROVE  /\ once' \in [redis : Nat, mem : [Endpoints -> Nat]] /\ minted' \in Nat
             /\ degraded' \subseteq Endpoints /\ RecordsInv'
  <2>1. minted' = IF once.mem[i] = 0 THEN minted + 1 ELSE minted
    BY <1>3 DEF Mints
  <2>2. RecordTtl \in Nat /\ RecordTtl > 0 /\ RecordTtl >= life
    BY <1>0 DEF RecordTtl
  <2>3. i \in Endpoints
    BY <1>3 DEF Endpoints
  <2>4. /\ IsFiniteSet(degraded')
        /\ Cardinality(degraded') \in Nat /\ Cardinality(degraded') >= Cardinality(degraded)
        /\ i \notin degraded => Cardinality(degraded') = Cardinality(degraded) + 1
    <3>1. CASE i \in degraded
      <4>1. degraded' = degraded
        BY <1>3, <3>1
      <4>2. QED
        BY <1>0, <3>1, <4>1
    <3>2. CASE i \notin degraded
      <4>1. Cardinality(degraded') = Cardinality(degraded) + 1
        BY <1>0, <1>3, <3>2, FS_AddElement
      <4>2. IsFiniteSet(degraded')
        BY <1>0, <1>3, FS_AddElement
      <4>3. QED
        BY <1>0, <4>1, <4>2
    <3>3. QED
      BY <3>1, <3>2
  <2>5. CASE once.mem[i] = 0
    <3>1. once' = [redis |-> once.redis, mem |-> [once.mem EXCEPT ![i] = RecordTtl]]
      BY <1>0, <1>3, <2>5
    <3>2. once' \in [redis : Nat, mem : [Endpoints -> Nat]]
      BY <1>0, <2>2, <3>1
    <3>3. life > 0 => i \notin degraded
      BY <2>5 DEF ExchangeInv, RecordsInv
    <3>4. once'.mem[i] = RecordTtl /\ once'.redis = once.redis /\ \A j \in Endpoints \ {i} : once'.mem[j] = once.mem[j]
      BY <1>0, <2>3, <3>1
    <3>5. RecordsInv'
      BY <1>0, <1>3, <2>1, <2>2, <2>3, <2>4, <2>5, <3>3, <3>4 DEF ExchangeInv, RecordsInv
    <3>6. QED
      BY <1>0, <1>3, <2>1, <2>3, <3>2, <3>5
  <2>6. CASE once.mem[i] # 0
    <3>1. once.mem[i] > 0
      BY <1>0, <2>3, <2>6
    <3>2. QED
      BY <1>0, <1>3, <2>1, <2>3, <2>4, <2>6, <3>1 DEF ExchangeInv, RecordsInv
  <2>7. QED
    BY <2>5, <2>6
<1>4. ASSUME ExchangeTick
      PROVE  /\ UNCHANGED <<cvars, minted, degraded>> /\ RecordsInv'
             /\ life' \in (-Leeway)..Lifetime /\ once' \in [redis : Nat, mem : [Endpoints -> Nat]]
  <2>1. /\ life > -Leeway /\ life' = life - 1 /\ UNCHANGED <<cvars, minted, degraded>>
        /\ once' = [redis |-> Ages(once.redis), mem |-> [i \in Endpoints |-> Ages(once.mem[i])]]
    BY <1>0, <1>4 DEF ExchangeTick
  <2>2. \A n \in Nat : Ages(n) \in Nat /\ (n > 1 => Ages(n) = n - 1) /\ (n <= 1 => Ages(n) = 0)
    BY DEF Ages
  <2>3. life' \in (-Leeway)..Lifetime /\ once' \in [redis : Nat, mem : [Endpoints -> Nat]]
    BY <1>0, <2>1, <2>2
  <2>4. once'.redis = Ages(once.redis) /\ \A i \in Endpoints : once'.mem[i] = Ages(once.mem[i])
    BY <2>1
  <2>5. ASSUME life' > 0 PROVE RecordsInv'
    <3>1. /\ once.redis = 0 \/ once.redis >= life
          /\ \A i \in Endpoints : once.mem[i] = 0 \/ once.mem[i] >= life
          /\ \A i \in degraded : once.mem[i] > 0
          /\ minted <= (IF once.redis > 0 THEN 1 ELSE 0) + Cardinality(degraded)
      BY <1>0, <2>1, <2>5 DEF ExchangeInv, RecordsInv
    <3>2. (once.redis > 0 <=> once'.redis > 0) /\ (once'.redis = 0 \/ once'.redis >= life')
      BY <1>0, <2>1, <2>2, <2>4, <2>5, <3>1
    <3>3. \A i \in Endpoints : (once.mem[i] > 0 => once'.mem[i] > 0) /\ (once'.mem[i] = 0 \/ once'.mem[i] >= life')
      BY <1>0, <2>1, <2>2, <2>4, <2>5, <3>1
    <3>4. QED
      BY <1>0, <2>1, <3>1, <3>2, <3>3 DEF RecordsInv
  <2>6. QED
    BY <1>0, <2>1, <2>3, <2>5 DEF RecordsInv
<1>5. ASSUME NEW r \in Redeemers, TryOnce(r)
      PROVE  /\ UNCHANGED <<cvars, life>> /\ once' \in [redis : Nat, mem : [Endpoints -> Nat]] /\ minted' \in Nat
             /\ degraded' \subseteq Endpoints /\ RecordsInv'
  <2>1. redeem[r] = "valid" /\ UNCHANGED <<cvars, life>>
    BY <1>5 DEF TryOnce
  <2>2. CASE /\ Mints(r, once.redis = 0) /\ UNCHANGED degraded
             /\ once' = IF once.redis = 0 THEN [once EXCEPT !.redis = RecordTtl] ELSE once
    BY <1>0, <1>2, <2>1, <2>2
  <2>3. CASE LET i == Endpoint[r] IN
             /\ Mints(r, once.mem[i] = 0) /\ degraded' = degraded \cup {i}
             /\ once' = IF once.mem[i] = 0 THEN [once EXCEPT !.mem[i] = RecordTtl] ELSE once
    BY <1>0, <1>3, <2>1, <2>3
  <2>4. QED
    BY <1>5, <2>2, <2>3 DEF TryOnce
<1>6. QED
  <2>1. ASSUME UNCHANGED <<cvars, life, once, minted, degraded>> PROVE RecordsInv'
    BY <2>1 DEF ExchangeInv, RecordsInv
  <2>2. QED
    BY <1>0, <1>1, <1>4, <1>5, <2>1 DEF RedeemNext


\* A caller that is somewhere else now, and the gates with it.
LEMMA CallerMoved ==
    ASSUME ExchangeTypeOK, NEW c \in Fetchers, NEW at, NEW gate,
           caller' = [caller EXCEPT ![c] = [at |-> at, gate |-> gate]]
    PROVE  /\ caller'[c] = [at |-> at, gate |-> gate]
           /\ \A d \in Fetchers \ {c} : caller'[d] = caller[d]
           /\ at \in {"wait", "fetch", "leave"} =>
                 /\ On(caller', gate) = On(caller, gate) \cup {c}
                 /\ \A g : g # gate => On(caller', g) = On(caller, g) \ {c}
           /\ at \notin {"wait", "fetch", "leave"} => \A g : On(caller', g) = On(caller, g) \ {c}
<1>1. caller'[c] = [at |-> at, gate |-> gate] /\ \A d \in Fetchers \ {c} : caller'[d] = caller[d]
  BY DEF ExchangeTypeOK
<1>2. caller'[c].at = at /\ caller'[c].gate = gate
  BY <1>1
<1>3. QED
  BY <1>1, <1>2 DEF On

CType == [at : {"idle", "join", "wait", "fetch", "leave", "unlock"}, gate : {0} \cup GateIds]
GType == [waiters : Nat, lock : Fetchers \cup {Unlocked}]

\* The updates of one field, as records.
LEMMA GoesTo ==
    ASSUME caller \in [Fetchers -> CType], NEW c \in Fetchers, NEW at, Goes(c, at)
    PROVE  caller' = [caller EXCEPT ![c] = [at |-> at, gate |-> caller[c].gate]]
<1>1. caller[c] \in CType
  OBVIOUS
<1>2. [caller[c] EXCEPT !.at = at] = [at |-> at, gate |-> caller[c].gate]
  BY <1>1 DEF CType
<1>3. QED
  BY <1>2 DEF Goes

\* A gate with one field changed.
LEMMA GateUpdates ==
    ASSUME gates \in [GateIds -> GType], NEW g \in GateIds, NEW x
    PROVE  /\ [gates EXCEPT ![g].waiters = x] = [gates EXCEPT ![g] = [waiters |-> x, lock |-> gates[g].lock]]
           /\ [gates EXCEPT ![g].lock = x] = [gates EXCEPT ![g] = [waiters |-> gates[g].waiters, lock |-> x]]
<1>1. gates[g] \in GType
  OBVIOUS
<1>2. /\ [gates[g] EXCEPT !.waiters = x] = [waiters |-> x, lock |-> gates[g].lock]
      /\ [gates[g] EXCEPT !.lock = x] = [waiters |-> gates[g].waiters, lock |-> x]
  BY <1>1 DEF GType
<1>3. QED
  BY <1>2

\* A step of the callers: GatesInv is kept.
LEMMA GatesStep ==
    ASSUME ExchangeInv, CredentialsNext
    PROVE  /\ token' \in 0..TokenLife /\ current' \in {0} \cup GateIds
           /\ gates' \in [GateIds -> [waiters : Nat, lock : Fetchers \cup {Unlocked}]]
           /\ caller' \in [Fetchers -> [at : {"idle", "join", "wait", "fetch", "leave", "unlock"},
                                       gate : {0} \cup GateIds]]
           /\ GatesInv' /\ UNCHANGED xvars
<1>. DEFINE Kept == /\ token' \in 0..TokenLife /\ current' \in {0} \cup GateIds
                    /\ gates' \in [GateIds -> GType] /\ caller' \in [Fetchers -> CType]
                    /\ GatesInv' /\ UNCHANGED xvars
<1>. USE ExchangeAssumption
<1>0. /\ ExchangeTypeOK /\ token \in 0..TokenLife /\ current \in {0} \cup GateIds
      /\ gates \in [GateIds -> GType] /\ caller \in [Fetchers -> CType]
  BY DEF ExchangeInv, ExchangeTypeOK, GType, CType
<1>00. GatesInv /\ GateIds \subseteq Nat \ {0}
  BY GateIdsNat DEF ExchangeInv
<1>1. ASSUME NEW c \in Fetchers, Cached(c) PROVE Kept
  <2>1. caller[c].at = "idle" /\ UNCHANGED <<token, current, gates, xvars>>
    BY <1>1 DEF Cached
  <2>. DEFINE q == [at |-> "join", gate |-> caller[c].gate]
  <2>2. caller' = [caller EXCEPT ![c] = q]
    BY <1>0, <1>1, GoesTo DEF Cached
  <2>3. caller'[c] = q /\ (\A d \in Fetchers \ {c} : caller'[d] = caller[d]) /\ \A g : On(caller', g) = On(caller, g) \ {c}
    BY <1>0, <2>2, CallerMoved
  <2>4. \A g : On(caller', g) = On(caller, g)
    BY <2>1, <2>3 DEF On
  <2>5. caller' \in [Fetchers -> CType]
    BY <1>0, <2>2 DEF CType, GType
  <2>6. GatesInv'
    BY <1>00, <2>1, <2>3, <2>4 DEF GatesInv
  <2>7. QED
    BY <1>0, <2>1, <2>5, <2>6
<1>2. ASSUME NEW c \in Fetchers, Join(c) PROVE Kept
  <2>1. PICK g \in GateIds :
           /\ IF current # 0 THEN g = current
              ELSE gates[g].waiters = 0 /\ gates[g].lock = Unlocked
           /\ current' = g
           /\ gates' = [gates EXCEPT ![g].waiters = @ + 1]
           /\ caller' = [caller EXCEPT ![c] = [at |-> "wait", gate |-> g]]
    BY <1>2 DEF Join
  <2>2. caller[c].at = "join" /\ UNCHANGED <<token, xvars>>
    BY <1>2 DEF Join
  <2>3. /\ caller'[c] = [at |-> "wait", gate |-> g] /\ \A d \in Fetchers \ {c} : caller'[d] = caller[d]
        /\ On(caller', g) = On(caller, g) \cup {c} /\ \A h : h # g => On(caller', h) = On(caller, h) \ {c}
    BY <1>0, <2>1, CallerMoved, ZenonT(30)
  <2>4. c \notin On(caller, g) /\ \A h : h # g => On(caller', h) = On(caller, h)
    BY <2>2, <2>3 DEF On
  <2>5. gates' = [gates EXCEPT ![g] = [waiters |-> gates[g].waiters + 1, lock |-> gates[g].lock]]
    BY <1>0, <2>1, GateUpdates
  <2>6. gates' \in [GateIds -> GType] /\ caller' \in [Fetchers -> CType]
    BY <1>0, <2>1, <2>5 DEF CType, GType
  <2>7. /\ gates'[g].waiters = gates[g].waiters + 1 /\ \A h \in GateIds : gates'[h].lock = gates[h].lock
        /\ \A h \in GateIds \ {g} : gates'[h] = gates[h]
    BY <1>0, <2>5
  <2>8. ASSUME NEW h \in GateIds PROVE gates'[h].waiters = Cardinality(On(caller', h))
    <3>1. CASE h = g
      <4>1. Cardinality(On(caller, g) \cup {c}) = Cardinality(On(caller, g)) + 1
        BY <2>4, OnFinite, FS_AddElement
      <4>2. QED
        BY <1>00, <2>3, <2>7, <3>1, <4>1 DEF GatesInv
    <3>2. CASE h # g
      BY <1>00, <2>4, <2>7, <3>2 DEF GatesInv
    <3>3. QED
      BY <3>1, <3>2
  <2>9. ASSUME NEW d \in Fetchers \ {c}, caller[d].at \in {"wait", "fetch", "leave"} PROVE caller[d].gate = g
    BY <1>00, <2>1, <2>9 DEF GatesInv
  <2>10. On(caller', g) # {} /\ g # 0
    BY <1>00, <2>3
  <2>11. ASSUME NEW d \in Fetchers
         PROVE  /\ caller'[d].at \in {"wait", "fetch", "leave"} => caller'[d].gate = current' /\ current' # 0
                /\ caller'[d].at \in {"fetch", "leave", "unlock"} =>
                       caller'[d].gate \in GateIds /\ gates'[caller'[d].gate].lock = d
    BY <1>00, <2>1, <2>3, <2>7, <2>9, <2>10 DEF GatesInv
  <2>12. GatesInv'
    BY <2>1, <2>8, <2>10, <2>11 DEF GatesInv
  <2>13. QED
    BY <1>0, <2>1, <2>2, <2>6, <2>12
<1>3. ASSUME NEW c \in Fetchers, NEW g, g = caller[c].gate, Enter(c) PROVE Kept
  <2>. DEFINE at == IF token > 0 THEN "leave" ELSE "fetch"
              q == [at |-> at, gate |-> g]
  <2>1. /\ caller[c].at = "wait" /\ gates[g].lock = Unlocked
        /\ gates' = [gates EXCEPT ![g].lock = c] /\ Goes(c, at)
        /\ UNCHANGED <<token, current, xvars>>
    BY <1>3 DEF Enter
  <2>2. g = current /\ g \in GateIds
    BY <1>3, <1>0, <1>00, <2>1 DEF GatesInv
  <2>3. caller' = [caller EXCEPT ![c] = q]
    BY <1>3, <1>0, <2>1, GoesTo
  <2>4. caller'[c] = q /\ (\A d \in Fetchers \ {c} : caller'[d] = caller[d])
        /\ On(caller', g) = On(caller, g) \cup {c} /\ \A h : h # g => On(caller', h) = On(caller, h) \ {c}
    BY <1>3, <1>0, <2>3, CallerMoved
  <2>5. \A h : On(caller', h) = On(caller, h)
    BY <1>3, <2>1, <2>4 DEF On
  <2>6. gates' = [gates EXCEPT ![g] = [waiters |-> gates[g].waiters, lock |-> c]]
    BY <1>0, <2>1, <2>2, GateUpdates
  <2>7. gates' \in [GateIds -> GType] /\ caller' \in [Fetchers -> CType]
    BY <1>0, <2>2, <2>3, <2>6 DEF CType, GType
  <2>8. /\ gates'[g].lock = c /\ \A h \in GateIds : gates'[h].waiters = gates[h].waiters
        /\ \A h \in GateIds \ {g} : gates'[h] = gates[h]
    BY <1>0, <2>2, <2>6
  <2>9. ASSUME NEW d \in Fetchers
         PROVE  /\ caller'[d].at \in {"wait", "fetch", "leave"} => caller'[d].gate = current' /\ current' # 0
                /\ caller'[d].at \in {"fetch", "leave", "unlock"} =>
                       caller'[d].gate \in GateIds /\ gates'[caller'[d].gate].lock = d
    <3>1. CASE d = c
      BY <1>3, <1>00, <2>1, <2>2, <2>4, <2>8, <3>1
    <3>2. CASE d # c
      <4>1. caller'[d] = caller[d] /\ (caller[d].at \in {"fetch", "leave", "unlock"} => caller[d].gate # g)
        BY <1>00, <2>1, <2>2, <2>4, <3>2 DEF GatesInv
      <4>2. QED
        BY <1>00, <2>1, <2>8, <4>1 DEF GatesInv
    <3>3. QED
      BY <3>1, <3>2
  <2>10. GatesInv'
    BY <1>00, <2>1, <2>5, <2>8, <2>9 DEF GatesInv
  <2>11. QED
    BY <1>0, <2>1, <2>7, <2>10
<1>4. ASSUME NEW c \in Fetchers, FetchToken(c) PROVE Kept
  <2>. DEFINE q == [at |-> "leave", gate |-> caller[c].gate]
  <2>1. /\ caller[c].at = "fetch" /\ Goes(c, "leave") /\ token' \in {token, TokenLife}
        /\ UNCHANGED <<current, gates, xvars>>
    BY <1>4 DEF FetchToken
  <2>2. caller' = [caller EXCEPT ![c] = q]
    BY <1>0, <2>1, GoesTo
  <2>3. caller'[c] = q /\ (\A d \in Fetchers \ {c} : caller'[d] = caller[d])
        /\ On(caller', caller[c].gate) = On(caller, caller[c].gate) \cup {c}
        /\ \A h : h # caller[c].gate => On(caller', h) = On(caller, h) \ {c}
    BY <1>0, <2>2, CallerMoved, ZenonT(30)
  <2>4. \A h : On(caller', h) = On(caller, h)
    BY <2>1, <2>3 DEF On
  <2>5. caller' \in [Fetchers -> CType] /\ token' \in 0..TokenLife
    BY <1>0, <2>1, <2>2 DEF CType, GType
  <2>6. GatesInv'
    BY <1>00, <2>1, <2>3, <2>4 DEF GatesInv
  <2>7. QED
    BY <1>0, <2>1, <2>5, <2>6
<1>5. ASSUME NEW c \in Fetchers, NEW g, g = caller[c].gate, LeaveGate(c) PROVE Kept
  <2>. DEFINE q == [at |-> "unlock", gate |-> g]
  <2>1. /\ caller[c].at = "leave" /\ Goes(c, "unlock")
        /\ gates' = [gates EXCEPT ![g].waiters = @ - 1]
        /\ current' = (IF gates[g].waiters = 1 THEN 0 ELSE current)
        /\ UNCHANGED <<token, xvars>>
    BY <1>5 DEF LeaveGate
  <2>2. g = current /\ g \in GateIds /\ c \in On(caller, g) /\ gates[g].lock = c
    BY <1>5, <1>0, <1>00, <2>1 DEF GatesInv, On
  <2>3. caller' = [caller EXCEPT ![c] = q]
    BY <1>5, <1>0, <2>1, GoesTo
  <2>4. caller'[c] = q /\ (\A d \in Fetchers \ {c} : caller'[d] = caller[d]) /\ \A h : On(caller', h) = On(caller, h) \ {c}
    BY <1>5, <1>0, <2>3, CallerMoved
  <2>5. \A h : h # g => On(caller', h) = On(caller, h)
    BY <1>5, <2>4 DEF On
  <2>6. /\ gates[g].waiters = Cardinality(On(caller, g)) /\ IsFiniteSet(On(caller, g)) /\ Cardinality(On(caller, g)) \in Nat
        /\ Cardinality(On(caller', g)) = Cardinality(On(caller, g)) - 1 /\ IsFiniteSet(On(caller', g))
    BY <1>00, <2>2, <2>4, OnFinite, FS_RemoveElement DEF GatesInv
  <2>7. gates[g].waiters >= 1
    BY <2>2, <2>6, FS_EmptySet
  <2>8. gates' = [gates EXCEPT ![g] = [waiters |-> gates[g].waiters - 1, lock |-> gates[g].lock]]
    <3>. DEFINE w == gates[g].waiters - 1
    <3>1. gates' = [gates EXCEPT ![g].waiters = w]
      BY <2>1
    <3>. HIDE DEF w
    <3>2. gates' = [gates EXCEPT ![g] = [waiters |-> w, lock |-> gates[g].lock]]
      BY <1>0, <2>2, <3>1, GateUpdates, Zenon
    <3>3. QED
      BY <3>2 DEF w
  <2>9. gates[g].waiters - 1 \in Nat
    BY <2>6, <2>7
  <2>10. gates' \in [GateIds -> GType] /\ caller' \in [Fetchers -> CType]
    <3>1. q \in CType
      BY <1>5, <2>2 DEF CType
    <3>2. QED
      BY <1>0, <2>2, <2>3, <2>8, <2>9, <3>1 DEF GType
  <2>11. /\ gates'[g].waiters = gates[g].waiters - 1 /\ \A h \in GateIds : gates'[h].lock = gates[h].lock
         /\ \A h \in GateIds \ {g} : gates'[h] = gates[h]
    BY <1>0, <2>2, <2>8
  <2>12. \A h \in GateIds : gates'[h].waiters = Cardinality(On(caller', h))
    BY <1>00, <2>5, <2>6, <2>11 DEF GatesInv
  <2>13. IF gates[g].waiters = 1 THEN current' = 0 /\ On(caller', g) = {} ELSE current' = g /\ On(caller', g) # {}
    BY <2>1, <2>2, <2>6, FS_EmptySet
  <2>14. ASSUME NEW d \in Fetchers
         PROVE  /\ caller'[d].at \in {"wait", "fetch", "leave"} => caller'[d].gate = current' /\ current' # 0
                /\ caller'[d].at \in {"fetch", "leave", "unlock"} =>
                       caller'[d].gate \in GateIds /\ gates'[caller'[d].gate].lock = d
    <3>1. CASE d = c
      BY <1>5, <2>2, <2>4, <2>11, <3>1
    <3>2. CASE d # c
      <4>1. caller'[d] = caller[d]
        BY <2>4, <3>2
      <4>2. ASSUME caller[d].at \in {"wait", "fetch", "leave"} PROVE caller[d].gate = current' /\ current' # 0
        <5>1. caller[d].gate = g /\ g # 0
          BY <1>00, <2>2, <4>2 DEF GatesInv
        <5>2. d \in On(caller', g)
          BY <2>4, <3>2, <4>2, <5>1 DEF On
        <5>3. QED
          BY <2>13, <5>1, <5>2
      <4>3. QED
        BY <1>00, <2>11, <4>1, <4>2, ZenonT(30) DEF GatesInv
    <3>3. QED
      BY <3>1, <3>2
  <2>15. GatesInv'
    BY <2>12, <2>13, <2>14 DEF GatesInv
  <2>16. QED
    BY <1>0, <2>1, <2>2, <2>10, <2>13, <2>15
<1>6. ASSUME NEW c \in Fetchers, NEW g, g = caller[c].gate, Unlock(c) PROVE Kept
  <2>. DEFINE q == [at |-> "idle", gate |-> 0]
  <2>1. /\ caller[c].at = "unlock" /\ caller' = [caller EXCEPT ![c] = q]
        /\ gates' = [gates EXCEPT ![g].lock = Unlocked]
        /\ UNCHANGED <<token, current, xvars>>
    BY <1>6 DEF Unlock
  <2>2. g \in GateIds /\ gates[g].lock = c
    BY <1>6, <1>00, <2>1 DEF GatesInv
  <2>3. caller'[c] = q /\ (\A d \in Fetchers \ {c} : caller'[d] = caller[d]) /\ \A h : On(caller', h) = On(caller, h) \ {c}
    BY <1>6, <1>0, <2>1, CallerMoved
  <2>4. \A h : On(caller', h) = On(caller, h)
    BY <1>6, <2>1, <2>3 DEF On
  <2>5. gates' = [gates EXCEPT ![g] = [waiters |-> gates[g].waiters, lock |-> Unlocked]]
    BY <1>6, <1>0, <2>1, <2>2, GateUpdates
  <2>6. gates' \in [GateIds -> GType] /\ caller' \in [Fetchers -> CType]
    BY <1>0, <2>1, <2>2, <2>5 DEF CType, GType
  <2>7. /\ \A h \in GateIds : gates'[h].waiters = gates[h].waiters
        /\ \A h \in GateIds \ {g} : gates'[h] = gates[h]
    BY <1>0, <2>2, <2>5
  <2>8. ASSUME NEW d \in Fetchers
         PROVE  /\ caller'[d].at \in {"wait", "fetch", "leave"} => caller'[d].gate = current' /\ current' # 0
                /\ caller'[d].at \in {"fetch", "leave", "unlock"} =>
                       caller'[d].gate \in GateIds /\ gates'[caller'[d].gate].lock = d
    <3>1. CASE d = c
      BY <1>6, <2>3, <3>1
    <3>2. CASE d # c
      <4>1. caller'[d] = caller[d] /\ (caller[d].at \in {"fetch", "leave", "unlock"} => caller[d].gate # g)
        BY <1>00, <2>2, <2>3, <3>2 DEF GatesInv
      <4>2. QED
        BY <1>00, <2>1, <2>7, <4>1 DEF GatesInv
    <3>3. QED
      BY <3>1, <3>2
  <2>9. GatesInv'
    BY <1>00, <2>1, <2>4, <2>7, <2>8 DEF GatesInv
  <2>10. QED
    BY <1>0, <2>1, <2>6, <2>9
<1>7. ASSUME TokenAges PROVE Kept
  <2>1. token > 0 /\ token' \in {token - 1, 0} /\ UNCHANGED <<current, gates, caller, xvars>>
    BY <1>7 DEF TokenAges
  <2>2. GatesInv'
    BY <1>00, <2>1 DEF GatesInv, On
  <2>3. QED
    BY <1>0, <2>1, <2>2
<1>8. Kept
  BY <1>1, <1>2, <1>3, <1>4, <1>5, <1>6, <1>7 DEF CredentialsNext
<1>9. QED
  BY <1>8 DEF CType, GType

\* Every step of the exchange keeps ExchangeInv.
LEMMA ExchangeKeeps ==
    ExchangeInv /\ [CredentialsNext \/ RedeemNext]_<<cvars, xvars>> => ExchangeInv'
<1>. SUFFICES ASSUME ExchangeInv, [CredentialsNext \/ RedeemNext]_<<cvars, xvars>> PROVE ExchangeInv'
  OBVIOUS
<1>1. CASE CredentialsNext
  BY <1>1, GatesStep DEF ExchangeInv, ExchangeTypeOK, RecordsInv, xvars
<1>2. CASE RedeemNext
  BY <1>2, RecordsStep DEF ExchangeInv, ExchangeTypeOK, GatesInv, On, cvars
<1>3. CASE UNCHANGED <<cvars, xvars>>
  BY <1>3 DEF ExchangeInv, ExchangeTypeOK, GatesInv, RecordsInv, On, cvars, xvars
<1>4. QED
  BY <1>1, <1>2, <1>3

\* ExchangeInv implies the properties of the exchange.
LEMMA ExchangeInvMeans == ExchangeInv => OneFetch /\ RedeemedOnce
<1>. SUFFICES ASSUME ExchangeInv PROVE OneFetch /\ RedeemedOnce
  OBVIOUS
<1>1. OneFetch
  <2>1. \A c, d \in Fetchers : caller[c].at = "fetch" /\ caller[d].at = "fetch" => c = d
    BY DEF ExchangeInv, GatesInv
  <2>2. (\A c \in Fetchers : caller[c].at \in {"idle", "join", "unlock"}) => current = 0
    BY DEF ExchangeInv, GatesInv, On
  <2>3. QED
    BY <2>1, <2>2 DEF ExchangeInv, OneFetch
<1>2. RedeemedOnce
  <2>1. Cardinality(degraded) \in Nat /\ minted \in Nat
    BY FS_CardinalityType DEF ExchangeInv, RecordsInv, ExchangeTypeOK
  <2>2. QED
    BY <2>1 DEF ExchangeInv, RecordsInv, RedeemedOnce
<1>3. QED
  BY <1>1, <1>2

\* An assertion is redeemed once until it expires, and once more at most by each
\* instance that lost Redis, for any presentations and instances (ServeToken,
\* state.Once).
THEOREM RedeemedOnceCorrect == ExchangeSpec => []RedeemedOnce
BY ExchangeInitially, ExchangeKeeps, ExchangeInvMeans, PTL DEF ExchangeSpec
-----------------------------------------------------------------------------
(* ListCache. *)

\* The callers that fill on behalf of the entry.
Filler(c) == pc[c] \in {"fill", "filled"}

\* SingleFlight, without its set; a fill that panicked leaves nobody behind.
Flight ==
    /\ \A c, d \in Callers : Filler(c) /\ Filler(d) => c = d
    /\ entry = "inflight" <=> (\E c \in Callers : Filler(c)) \/ panicked
    /\ panicked => \A c \in Callers : ~Filler(c)

\* A list that is older than an announcement was being filled when it came.
Stale ==
    /\ announced <= version
    /\ Mem!StaleOnlyIfRaced
    /\ \A c \in Callers : pc[c] = "filled" /\ fetched[c] < announced => raced

MemInv == Mem!TypeOK /\ Flight /\ Stale

\* The in-process cache starts with MemInv.
LEMMA MemInit == Mem!Init => MemInv
<1>. SUFFICES ASSUME Mem!Init PROVE MemInv
  OBVIOUS
<1>. USE RedisCacheAssumption
<1>1. Mem!TypeOK
  <2>1. 0 \in Mem!Versions
    BY DEF Mem!Versions
  <2>2. raced \in BOOLEAN /\ panicked \in BOOLEAN
    BY Zenon DEF Mem!Init
  <2>3. QED
    BY <2>1, <2>2 DEF Mem!Init, Mem!TypeOK, Mem!Filling
<1>2. Flight /\ Stale
  BY DEF Mem!Init, Flight, Filler, Stale, Mem!StaleOnlyIfRaced
<1>3. QED
  BY <1>1, <1>2 DEF MemInv

\* Every step of the in-process cache keeps its types,
LEMMA MemStepType == MemInv /\ Mem!Next => Mem!TypeOK'
<1>. SUFFICES ASSUME MemInv, Mem!Next PROVE Mem!TypeOK'
  OBVIOUS
<1>0. Mem!TypeOK
  BY DEF MemInv
<1>. USE <1>0, RedisCacheAssumption DEF Mem!TypeOK, Mem!world, Mem!Filling
<1>1. ASSUME NEW c \in Callers, Mem!Hit(c) PROVE Mem!TypeOK'
  BY <1>1 DEF Mem!Hit, Mem!Begin, Mem!Answer
<1>2. ASSUME NEW c \in Callers, Mem!Join(c) PROVE Mem!TypeOK'
  BY <1>2 DEF Mem!Join, Mem!Begin, Mem!Unanswered
<1>3. ASSUME NEW c \in Callers, Mem!Lead(c) PROVE Mem!TypeOK'
  BY <1>3 DEF Mem!Lead, Mem!Begin, Mem!Unanswered
<1>4. ASSUME NEW c \in Callers, Mem!Fetch(c) PROVE Mem!TypeOK'
  BY <1>4 DEF Mem!Fetch
<1>5. ASSUME NEW c \in Callers, Mem!Finish(c) PROVE Mem!TypeOK'
  BY <1>5 DEF Mem!Finish, Mem!Answer, Mem!Wake
<1>6. ASSUME NEW c \in Callers, Mem!FillFails(c) PROVE Mem!TypeOK'
  BY <1>6 DEF Mem!FillFails, Mem!Wake
<1>7. ASSUME NEW c \in Callers, Mem!FillPanics(c) PROVE Mem!TypeOK'
  BY <1>7 DEF Mem!FillPanics
<1>8. ASSUME NEW c \in Callers, Mem!WokenHit(c) \/ Mem!WokenMiss(c) PROVE Mem!TypeOK'
  BY <1>8 DEF Mem!WokenHit, Mem!WokenMiss, Mem!Answer
<1>9. ASSUME NEW c \in Callers, Mem!DirectFill(c) \/ Mem!DirectFails(c) \/ Mem!GiveUp(c) PROVE Mem!TypeOK'
  BY <1>9 DEF Mem!DirectFill, Mem!DirectFails, Mem!GiveUp, Mem!Answer
<1>10. CASE Mem!Change
  BY <1>10 DEF Mem!Change, Mem!calls, Mem!Versions
<1>11. CASE Mem!Invalidate
  <2>1. raced' \in BOOLEAN
    BY <1>11, Zenon DEF Mem!Invalidate
  <2>2. QED
    BY <1>11, <2>1 DEF Mem!Invalidate, Mem!calls, Mem!Drop
<1>12. CASE Mem!Expire
  BY <1>12 DEF Mem!Expire, Mem!calls
<1>. HIDE DEF Mem!TypeOK, Mem!world, Mem!Filling
<1>13. QED
  BY <1>1, <1>2, <1>3, <1>4, <1>5, <1>6, <1>7, <1>8, <1>9, <1>10, <1>11, <1>12
     DEF Mem!Next, Mem!CallStep

\* that one fetch of a key is in flight,
LEMMA MemStepFlight == MemInv /\ Mem!Next => Flight'
<1>. SUFFICES ASSUME MemInv, Mem!Next PROVE Flight'
  OBVIOUS
<1>0. Flight /\ pc \in [Callers -> {"idle", "wait", "woken"} \cup Mem!Filling]
  BY DEF MemInv, Mem!TypeOK
<1>. USE <1>0 DEF Flight, Filler, Mem!world
<1>1. ASSUME NEW c \in Callers, Mem!Hit(c) PROVE Flight'
  BY <1>1 DEF Mem!Hit
<1>2. ASSUME NEW c \in Callers, Mem!Join(c) PROVE Flight'
  BY <1>2 DEF Mem!Join, Mem!Begin
<1>3. ASSUME NEW c \in Callers, Mem!Lead(c) PROVE Flight'
  BY <1>3 DEF Mem!Lead, Mem!Begin
<1>4. ASSUME NEW c \in Callers, Mem!Fetch(c) PROVE Flight'
  BY <1>4 DEF Mem!Fetch
<1>5. ASSUME NEW c \in Callers, Mem!Finish(c) PROVE Flight'
  BY <1>5 DEF Mem!Finish, Mem!Wake
<1>6. ASSUME NEW c \in Callers, Mem!FillFails(c) PROVE Flight'
  BY <1>6 DEF Mem!FillFails, Mem!Wake
<1>7. ASSUME NEW c \in Callers, Mem!FillPanics(c) PROVE Flight'
  BY <1>7 DEF Mem!FillPanics
<1>8. ASSUME NEW c \in Callers, Mem!WokenHit(c) \/ Mem!WokenMiss(c) PROVE Flight'
  BY <1>8 DEF Mem!WokenHit, Mem!WokenMiss
<1>9. ASSUME NEW c \in Callers, Mem!DirectFill(c) \/ Mem!DirectFails(c) \/ Mem!GiveUp(c) PROVE Flight'
  BY <1>9 DEF Mem!DirectFill, Mem!DirectFails, Mem!GiveUp
<1>10. CASE Mem!Change
  BY <1>10 DEF Mem!Change, Mem!calls
<1>11. CASE Mem!Invalidate
  BY <1>11 DEF Mem!Invalidate, Mem!calls, Mem!Drop
<1>12. CASE Mem!Expire
  BY <1>12 DEF Mem!Expire, Mem!calls
<1>. HIDE DEF Flight, Filler, Mem!world
<1>13. QED
  BY <1>1, <1>2, <1>3, <1>4, <1>5, <1>6, <1>7, <1>8, <1>9, <1>10, <1>11, <1>12
     DEF Mem!Next, Mem!CallStep

\* and that what a reader gets is no staler than what its fetch read.
LEMMA MemStepStale == MemInv /\ Mem!Next => Stale'
<1>. SUFFICES ASSUME MemInv, Mem!Next PROVE Stale'
  OBVIOUS
<1>0. /\ Stale /\ Flight
      /\ pc \in [Callers -> {"idle", "wait", "woken"} \cup Mem!Filling]
      /\ fetched \in [Callers -> Mem!Versions] /\ version \in Nat /\ announced \in Nat /\ value \in Nat
      /\ \A c \in Callers : fetched[c] \in Nat
  BY RedisCacheAssumption DEF MemInv, Mem!TypeOK, Mem!Versions
<1>. USE <1>0 DEF Stale, Mem!StaleOnlyIfRaced, Mem!world
<1>1. ASSUME NEW c \in Callers, Mem!Hit(c) \/ Mem!Join(c) PROVE Stale'
  BY <1>1 DEF Mem!Hit, Mem!Join, Mem!Begin
<1>3. ASSUME NEW c \in Callers, Mem!Lead(c) PROVE Stale'
  <2>1. \A d \in Callers : pc[d] # "filled"
    BY <1>3 DEF Mem!Lead, Flight, Filler
  <2>2. QED
    BY <1>3, <2>1 DEF Mem!Lead
<1>4. ASSUME NEW c \in Callers, Mem!Fetch(c) PROVE Stale'
  BY <1>4 DEF Mem!Fetch
<1>5. ASSUME NEW c \in Callers, Mem!Finish(c) PROVE Stale'
  BY <1>5 DEF Mem!Finish, Mem!Wake
<1>6. ASSUME NEW c \in Callers, Mem!FillFails(c) PROVE Stale'
  BY <1>6 DEF Mem!FillFails, Mem!Wake
<1>7. ASSUME NEW c \in Callers, Mem!FillPanics(c) PROVE Stale'
  BY <1>7 DEF Mem!FillPanics
<1>8. ASSUME NEW c \in Callers, Mem!WokenHit(c) \/ Mem!WokenMiss(c) PROVE Stale'
  BY <1>8 DEF Mem!WokenHit, Mem!WokenMiss
<1>9. ASSUME NEW c \in Callers, Mem!DirectFill(c) \/ Mem!DirectFails(c) \/ Mem!GiveUp(c) PROVE Stale'
  BY <1>9 DEF Mem!DirectFill, Mem!DirectFails, Mem!GiveUp
<1>10. CASE Mem!Change
  BY <1>10 DEF Mem!Change, Mem!calls
<1>11. CASE Mem!Invalidate
  <2>1. /\ announced < version /\ announced' = version /\ entry' = (IF entry = "inflight" THEN entry ELSE "none")
        /\ raced' = (raced \/ entry = "inflight") /\ UNCHANGED <<value, pc, fetched, version>>
    BY <1>11 DEF Mem!Invalidate, Mem!calls, Mem!Drop
  <2>2. entry' # "value"
    BY <2>1
  <2>3. ASSUME NEW c \in Callers, pc'[c] = "filled" PROVE raced'
    <3>1. entry = "inflight"
      BY <2>1, <2>3 DEF Flight, Filler
    <3>2. QED
      BY <2>1, <3>1
  <2>4. QED
    BY <2>1, <2>2, <2>3
<1>12. CASE Mem!Expire
  BY <1>12 DEF Mem!Expire, Mem!calls
<1>. HIDE DEF Stale, Mem!StaleOnlyIfRaced, Mem!world
<1>13. QED
  BY <1>1, <1>3, <1>4, <1>5, <1>6, <1>7, <1>8, <1>9, <1>10, <1>11, <1>12
     DEF Mem!Next, Mem!CallStep
-----------------------------------------------------------------------------
(* The parts together. *)

CachesInv ==
    /\ part = "redis" => RedisInv
    /\ part = "memory" => MemInv
    /\ FrontInv /\ ExchangeInv

\* The composition starts with CachesInv.
LEMMA CachesInit == MCInit => CachesInv
BY RedisInitInv, MemInit, FrontInitially, ExchangeInitially DEF MCInit, CachesInv

\* Every step of the composition keeps CachesInv.
LEMMA CachesStep == CachesInv /\ [MCNext]_all => CachesInv'
<1>. SUFFICES ASSUME CachesInv, [MCNext]_all PROVE CachesInv'
  OBVIOUS
<1>0. part' = part
  BY DEF MCNext, all
<1>1. ASSUME part = "redis" PROVE RedisInv'
  <2>1. RedisInv /\ [Next]_vars
    BY <1>1 DEF CachesInv, MCNext, all
  <2>2. QED
    BY <2>1, RedisStepInv
<1>2. ASSUME part = "memory" PROVE MemInv'
  <2>1. MemInv
    BY <1>2 DEF CachesInv
  <2>2. CASE Mem!Next
    BY <2>1, <2>2, MemStepType, MemStepFlight, MemStepStale DEF MemInv
  <2>3. CASE UNCHANGED all
    BY <2>1, <2>3 DEF all, vars, calls, memVars, MemInv, Mem!TypeOK, Flight, Filler, Stale, Mem!StaleOnlyIfRaced
  <2>4. QED
    BY <1>2, <2>2, <2>3 DEF MCNext
<1>3. FrontInv'
  <2>1. FrontInv /\ [FrontNext]_hvars
    BY DEF CachesInv, MCNext, all
  <2>2. QED
    BY <2>1, FrontStepKeeps
<1>4. ExchangeInv'
  <2>1. ExchangeInv /\ [CredentialsNext \/ RedeemNext]_<<cvars, xvars>>
    BY DEF CachesInv, MCNext, all, Over
  <2>2. QED
    BY <2>1, ExchangeKeeps
<1>5. QED
  BY <1>0, <1>1, <1>2, <1>3, <1>4 DEF CachesInv

\* What a list request is answered with is as new as MCFresh says, with either
\* state provider, for any number of callers and changes (cache.GetOrFill,
\* cache.Invalidate, redisCache).
THEOREM FreshInBoth == MCSpec => []MCFresh
<1>1. CachesInv => MCFresh
  BY DEF CachesInv, MCFresh, RedisInv, GenInv, FreshCaller, SeesAnnounced, MemInv, Stale
<1>2. QED
  BY <1>1, CachesInit, CachesStep, PTL DEF MCSpec

\* A list, an icon and a token are each filled by one request at a time,
\* however many there are (cache.GetOrFill, iconFlight, cachedFetch).
THEOREM SingleFlightCorrect == MCSpec => []MCSingleFlight
<1>1. CachesInv => MCSingleFlight
  <2>1. MemInv => Mem!SingleFlight
    BY DEF MemInv, Flight, Filler, Mem!SingleFlight
  <2>2. QED
    BY <2>1, FrontInvMeans, ExchangeInvMeans DEF CachesInv, MCSingleFlight
<1>2. QED
  BY <1>1, CachesInit, CachesStep, PTL DEF MCSpec
=============================================================================
