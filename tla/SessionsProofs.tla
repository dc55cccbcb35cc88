--------------------------- MODULE SessionsProofs ---------------------------
(***************************************************************************)
(* Proofs about Sessions, for any number of upstream objects, sessions,    *)
(* keys and requests, and any sequence of reloads.                         *)
(***************************************************************************)
EXTENDS Sessions, TLAPS

\* What a request holds at each of its steps.
HoldsInv ==
    \A r \in Reqs :
        /\ pc[r] = "idle" <=> at[r] = None
        /\ pc[r] \in {"connected", "calling"} <=> ses[r] # None
        /\ r \in early => pc[r] = "calling"

\* A session that is being connected belongs to one request and is nowhere
\* else...
Private ==
    \A r \in Reqs : pc[r] = "connected" =>
        /\ ses[r] \in open
        /\ \A q \in Reqs : ses[q] = ses[r] => q = r
        /\ \A o \in Objs, k \in Keys : slots[o][k] # ses[r]

\* ...one that is installed is in one place...
OnePlace ==
    \A o1, o2 \in Objs, k1, k2 \in Keys :
        slots[o1][k1] = slots[o2][k2] /\ slots[o1][k1] # None => o1 = o2 /\ k1 = k2

\* ...which is the one where the requests that use it found it.
Found ==
    \A r \in Reqs, o \in Objs, k \in Keys :
        pc[r] = "calling" /\ slots[o][k] = ses[r] => o = at[r] /\ k = key[r]

PlaceInv == Private /\ OnePlace /\ Found

\* Gateway.Close has a list only once it has begun.
StopInv == ~stopped => toClose = {}

\* A call that has time left has used its session lately, and if it was out
\* when its upstream retired the drain timer outlasts it.
TimeInv ==
    ~stopped =>
    \A r \in Reqs : pc[r] = "calling" /\ left[r] > 0 =>
        /\ \A k \in ClientKeys :
              slots[at[r]][k] = ses[r] => age[at[r]][k] + left[r] <= RequestTimeout
        /\ r \in early /\ phase[at[r]] = "draining" => left[r] <= drain[at[r]]

IInv == SessionsTypeOK /\ HoldsInv /\ PlaceInv /\ StopInv /\ Accounted /\ TimeInv

\* The steps, told apart.
LEMMA Steps ==
    ASSUME [SessionsNext]_svars
    PROVE  \/ \E r \in Reqs, o \in Objs, k \in Keys : Begin(r, o, k)
           \/ \E r \in Reqs : Acquire(r)
           \/ \E r \in Reqs : Connected(r)
           \/ \E r \in Reqs : ConnectFails(r)
           \/ \E r \in Reqs : Install(r)
           \/ \E r \in Reqs : Finish(r)
           \/ \E r \in Reqs : Break(r)
           \/ \E new, retired \in SUBSET Objs : Swap(new, retired)
           \/ Stop({o \in Objs : phase[o] = "serving"})
           \/ \E o \in Objs : Sweep(o)
           \/ \E o \in Objs : Drain(o)
           \/ \E o \in Objs : StopOne(o)
           \/ Tick
           \/ UNCHANGED svars
  BY DEF SessionsNext, RequestStep, UpkeepStep

\* What Use does to the types.
LEMMA UseTypes ==
    ASSUME SessionsTypeOK, NEW r \in Reqs, NEW s \in Sess, Use(r, s)
    PROVE  RequestTypes' /\ age' \in [Objs -> [ClientKeys -> 0..IdleTimeout + 1]]
  BY SessionsAssumption DEF SessionsTypeOK, RequestTypes, ObjectTypes, Use

\* No step of a request or of the upkeep leaves the types of the requests.
LEMMA RequestTypeStep ==
    ASSUME SessionsTypeOK, HoldsInv, [SessionsNext]_svars
    PROVE  RequestTypes'
<1>. USE SessionsAssumption DEF SessionsTypeOK, RequestTypes
<1>1. CASE \E r \in Reqs, o \in Objs, k \in Keys : Begin(r, o, k)
  BY <1>1 DEF Begin
<1>2. CASE \E r \in Reqs : Acquire(r)
  <2>. PICK r \in Reqs : Acquire(r)
    BY <1>2
  <2>1. CASE slots[at[r]][key[r]] = None
    BY <2>1 DEF Acquire
  <2>2. CASE slots[at[r]][key[r]] # None
    <3>1. slots[at[r]][key[r]] \in Sess /\ Use(r, slots[at[r]][key[r]])
      BY <2>2 DEF Acquire, ObjectTypes, HoldsInv
    <3>2. QED
      BY <3>1, UseTypes
  <2>3. QED
    BY <2>1, <2>2
<1>3. CASE \E r \in Reqs : Connected(r)
  <2>. PICK r \in Reqs : Connected(r)
    BY <1>3
  <2>1. PICK s \in Sess : ses' = [ses EXCEPT ![r] = s]
    BY DEF Connected, FreshSess
  <2>2. QED
    BY <2>1, ZenonT(30) DEF Connected
<1>4. CASE \E r \in Reqs : ConnectFails(r)
  BY <1>4 DEF ConnectFails, Return, Keys
<1>5. CASE \E r \in Reqs : Install(r)
  <2>. PICK r \in Reqs : Install(r)
    BY <1>5
  <2>1. \E s \in Sess : Use(r, s)
    BY DEF Install, ObjectTypes, HoldsInv
  <2>2. QED
    BY <2>1, UseTypes
<1>6. CASE \E r \in Reqs : Finish(r)
  BY <1>6 DEF Finish, Return, Keys
<1>7. CASE \E r \in Reqs : Break(r)
  <2>. PICK r \in Reqs : Break(r)
    BY <1>7
  <2>1. Return(r)
    BY DEF Break
  <2>2. QED
    BY <2>1 DEF Return, Keys
<1>8. CASE \E new, retired \in SUBSET Objs : Swap(new, retired)
  BY <1>8 DEF Swap
<1>9. CASE Stop({o \in Objs : phase[o] = "serving"})
  BY <1>9 DEF Stop
<1>10. CASE \E o \in Objs : Sweep(o)
  BY <1>10 DEF Sweep, request
<1>11. CASE \E o \in Objs : Drain(o)
  BY <1>11 DEF Drain, Close, request
<1>12. CASE \E o \in Objs : StopOne(o)
  BY <1>12 DEF StopOne, Close, request
<1>13. CASE Tick
  <2>1. \A n \in 0..RequestTimeout : Dec(n) \in 0..RequestTimeout
    BY DEF Dec
  <2>2. QED
    BY <1>13, <2>1 DEF Tick
<1>14. CASE UNCHANGED svars
  BY <1>14 DEF svars, request
<1>15. QED
  BY Steps, <1>1, <1>2, <1>3, <1>4, <1>5, <1>6, <1>7, <1>8, <1>9, <1>10, <1>11, <1>12, <1>13, <1>14

\* Nor the types of what the upstream objects hold.
LEMMA ObjectTypeStep ==
    ASSUME SessionsTypeOK, HoldsInv, [SessionsNext]_svars
    PROVE  ObjectTypes'
<1>. USE SessionsAssumption DEF SessionsTypeOK, ObjectTypes
<1>1. CASE \E r \in Reqs, o \in Objs, k \in Keys : Begin(r, o, k)
  BY <1>1 DEF Begin, objects, store, gateway
<1>2. CASE \E r \in Reqs : Acquire(r)
  <2>. PICK r \in Reqs : Acquire(r)
    BY <1>2
  <2>1. CASE slots[at[r]][key[r]] = None
    BY <2>1 DEF Acquire, objects, store, gateway
  <2>2. CASE slots[at[r]][key[r]] # None
    <3>1. Use(r, slots[at[r]][key[r]]) /\ UNCHANGED <<slots, open, late>>
      BY <2>2 DEF Acquire
    <3>2. slots[at[r]][key[r]] \in Sess
      BY <2>2 DEF Acquire, HoldsInv, RequestTypes
    <3>3. QED
      BY <3>1, <3>2, UseTypes DEF Use, objects, gateway
  <2>3. QED
    BY <2>1, <2>2
<1>3. CASE \E r \in Reqs : Connected(r)
  <2>. PICK r \in Reqs : Connected(r)
    BY <1>3
  <2>1. PICK s \in Sess : open' = open \cup {s}
    BY DEF Connected, FreshSess
  <2>2. QED
    BY <2>1 DEF Connected, objects, gateway
<1>4. CASE \E r \in Reqs : ConnectFails(r)
  BY <1>4 DEF ConnectFails, Return, objects, store, gateway
<1>5. CASE \E r \in Reqs : Install(r)
  <2>. PICK r \in Reqs : Install(r)
    BY <1>5
  <2>1. at[r] \in Objs /\ key[r] \in Keys /\ ses[r] \in Sess
    BY DEF Install, HoldsInv, RequestTypes
  <2>2. open' \in SUBSET Sess /\ late' \in SUBSET Sess
    BY <2>1 DEF Install, Shut
  <2>3. slots' \in [Objs -> [Keys -> Sess \cup {None}]]
    BY <2>1 DEF Install, Put
  <2>4. \E s \in Sess : Use(r, s)
    BY <2>1 DEF Install
  <2>5. age' \in [Objs -> [ClientKeys -> 0..IdleTimeout + 1]] /\ UNCHANGED <<objects, gateway>>
    BY <2>4, UseTypes DEF Use
  <2>6. QED
    BY <2>2, <2>3, <2>5 DEF objects, gateway
<1>6. CASE \E r \in Reqs : Finish(r)
  BY <1>6 DEF Finish, Return, objects, store, gateway
<1>7. CASE \E r \in Reqs : Break(r)
  BY <1>7 DEF Break, dropSession, Shut, Return, objects, gateway
<1>8. CASE \E new, retired \in SUBSET Objs : Swap(new, retired)
  BY <1>8 DEF Swap, DrainTime, gateway
<1>9. CASE Stop({o \in Objs : phase[o] = "serving"})
  BY <1>9 DEF Stop
<1>10. CASE \E o \in Objs : Sweep(o)
  BY <1>10 DEF Sweep, Shut, objects, gateway
<1>11. CASE \E o \in Objs : Drain(o)
  BY <1>11 DEF Drain, Close, Shut
<1>12. CASE \E o \in Objs : StopOne(o)
  BY <1>12 DEF StopOne, Close, Shut
<1>13. CASE Tick
  BY <1>13 DEF Tick, Dec, gateway
<1>14. CASE UNCHANGED svars
  BY <1>14 DEF svars, objects, store, gateway
<1>15. QED
  BY Steps, <1>1, <1>2, <1>3, <1>4, <1>5, <1>6, <1>7, <1>8, <1>9, <1>10, <1>11, <1>12, <1>13, <1>14

\* SessionsTypeOK is kept by every step.
LEMMA TypeStep ==
    ASSUME SessionsTypeOK, HoldsInv, [SessionsNext]_svars
    PROVE  SessionsTypeOK'
  BY RequestTypeStep, ObjectTypeStep DEF SessionsTypeOK

\* HoldsInv is kept by every step.
LEMMA HoldsStep ==
    ASSUME SessionsTypeOK, HoldsInv, [SessionsNext]_svars
    PROVE  HoldsInv'
<1>. USE SessionsAssumption DEF SessionsTypeOK, RequestTypes, HoldsInv
<1>1. CASE \E r \in Reqs, o \in Objs, k \in Keys : Begin(r, o, k)
  BY <1>1 DEF Begin
<1>2. CASE \E r \in Reqs : Acquire(r)
  BY <1>2 DEF Acquire, Use
<1>3. CASE \E r \in Reqs : Connected(r)
  BY <1>3 DEF Connected, FreshSess
<1>4. CASE \E r \in Reqs : ConnectFails(r)
  BY <1>4 DEF ConnectFails, Return
<1>5. CASE \E r \in Reqs : Install(r)
  BY <1>5 DEF Install, Use
<1>6. CASE \E r \in Reqs : Finish(r)
  BY <1>6 DEF Finish, Return
<1>7. CASE \E r \in Reqs : Break(r)
  BY <1>7 DEF Break, Return
<1>8. CASE \E new, retired \in SUBSET Objs : Swap(new, retired)
  BY <1>8 DEF Swap
<1>9. CASE Stop({o \in Objs : phase[o] = "serving"})
  BY <1>9 DEF Stop, stopped
<1>10. CASE \E o \in Objs : Sweep(o)
  BY <1>10 DEF Sweep, request
<1>11. CASE \E o \in Objs : Drain(o)
  BY <1>11 DEF Drain, Close, request
<1>12. CASE \E o \in Objs : StopOne(o)
  BY <1>12 DEF StopOne, Close, request
<1>13. CASE Tick
  BY <1>13 DEF Tick
<1>14. CASE UNCHANGED svars
  BY <1>14 DEF svars, request
<1>15. QED
  BY Steps, <1>1, <1>2, <1>3, <1>4, <1>5, <1>6, <1>7, <1>8, <1>9, <1>10, <1>11, <1>12, <1>13, <1>14

\* Steps in which each request goes on as it is, or is not at its session...
GoOn ==
    \A r \in Reqs :
        \/ pc'[r] = pc[r] /\ ses'[r] = ses[r] /\ at'[r] = at[r] /\ key'[r] = key[r]
        \/ pc'[r] \notin {"connected", "calling"} /\ ses'[r] = None

\* ...sessions may be taken away but are not put in...
Shrink == \A o \in Objs, k \in Keys : slots'[o][k] \in {slots[o][k], None}

\* ...and what is being connected is not closed.
Spare == \A r \in Reqs : pc[r] = "connected" => ses[r] \in open'

\* Such steps keep PlaceInv.
LEMMA PlaceKept ==
    ASSUME SessionsTypeOK, HoldsInv, PlaceInv, GoOn, Shrink, Spare
    PROVE  PlaceInv'
<1>1. Private'
  BY DEF PlaceInv, Private, HoldsInv, GoOn, Shrink, Spare
<1>2. ASSUME NEW o1 \in Objs, NEW o2 \in Objs, NEW k1 \in Keys, NEW k2 \in Keys,
             slots'[o1][k1] = slots'[o2][k2], slots'[o1][k1] # None
      PROVE  o1 = o2 /\ k1 = k2
  <2>1. slots'[o1][k1] = slots[o1][k1] /\ slots'[o2][k2] = slots[o2][k2]
    BY <1>2 DEF Shrink
  <2>2. slots[o1][k1] = slots[o2][k2] /\ slots[o1][k1] # None
    BY <1>2, <2>1
  <2>3. QED
    BY <2>2 DEF PlaceInv, OnePlace
<1>3. ASSUME NEW r \in Reqs, NEW o \in Objs, NEW k \in Keys,
             pc'[r] = "calling", slots'[o][k] = ses'[r]
      PROVE  o = at'[r] /\ k = key'[r]
  <2>1. pc[r] = "calling" /\ ses'[r] = ses[r] /\ at'[r] = at[r] /\ key'[r] = key[r]
    BY <1>3 DEF GoOn
  <2>2. slots[o][k] = ses[r]
    BY <1>3, <2>1 DEF HoldsInv, Shrink
  <2>3. QED
    BY <2>1, <2>2 DEF PlaceInv, Found
<1>4. OnePlace'
  BY <1>2 DEF OnePlace
<1>5. Found'
  BY <1>3 DEF Found
<1>6. QED
  BY <1>1, <1>4, <1>5 DEF PlaceInv

\* A returning request keeps GoOn.
LEMMA ReturnGoesOn ==
    ASSUME SessionsTypeOK, NEW r \in Reqs, Return(r)
    PROVE  GoOn
  BY DEF SessionsTypeOK, RequestTypes, Return, GoOn

\* Close of one upstream, and the sweep, are such steps.
LEMMA CloseKeeps ==
    ASSUME SessionsTypeOK, PlaceInv, NEW o \in Objs, Close(o) \/ Sweep(o)
    PROVE  GoOn /\ Shrink /\ Spare
<1>1. GoOn
  BY DEF Close, Sweep, request, GoOn
<1>2. CASE Close(o)
  <2>1. Shrink
    BY <1>2 DEF Close, SessionsTypeOK, ObjectTypes, Shrink
  <2>2. Spare
    BY <1>2 DEF Close, Shut, In, PlaceInv, Private, Spare
  <2>3. QED
    BY <1>1, <2>1, <2>2
<1>3. CASE Sweep(o)
  <2>1. Shrink
    BY <1>3 DEF Sweep, Shrink
  <2>2. Spare
    BY <1>3 DEF Sweep, Shut, Stale, Keys, PlaceInv, Private, Spare
  <2>3. QED
    BY <1>1, <2>1, <2>2
<1>4. QED
  BY <1>2, <1>3

\* PlaceInv is kept by every step.
LEMMA PlaceStep ==
    ASSUME SessionsTypeOK, HoldsInv, PlaceInv, [SessionsNext]_svars
    PROVE  PlaceInv'
<1>0. ASSUME UNCHANGED <<slots, open>>
      PROVE  Shrink /\ Spare
  BY <1>0 DEF PlaceInv, Private, Shrink, Spare
<1>1. CASE \E r \in Reqs, o \in Objs, k \in Keys : Begin(r, o, k)
  <2>1. GoOn
    BY <1>1 DEF Begin, HoldsInv, SessionsTypeOK, RequestTypes, GoOn
  <2>2. QED
    BY <1>0, <1>1, <2>1, PlaceKept DEF Begin, store
<1>2. CASE \E r \in Reqs : Acquire(r)
  <2>. PICK r \in Reqs : Acquire(r)
    BY <1>2
  <2>1. CASE slots[at[r]][key[r]] = None
    <3>1. GoOn
      BY <2>1 DEF Acquire, HoldsInv, SessionsTypeOK, RequestTypes, GoOn
    <3>2. QED
      BY <2>1, <1>0, <3>1, PlaceKept DEF Acquire, store
  <2>2. CASE slots[at[r]][key[r]] # None
    <3>1. UNCHANGED <<slots, open, at, key>>
      BY <2>2 DEF Acquire, Use
    <3>2. pc' = [pc EXCEPT ![r] = "calling"] /\ ses' = [ses EXCEPT ![r] = slots[at[r]][key[r]]]
      BY <2>2 DEF Acquire, Use
    <3>3. at[r] \in Objs /\ key[r] \in Keys
      BY DEF Acquire, HoldsInv, SessionsTypeOK, RequestTypes
    <3>4. Private'
      BY <3>1, <3>2, <3>3 DEF PlaceInv, Private, SessionsTypeOK, RequestTypes
    <3>5. OnePlace'
      BY <3>1 DEF PlaceInv, OnePlace
    <3>6. Found'
      BY <2>2, <3>1, <3>2, <3>3 DEF PlaceInv, Found, OnePlace, SessionsTypeOK, RequestTypes
    <3>7. QED
      BY <3>4, <3>5, <3>6 DEF PlaceInv
  <2>3. QED
    BY <2>1, <2>2
<1>3. CASE \E r \in Reqs : Connected(r)
  <2>. PICK r \in Reqs : Connected(r)
    BY <1>3
  <2>1. PICK s \in FreshSess : open' = open \cup {s} /\ ses' = [ses EXCEPT ![r] = s]
    BY DEF Connected
  <2>2. pc' = [pc EXCEPT ![r] = "connected"] /\ UNCHANGED <<slots, at, key>>
    BY DEF Connected
  <2>3. Private'
    BY <2>1, <2>2 DEF PlaceInv, Private, FreshSess, SessionsTypeOK, RequestTypes
  <2>4. OnePlace'
    BY <2>2 DEF PlaceInv, OnePlace
  <2>5. Found'
    BY <2>1, <2>2 DEF PlaceInv, Found, SessionsTypeOK, RequestTypes
  <2>6. QED
    BY <2>3, <2>4, <2>5 DEF PlaceInv
<1>4. CASE \E r \in Reqs : ConnectFails(r) \/ Finish(r)
  BY <1>0, <1>4, ReturnGoesOn, PlaceKept DEF ConnectFails, Finish, store
<1>5. CASE \E r \in Reqs : Install(r)
  <2>. PICK r \in Reqs : Install(r)
    BY <1>5
  <2>. DEFINE winner == slots[at[r]][key[r]]
  <2>1. at[r] \in Objs /\ key[r] \in Keys /\ ses[r] \in Sess /\ pc[r] = "connected"
    BY DEF Install, HoldsInv, SessionsTypeOK, RequestTypes
  <2>2. CASE winner # None
    <3>1. UNCHANGED <<slots, at, key>> /\ open' = open \ {ses[r]}
      BY <2>2 DEF Install, Use, Shut
    <3>2. pc' = [pc EXCEPT ![r] = "calling"] /\ ses' = [ses EXCEPT ![r] = winner]
      BY <2>2 DEF Install, Use
    <3>3. Private'
      BY <2>1, <3>1, <3>2 DEF PlaceInv, Private, SessionsTypeOK, RequestTypes
    <3>4. OnePlace'
      BY <3>1 DEF PlaceInv, OnePlace
    <3>5. Found'
      BY <2>1, <2>2, <3>1, <3>2 DEF PlaceInv, Found, OnePlace, SessionsTypeOK, RequestTypes
    <3>6. QED
      BY <3>3, <3>4, <3>5 DEF PlaceInv
  <2>3. CASE winner = None
    <3>1. UNCHANGED <<open, at, key>> /\ Put(r)
      BY <2>3 DEF Install, Use
    <3>2. pc' = [pc EXCEPT ![r] = "calling"] /\ ses' = [ses EXCEPT ![r] = ses[r]]
      BY <2>3 DEF Install, Use
    <3>3. ses' = ses
      BY <3>2 DEF SessionsTypeOK, RequestTypes
    <3>4. \A o \in Objs, k \in Keys :
             slots'[o][k] = IF o = at[r] /\ k = key[r] THEN ses[r] ELSE slots[o][k]
      BY <3>1 DEF Put
    <3>5. Private'
      BY <2>1, <3>1, <3>2, <3>3, <3>4 DEF PlaceInv, Private, SessionsTypeOK, RequestTypes
    <3>6. OnePlace'
      BY <2>1, <3>4 DEF PlaceInv, Private, OnePlace
    <3>7. Found'
      BY <2>1, <3>1, <3>2, <3>3, <3>4 DEF PlaceInv, Private, Found, SessionsTypeOK, RequestTypes
    <3>8. QED
      BY <3>5, <3>6, <3>7 DEF PlaceInv
  <2>4. QED
    BY <2>2, <2>3
<1>6. CASE \E r \in Reqs : Break(r)
  <2>. PICK r \in Reqs : Break(r)
    BY <1>6
  <2>1. Spare
    BY DEF Break, dropSession, Shut, PlaceInv, Private, Spare
  <2>2. Shrink
    BY DEF Break, dropSession, Shrink
  <2>3. GoOn
    BY ReturnGoesOn DEF Break
  <2>4. QED
    BY <2>1, <2>2, <2>3, PlaceKept
<1>7. CASE \E new, retired \in SUBSET Objs : Swap(new, retired)
  <2>1. GoOn /\ UNCHANGED open
    BY <1>7 DEF Swap, GoOn
  <2>2. Shrink
    BY <1>7 DEF Swap, Shrink
  <2>3. Spare
    BY <2>1 DEF PlaceInv, Private, Spare
  <2>4. QED
    BY <2>1, <2>2, <2>3, PlaceKept
<1>8. CASE Stop({o \in Objs : phase[o] = "serving"}) \/ Tick \/ UNCHANGED svars
  <2>1. UNCHANGED <<pc, ses, at, key, slots, open>>
    BY <1>8 DEF Stop, Tick, svars, request, store
  <2>2. QED
    BY <1>0, <2>1, PlaceKept DEF GoOn
<1>9. CASE \E o \in Objs : Sweep(o) \/ Drain(o) \/ StopOne(o)
  BY <1>9, CloseKeeps, PlaceKept DEF Drain, StopOne
<1>10. QED
  BY Steps, <1>1, <1>2, <1>3, <1>4, <1>5, <1>6, <1>7, <1>8, <1>9

\* StopInv is kept by every step.
LEMMA StopStep ==
    ASSUME SessionsTypeOK, StopInv, [SessionsNext]_svars
    PROVE  StopInv'
<1>. USE DEF StopInv, stopped
<1>1. CASE UNCHANGED gateway
  BY <1>1 DEF gateway
<1>2. CASE Stop({o \in Objs : phase[o] = "serving"})
  BY <1>2 DEF Stop
<1>3. CASE \E o \in Objs : Drain(o)
  BY <1>3 DEF Drain, Close
<1>4. CASE \E o \in Objs : StopOne(o)
  BY <1>4 DEF StopOne, Close
<1>5. CASE (\E r \in Reqs : Acquire(r)) \/ (\E r \in Reqs : Install(r))
  BY <1>1, <1>5 DEF Acquire, Install, Use
<1>6. QED
  BY Steps, <1>1, <1>2, <1>3, <1>4, <1>5
     DEF Begin, Connected, ConnectFails, Finish, Break, Return, Swap, Sweep, Tick, svars
-----------------------------------------------------------------------------
\* The two parts of Accounted.
OpenSlots == \A o \in Objs, k \in Keys : slots[o][k] \in open \cup {None}

Closable(s) ==
    \/ s \in late
    \/ \E r \in Reqs : pc[r] = "connected" /\ ses[r] = s
    \/ \E o \in Objs : s \in In(o) /\ ~Abandoned(o)

\* Steps that open nothing, that forget a late session only with its Close...
KeepLate == open' \subseteq open /\ late \cap open' \subseteq late'

\* ...that leave what stays open to the request that connected it...
KeepHeld ==
    \A r \in Reqs : pc[r] = "connected" /\ ses[r] \in open'
                     => pc'[r] = "connected" /\ ses'[r] = ses[r]

\* ...or in the upstream that will close it.
KeepIn ==
    \A o \in Objs, k \in Keys : slots[o][k] \in open' /\ ~Abandoned(o)
                                => slots'[o][k] = slots[o][k] /\ ~Abandoned(o)'

\* Such steps keep Accounted.
LEMMA AccountedKept ==
    ASSUME SessionsTypeOK, Accounted, KeepLate, KeepHeld, KeepIn, OpenSlots'
    PROVE  Accounted'
<1>1. ASSUME NEW s \in open'
      PROVE  Closable(s)'
  <2>1. CASE s \in late
    BY <1>1, <2>1 DEF KeepLate, Closable
  <2>2. CASE \E r \in Reqs : pc[r] = "connected" /\ ses[r] = s
    BY <1>1, <2>2 DEF KeepHeld, Closable
  <2>3. CASE \E o \in Objs : s \in In(o) /\ ~Abandoned(o)
    <3>1. PICK o \in Objs, k \in Keys : slots[o][k] = s /\ s # None /\ ~Abandoned(o)
      BY <2>3 DEF In
    <3>2. slots'[o][k] = s /\ ~Abandoned(o)'
      BY <1>1, <3>1 DEF KeepIn
    <3>3. s \in In(o)'
      BY <3>1, <3>2 DEF In
    <3>4. QED
      BY <3>2, <3>3 DEF Closable
  <2>4. QED
    BY <1>1, <2>1, <2>2, <2>3 DEF KeepLate, Accounted
<1>2. QED
  BY <1>1 DEF OpenSlots, Closable, Accounted

\* Accounted is kept by Close.
LEMMA AccountedClose ==
    ASSUME SessionsTypeOK, PlaceInv, Accounted, NEW o \in Objs, Close(o),
           toClose' \in {toClose, toClose \ {o}}
    PROVE  Accounted'
<1>1. open' = open \ In(o) /\ late' = late \ In(o)
  BY DEF Close, Shut
<1>2. \A p \in Objs, k \in Keys : slots'[p][k] = IF p = o THEN None ELSE slots[p][k]
  BY DEF Close, SessionsTypeOK, ObjectTypes
<1>3. \A p \in Objs : p # o => Abandoned(p)' = Abandoned(p)
  BY DEF Close, Abandoned, stopped, SessionsTypeOK, ObjectTypes
<1>4. OpenSlots'
  <2>1. ASSUME NEW p \in Objs, NEW k \in Keys, p # o, slots[p][k] # None
        PROVE  slots[p][k] \notin In(o)
    BY <2>1 DEF In, PlaceInv, OnePlace
  <2>2. QED
    BY <1>1, <1>2, <2>1 DEF OpenSlots, Accounted
<1>5. KeepLate
  BY <1>1 DEF KeepLate
<1>6. KeepHeld
  BY DEF KeepHeld, Close, request
<1>7. KeepIn
  <2>1. \A k \in Keys : slots[o][k] \in Sess \cup {None}
    BY DEF SessionsTypeOK, ObjectTypes
  <2>2. None \notin open
    BY SessionsAssumption DEF SessionsTypeOK, ObjectTypes
  <2>3. \A k \in Keys : slots[o][k] \notin open'
    BY <1>1, <2>1, <2>2 DEF In
  <2>4. QED
    BY <1>2, <1>3, <2>3 DEF KeepIn
<1>8. QED
  BY <1>4, <1>5, <1>6, <1>7, AccountedKept

\* Accounted is kept by every step.
LEMMA AccountedStep ==
    ASSUME SessionsTypeOK, HoldsInv, PlaceInv, StopInv, Accounted, [SessionsNext]_svars
    PROVE  Accounted'
<1>0. ASSUME UNCHANGED <<phase, slots, open, late, gateway>>, KeepHeld
      PROVE  Accounted'
  <2>1. OpenSlots'
    BY <1>0 DEF Accounted, OpenSlots
  <2>2. KeepLate
    BY <1>0 DEF KeepLate
  <2>3. KeepIn
    BY <1>0 DEF KeepIn, Abandoned, stopped, gateway
  <2>4. QED
    BY <1>0, <2>1, <2>2, <2>3, AccountedKept
<1>1. CASE \E r \in Reqs, o \in Objs, k \in Keys : Begin(r, o, k)
  <2>1. KeepHeld
    BY <1>1 DEF Begin, KeepHeld, SessionsTypeOK, RequestTypes
  <2>2. UNCHANGED <<phase, slots, open, late, gateway>>
    BY <1>1 DEF Begin, objects, store
  <2>3. QED
    BY <1>0, <2>1, <2>2
<1>2. CASE \E r \in Reqs : Acquire(r)
  <2>. PICK r \in Reqs : Acquire(r)
    BY <1>2
  <2>1. KeepHeld
    BY DEF Acquire, Use, KeepHeld, SessionsTypeOK, RequestTypes
  <2>2. UNCHANGED <<phase, slots, open, late, gateway>>
    BY DEF Acquire, Use, objects, store
  <2>3. QED
    BY <1>0, <2>1, <2>2
<1>3. CASE \E r \in Reqs : Connected(r)
  <2>. PICK r \in Reqs : Connected(r)
    BY <1>3
  <2>1. PICK s \in FreshSess : open' = open \cup {s} /\ ses' = [ses EXCEPT ![r] = s]
    BY DEF Connected
  <2>2. UNCHANGED <<phase, slots, late, gateway>> /\ pc' = [pc EXCEPT ![r] = "connected"]
    BY DEF Connected, objects
  <2>3. Closable(s)'
    BY <2>1, <2>2 DEF Closable, SessionsTypeOK, RequestTypes
  <2>4. ASSUME NEW x \in open
        PROVE  Closable(x)'
    <3>1. CASE x \in late
      BY <3>1, <2>2 DEF Closable
    <3>2. CASE \E q \in Reqs : pc[q] = "connected" /\ ses[q] = x
      BY <3>2, <2>1, <2>2 DEF Closable, Connected, SessionsTypeOK, RequestTypes
    <3>3. CASE \E o \in Objs : x \in In(o) /\ ~Abandoned(o)
      BY <3>3, <2>2 DEF Closable, In, Abandoned, stopped, gateway
    <3>4. QED
      BY <3>1, <3>2, <3>3 DEF Accounted
  <2>5. OpenSlots'
    BY <2>1, <2>2 DEF Accounted, OpenSlots
  <2>6. QED
    BY <2>1, <2>3, <2>4, <2>5 DEF Accounted, Closable, OpenSlots
<1>4. CASE \E r \in Reqs : ConnectFails(r) \/ Finish(r)
  <2>1. KeepHeld
    BY <1>4 DEF ConnectFails, Finish, Return, KeepHeld, SessionsTypeOK, RequestTypes
  <2>2. UNCHANGED <<phase, slots, open, late, gateway>>
    BY <1>4 DEF ConnectFails, Finish, Return, objects, store
  <2>3. QED
    BY <1>0, <2>1, <2>2
<1>5. CASE \E r \in Reqs : Install(r)
  <2>. PICK r \in Reqs : Install(r)
    BY <1>5
  <2>. DEFINE winner == slots[at[r]][key[r]]
  <2>0. PICK s \in Sess : s = ses[r]
    BY DEF Install, HoldsInv, SessionsTypeOK, RequestTypes
  <2>1. at[r] \in Objs /\ key[r] \in Keys /\ s = ses[r] /\ pc[r] = "connected"
    BY <2>0 DEF Install, HoldsInv, SessionsTypeOK, RequestTypes
  <2>2. UNCHANGED <<phase, gateway>> /\ pc' = [pc EXCEPT ![r] = "calling"]
    BY DEF Install, Use, objects
  <2>3. \A o \in Objs : Abandoned(o)' = Abandoned(o)
    BY <2>2 DEF Abandoned, stopped, gateway
  <2>4. \A q \in Reqs : q # r => pc'[q] = pc[q] /\ ses'[q] = ses[q]
    BY DEF Install, Use, SessionsTypeOK, RequestTypes
  <2>5. CASE winner # None
    <3>1. UNCHANGED slots /\ open' = open \ {s} /\ late' = late \ {s}
      BY <2>1, <2>5 DEF Install, Shut
    <3>2. OpenSlots'
      BY <2>1, <3>1 DEF Accounted, OpenSlots, PlaceInv, Private
    <3>3. KeepLate
      BY <3>1 DEF KeepLate
    <3>4. KeepHeld
      BY <2>1, <2>4, <3>1 DEF KeepHeld
    <3>5. KeepIn
      BY <2>3, <3>1 DEF KeepIn
    <3>6. QED
      BY <3>2, <3>3, <3>4, <3>5, AccountedKept
  <2>6. CASE winner = None
    <3>1. open' = open /\ late' = IF Abandoned(at[r]) THEN late \cup {s} ELSE late
      BY <2>1, <2>6 DEF Install
    <3>2. \A o \in Objs, k \in Keys :
             slots'[o][k] = IF o = at[r] /\ k = key[r] THEN s ELSE slots[o][k]
      BY <2>1, <2>6 DEF Install, Put
    <3>3. s \in open /\ s # None
      BY <2>1, SessionsAssumption DEF PlaceInv, Private
    <3>4. OpenSlots'
      BY <3>1, <3>2, <3>3 DEF Accounted, OpenSlots
    <3>5. Closable(s)'
      <4>0. PICK o \in Objs : o = at[r]
        BY <2>1
      <4>1. s \in In(o)'
        BY <2>1, <3>2, <3>3, <4>0 DEF In
      <4>2. CASE Abandoned(o)
        BY <3>1, <4>0, <4>2 DEF Closable
      <4>3. CASE ~Abandoned(o)
        BY <2>3, <4>1, <4>3 DEF Closable
      <4>4. QED
        BY <4>2, <4>3
    <3>6. ASSUME NEW x \in open, x # s
          PROVE  Closable(x)'
      <4>1. CASE x \in late
        BY <3>1, <4>1 DEF Closable
      <4>2. CASE \E q \in Reqs : pc[q] = "connected" /\ ses[q] = x
        BY <2>1, <2>4, <3>6, <4>2 DEF Closable
      <4>3. CASE \E o \in Objs : x \in In(o) /\ ~Abandoned(o)
        <5>1. PICK o \in Objs, k \in Keys : slots[o][k] = x /\ x # None /\ ~Abandoned(o)
          BY <4>3 DEF In
        <5>2. slots'[o][k] = x
          BY <2>6, <3>2, <5>1
        <5>3. x \in In(o)' /\ ~Abandoned(o)'
          BY <2>3, <5>1, <5>2 DEF In
        <5>4. QED
          BY <5>3 DEF Closable
      <4>4. QED
        BY <4>1, <4>2, <4>3 DEF Accounted
    <3>7. QED
      BY <3>1, <3>4, <3>5, <3>6 DEF Accounted, OpenSlots, Closable
  <2>7. QED
    BY <2>5, <2>6
<1>6. CASE \E r \in Reqs : Break(r)
  <2>. PICK r \in Reqs : Break(r)
    BY <1>6
  <2>1. open' = open \ {ses[r]} /\ late' = late \ {ses[r]} /\ UNCHANGED <<phase, gateway>>
    BY DEF Break, dropSession, Shut, Return, objects
  <2>2. \A o \in Objs, k \in Keys :
           slots'[o][k] = IF o = at[r] /\ slots[o][k] = ses[r] THEN None ELSE slots[o][k]
    BY DEF Break, dropSession
  <2>3. \A o \in Objs, k \in Keys : slots[o][k] = ses[r] => o = at[r]
    BY DEF Break, PlaceInv, Found
  <2>4. OpenSlots'
    BY <2>1, <2>2, <2>3 DEF Accounted, OpenSlots
  <2>5. KeepLate
    BY <2>1 DEF KeepLate
  <2>6. KeepHeld
    BY DEF Break, Return, KeepHeld, SessionsTypeOK, RequestTypes
  <2>7. \A o \in Objs : Abandoned(o)' = Abandoned(o)
    BY <2>1 DEF Abandoned, stopped, gateway
  <2>8. KeepIn
    BY <2>1, <2>2, <2>7 DEF KeepIn
  <2>9. QED
    BY <2>4, <2>5, <2>6, <2>8, AccountedKept
<1>7. CASE \E new, retired \in SUBSET Objs : Swap(new, retired)
  <2>. PICK new \in SUBSET Objs, retired \in SUBSET Objs : Swap(new, retired)
    BY <1>7
  <2>1. UNCHANGED <<open, late, pc, ses, gateway>>
    BY DEF Swap
  <2>2. OpenSlots'
    BY <2>1 DEF Swap, Accounted, OpenSlots
  <2>3. KeepLate /\ KeepHeld
    BY <2>1 DEF KeepLate, KeepHeld
  <2>4. \A o \in new : Abandoned(o)
    BY DEF Swap, FreshObjs, Abandoned
  <2>5. \A o \in Objs : ~Abandoned(o) => ~Abandoned(o)'
    BY <2>1, <2>4 DEF Swap, Abandoned, stopped, gateway
  <2>6. KeepIn
    BY <2>4, <2>5 DEF Swap, KeepIn
  <2>7. QED
    BY <2>2, <2>3, <2>6, AccountedKept
<1>8. CASE Stop({o \in Objs : phase[o] = "serving"})
  <2>1. UNCHANGED <<phase, slots, open, late, pc, ses>>
    BY <1>8 DEF Stop
  <2>2. OpenSlots'
    BY <2>1 DEF Accounted, OpenSlots
  <2>3. KeepLate /\ KeepHeld
    BY <2>1 DEF KeepLate, KeepHeld
  <2>4. \A o \in Objs : ~Abandoned(o) => ~Abandoned(o)'
    BY <1>8 DEF Stop, StopInv, Abandoned, stopped
  <2>5. KeepIn
    BY <2>1, <2>4 DEF KeepIn
  <2>6. QED
    BY <2>2, <2>3, <2>5, AccountedKept
<1>9. CASE \E o \in Objs : Sweep(o)
  <2>. PICK o \in Objs : Sweep(o)
    BY <1>9
  <2>. DEFINE gone == {slots[o][k] : k \in Stale(o)}
  <2>1. open' = open \ gone /\ late' = late \ gone /\ UNCHANGED <<phase, pc, ses, gateway>>
    BY DEF Sweep, Shut, objects, request
  <2>2. \A p \in Objs, k \in Keys :
           slots'[p][k] = IF p = o /\ k \in Stale(o) THEN None ELSE slots[p][k]
    BY DEF Sweep
  <2>3. OpenSlots'
    <3>1. ASSUME NEW p \in Objs, NEW k \in Keys, slots'[p][k] # None
          PROVE  slots[p][k] \notin gone
      BY <2>2, <3>1 DEF Stale, Keys, PlaceInv, OnePlace
    <3>2. QED
      BY <2>1, <2>2, <3>1 DEF Accounted, OpenSlots
  <2>4. KeepLate /\ KeepHeld
    BY <2>1 DEF KeepLate, KeepHeld
  <2>5. \A p \in Objs : Abandoned(p)' = Abandoned(p)
    BY <2>1 DEF Abandoned, stopped, gateway
  <2>6. KeepIn
    BY <2>1, <2>2, <2>5 DEF KeepIn
  <2>7. QED
    BY <2>3, <2>4, <2>6, AccountedKept
<1>10. CASE \E o \in Objs : Drain(o) \/ StopOne(o)
  BY <1>10, AccountedClose DEF Drain, StopOne
<1>11. CASE Tick \/ UNCHANGED svars
  <2>1. UNCHANGED <<phase, slots, open, late, pc, ses, gateway>>
    BY <1>11 DEF Tick, svars, objects, store, request, gateway
  <2>2. QED
    BY <1>0, <2>1 DEF KeepHeld
<1>12. QED
  BY Steps, <1>1, <1>2, <1>3, <1>4, <1>5, <1>6, <1>7, <1>8, <1>9, <1>10, <1>11
-----------------------------------------------------------------------------
\* The two parts of TimeInv, for one call.
Lately(r) ==
    \A k \in ClientKeys :
        slots[at[r]][k] = ses[r] => age[at[r]][k] + left[r] <= RequestTimeout

Outlasted(r) == r \in early /\ phase[at[r]] = "draining" => left[r] <= drain[at[r]]

\* They are kept for a call that a step leaves alone.
LEMMA TimeKept ==
    ASSUME SessionsTypeOK, HoldsInv, TimeInv, ~stopped,
           NEW r \in Reqs, pc[r] = "calling", left[r] > 0,
           at'[r] = at[r], ses'[r] = ses[r], left'[r] = left[r], r \in early' => r \in early,
           \A k \in ClientKeys :
               /\ slots'[at[r]][k] = ses[r] => slots[at[r]][k] = ses[r]
               /\ age'[at[r]][k] \in {age[at[r]][k], 0},
           phase'[at[r]] = "draining" => UNCHANGED <<phase[at[r]], drain[at[r]]>>
    PROVE  Lately(r)' /\ Outlasted(r)'
<1>1. at[r] \in Objs /\ left[r] \in 0..RequestTimeout
  BY DEF HoldsInv, SessionsTypeOK, RequestTypes
<1>2. Lately(r) /\ Outlasted(r)
  BY DEF TimeInv, Lately, Outlasted
<1>3. ASSUME NEW k \in ClientKeys, slots'[at[r]][k] = ses[r]
      PROVE  age'[at[r]][k] + left[r] <= RequestTimeout
  <2>1. age[at[r]][k] + left[r] <= RequestTimeout
    BY <1>2, <1>3 DEF Lately
  <2>2. age'[at[r]][k] \in {age[at[r]][k], 0}
    OBVIOUS
  <2>3. QED
    BY <1>1, <2>1, <2>2, SessionsAssumption
<1>4. Lately(r)'
  BY <1>3 DEF Lately
<1>5. Outlasted(r)'
  BY <1>2 DEF Outlasted
<1>6. QED
  BY <1>4, <1>5

\* A call that has just gone out has used its session, whether it found it,
\* installed it, or lost to the request that installed it; other calls are
\* left alone.
LEMMA TimeUse ==
    ASSUME SessionsTypeOK, HoldsInv, TimeInv, PlaceInv', ~stopped,
           NEW r \in Reqs, NEW s \in Sess, pc[r] \in {"routed", "connected"}, Use(r, s),
           \A q \in Reqs, o \in Objs, k \in Keys :
               pc[q] = "calling" /\ slots'[o][k] = ses[q] => slots[o][k] = ses[q]
    PROVE  TimeInv'
<1>1. at[r] \in Objs /\ r \notin early
  BY DEF HoldsInv, SessionsTypeOK, RequestTypes
<1>2. UNCHANGED <<at, key, early, phase, drain, gw>>
  BY DEF Use, objects, gateway
<1>3. \A o \in Objs, k \in ClientKeys : age'[o][k] \in {age[o][k], 0}
  BY DEF Use
<1>4. ASSUME NEW q \in Reqs, pc'[q] = "calling", left'[q] > 0
      PROVE  Lately(q)' /\ Outlasted(q)'
  <2>1. CASE q = r
    <3>1. /\ left'[r] = RequestTimeout /\ ses'[r] = s /\ pc'[r] = "calling"
          /\ Outlasted(q)'
      BY <1>1, <1>2, <2>1 DEF Use, Outlasted, SessionsTypeOK, RequestTypes
    <3>2. ASSUME NEW k \in ClientKeys, slots'[at[r]][k] = ses'[r]
          PROVE  age'[at[r]][k] + left'[r] <= RequestTimeout
      <4>1. k = key[r]
        BY <1>1, <1>2, <3>1, <3>2 DEF PlaceInv, Found, Keys
      <4>2. age'[at[r]][k] = 0
        BY <1>1, <4>1 DEF Use
      <4>3. QED
        BY <3>1, <4>2, SessionsAssumption
    <3>3. Lately(q)'
      BY <1>2, <2>1, <3>2 DEF Lately
    <3>4. QED
      BY <3>1, <3>3
  <2>2. CASE q # r
    <3>1. pc[q] = "calling" /\ left'[q] = left[q] /\ ses'[q] = ses[q]
      BY <1>4, <2>2 DEF Use, SessionsTypeOK, RequestTypes
    <3>2. at[q] \in Objs
      BY <3>1 DEF HoldsInv, SessionsTypeOK, RequestTypes
    <3>3. \A k \in ClientKeys :
             /\ slots'[at[q]][k] = ses[q] => slots[at[q]][k] = ses[q]
             /\ age'[at[q]][k] \in {age[at[q]][k], 0}
      BY <1>3, <3>1, <3>2 DEF Keys
    <3>4. QED
      BY <1>2, <1>4, <3>1, <3>3, TimeKept
  <2>3. QED
    BY <2>1, <2>2
<1>5. QED
  BY <1>4 DEF TimeInv, Lately, Outlasted

\* TimeInv is kept by every step.
LEMMA TimeStep ==
    ASSUME SessionsTypeOK, HoldsInv, PlaceInv, TimeInv, [SessionsNext]_svars, PlaceInv'
    PROVE  TimeInv'
<1>. SUFFICES ASSUME ~stopped, ~stopped'
     PROVE  TimeInv'
  <2>1. stopped => stopped'
    BY Steps DEF Begin, Acquire, Use, Connected, ConnectFails, Install, Finish, Break, Return,
                 Swap, Stop, Sweep, Drain, StopOne, Close, Tick, gateway, svars, stopped
  <2>2. QED
    BY <2>1 DEF TimeInv
<1>0. ASSUME GoOn, Shrink, UNCHANGED <<phase, drain>>,
             \A r \in Reqs : pc'[r] = "calling" =>
                 left'[r] = left[r] /\ (r \in early' => r \in early),
             \A o \in Objs, k \in ClientKeys : age'[o][k] \in {age[o][k], 0}
      PROVE  TimeInv'
  <2>1. ASSUME NEW r \in Reqs, pc'[r] = "calling", left'[r] > 0
        PROVE  Lately(r)' /\ Outlasted(r)'
    <3>1. pc[r] = "calling" /\ ses'[r] = ses[r] /\ at'[r] = at[r]
      BY <1>0, <2>1 DEF GoOn
    <3>2. at[r] \in Objs /\ ses[r] # None
      BY <3>1 DEF HoldsInv, SessionsTypeOK, RequestTypes
    <3>3. \A k \in ClientKeys :
             /\ slots'[at[r]][k] = ses[r] => slots[at[r]][k] = ses[r]
             /\ age'[at[r]][k] \in {age[at[r]][k], 0}
      BY <1>0, <3>2 DEF Shrink, Keys
    <3>4. QED
      BY <1>0, <2>1, <3>1, <3>3, TimeKept
  <2>2. QED
    BY <2>1 DEF TimeInv, Lately, Outlasted
<1>1. CASE \E r \in Reqs, o \in Objs, k \in Keys : Begin(r, o, k)
  <2>1. GoOn
    BY <1>1 DEF Begin, HoldsInv, SessionsTypeOK, RequestTypes, GoOn
  <2>2. UNCHANGED <<slots, age, phase, drain, left, early>>
    BY <1>1 DEF Begin, store, objects
  <2>3. QED
    BY <1>0, <2>1, <2>2 DEF Shrink
<1>2. CASE \E r \in Reqs : Acquire(r)
  <2>. PICK r \in Reqs : Acquire(r)
    BY <1>2
  <2>1. CASE slots[at[r]][key[r]] = None
    <3>1. GoOn
      BY <2>1 DEF Acquire, HoldsInv, SessionsTypeOK, RequestTypes, GoOn
    <3>2. UNCHANGED <<slots, age, phase, drain, left, early>>
      BY <2>1 DEF Acquire, store, objects
    <3>3. QED
      BY <1>0, <3>1, <3>2 DEF Shrink
  <2>2. CASE slots[at[r]][key[r]] # None
    <3>1. PICK s \in Sess : Use(r, s)
      BY <2>2 DEF Acquire, HoldsInv, SessionsTypeOK, RequestTypes, ObjectTypes
    <3>2. UNCHANGED slots /\ pc[r] = "routed"
      BY <2>2 DEF Acquire
    <3>3. QED
      BY <3>1, <3>2, TimeUse
  <2>3. QED
    BY <2>1, <2>2
<1>3. CASE \E r \in Reqs : Connected(r)
  <2>. PICK r \in Reqs : Connected(r)
    BY <1>3
  <2>1. ASSUME NEW q \in Reqs, pc'[q] = "calling"
        PROVE  pc[q] = "calling" /\ ses'[q] = ses[q]
    BY <2>1 DEF Connected, SessionsTypeOK, RequestTypes
  <2>2. UNCHANGED <<slots, age, phase, drain, left, early, at>>
    BY DEF Connected, objects
  <2>3. QED
    BY <2>1, <2>2 DEF TimeInv
<1>4. CASE \E r \in Reqs : ConnectFails(r) \/ Finish(r) \/ Break(r)
  <2>. PICK r \in Reqs : ConnectFails(r) \/ Finish(r) \/ Break(r)
    BY <1>4
  <2>1. Return(r) /\ UNCHANGED age
    BY DEF ConnectFails, Finish, Break, store
  <2>2. GoOn
    BY <2>1, ReturnGoesOn
  <2>3. Shrink
    BY DEF ConnectFails, Finish, Break, dropSession, store, Shrink
  <2>4. \A q \in Reqs : pc'[q] = "calling" =>
           left'[q] = left[q] /\ (q \in early' => q \in early)
    BY <2>1 DEF Return, SessionsTypeOK, RequestTypes
  <2>5. UNCHANGED <<phase, drain>>
    BY <2>1 DEF Return, objects
  <2>6. QED
    BY <1>0, <2>1, <2>2, <2>3, <2>4, <2>5
<1>5. CASE \E r \in Reqs : Install(r)
  <2>. PICK r \in Reqs : Install(r)
    BY <1>5
  <2>1. ses[r] \in Sess /\ pc[r] = "connected"
    BY DEF Install, HoldsInv, SessionsTypeOK, RequestTypes
  <2>2. PICK s \in Sess : Use(r, s)
    BY <2>1 DEF Install, SessionsTypeOK, RequestTypes, ObjectTypes, HoldsInv
  <2>3. ASSUME NEW q \in Reqs, NEW o \in Objs, NEW k \in Keys,
               pc[q] = "calling", slots'[o][k] = ses[q]
        PROVE  slots[o][k] = ses[q]
    <3>1. ses[q] # ses[r]
      BY <2>1, <2>3 DEF PlaceInv, Private
    <3>2. slots'[o][k] \in {ses[r], slots[o][k]}
      BY DEF Install, Put
    <3>3. QED
      BY <2>3, <3>1, <3>2
  <2>4. QED
    BY <2>1, <2>2, <2>3, TimeUse
<1>6. CASE \E new, retired \in SUBSET Objs : Swap(new, retired)
  <2>. PICK new \in SUBSET Objs, retired \in SUBSET Objs : Swap(new, retired)
    BY <1>6
  <2>1. ASSUME NEW r \in Reqs, pc'[r] = "calling", left'[r] > 0
        PROVE  Lately(r)' /\ Outlasted(r)'
    <3>1. pc[r] = "calling" /\ UNCHANGED <<ses, at, left, age>>
      BY <2>1 DEF Swap
    <3>2. at[r] \in Objs \ new /\ ses[r] # None /\ left[r] \in 0..RequestTimeout
      BY <3>1 DEF Swap, FreshObjs, HoldsInv, SessionsTypeOK, RequestTypes
    <3>3. slots'[at[r]] = slots[at[r]]
      BY <3>2 DEF Swap
    <3>4. CASE at[r] \in retired
      <4>1. drain'[at[r]] = RequestTimeout
        BY <3>2, <3>4 DEF Swap, DrainTime
      <4>2. Outlasted(r)'
        BY <3>1, <3>2, <4>1, SessionsAssumption DEF Outlasted
      <4>3. Lately(r)'
        BY <2>1, <3>1, <3>3 DEF TimeInv, Lately
      <4>4. QED
        BY <4>2, <4>3
    <3>5. CASE at[r] \notin retired
      <4>1. drain'[at[r]] = drain[at[r]] /\ phase'[at[r]] = phase[at[r]]
        BY <3>2, <3>5 DEF Swap
      <4>2. r \in early' => r \in early
        BY <3>5 DEF Swap
      <4>3. QED
        BY <2>1, <3>1, <3>3, <4>1, <4>2, TimeKept
    <3>6. QED
      BY <3>4, <3>5
  <2>2. QED
    BY <2>1 DEF TimeInv, Lately, Outlasted
<1>7. CASE \E o \in Objs : Sweep(o)
  <2>1. GoOn /\ Shrink
    BY <1>7, CloseKeeps
  <2>2. UNCHANGED <<age, phase, drain, left, early>>
    BY <1>7 DEF Sweep, objects, request
  <2>3. QED
    BY <1>0, <2>1, <2>2
<1>8. CASE \E o \in Objs : Close(o)
  <2>. PICK o \in Objs : Close(o)
    BY <1>8
  <2>1. ASSUME NEW r \in Reqs, pc'[r] = "calling", left'[r] > 0
        PROVE  Lately(r)' /\ Outlasted(r)'
    <3>1. pc[r] = "calling" /\ UNCHANGED <<ses, at, left, early>>
      BY <2>1 DEF Close, request
    <3>2. at[r] \in Objs /\ ses[r] # None
      BY <3>1 DEF HoldsInv, SessionsTypeOK, RequestTypes
    <3>3. \A k \in ClientKeys :
             /\ slots'[at[r]][k] = ses[r] => slots[at[r]][k] = ses[r]
             /\ age'[at[r]][k] \in {age[at[r]][k], 0}
      BY <3>2 DEF Close, Keys, SessionsTypeOK, ObjectTypes
    <3>4. phase'[at[r]] = "draining" =>
             phase'[at[r]] = phase[at[r]] /\ drain'[at[r]] = drain[at[r]]
      BY <3>2 DEF Close, SessionsTypeOK, ObjectTypes
    <3>5. QED
      BY <2>1, <3>1, <3>3, <3>4, TimeKept
  <2>2. QED
    BY <2>1 DEF TimeInv, Lately, Outlasted
<1>9. CASE Tick
  <2>1. ASSUME NEW r \in Reqs, pc'[r] = "calling", left'[r] > 0
        PROVE  Lately(r)' /\ Outlasted(r)'
    <3>1. pc[r] = "calling" /\ UNCHANGED <<ses, at, slots, early, phase>>
      BY <1>9, <2>1 DEF Tick
    <3>2. at[r] \in Objs /\ ses[r] # None /\ left[r] \in 0..RequestTimeout
      BY <3>1 DEF HoldsInv, SessionsTypeOK, RequestTypes
    <3>3. left[r] > 0 /\ left'[r] = left[r] - 1
      BY <1>9, <2>1, <3>2, SessionsAssumption DEF Tick, Dec
    <3>4. Lately(r) /\ Outlasted(r)
      BY <3>1, <3>3 DEF TimeInv, Lately, Outlasted
    <3>5. ASSUME NEW k \in ClientKeys, slots[at[r]][k] = ses[r]
          PROVE  age'[at[r]][k] + left'[r] <= RequestTimeout
      <4>1. age[at[r]][k] \in 0..IdleTimeout + 1
        BY <3>2 DEF SessionsTypeOK, ObjectTypes
      <4>2. age'[at[r]][k] \in {age[at[r]][k], age[at[r]][k] + 1}
        BY <1>9, <3>2, <3>5 DEF Tick
      <4>3. age[at[r]][k] + left[r] <= RequestTimeout
        BY <3>4, <3>5 DEF Lately
      <4>4. QED
        BY <3>2, <3>3, <4>1, <4>2, <4>3, SessionsAssumption
    <3>6. Lately(r)'
      BY <3>1, <3>5 DEF Lately
    <3>7. drain[at[r]] \in 0..RequestTimeout /\ drain'[at[r]] = Dec(drain[at[r]])
      BY <1>9, <3>2 DEF Tick, SessionsTypeOK, ObjectTypes
    <3>8. Outlasted(r)'
      BY <3>1, <3>2, <3>3, <3>4, <3>7, SessionsAssumption DEF Outlasted, Dec
    <3>9. QED
      BY <3>6, <3>8
  <2>2. QED
    BY <2>1 DEF TimeInv, Lately, Outlasted
<1>10. CASE UNCHANGED svars
  BY <1>10 DEF svars, objects, store, request, TimeInv
<1>11. QED
  BY Steps, <1>1, <1>2, <1>3, <1>4, <1>5, <1>6, <1>7, <1>8, <1>9, <1>10
     DEF Stop, Drain, StopOne, stopped
-----------------------------------------------------------------------------
\* The invariants hold when the gateway starts.
LEMMA InitIInv ==
    ASSUME \E first \in SUBSET Objs : SessionsInit(first)
    PROVE  IInv
<1>. PICK first \in SUBSET Objs : SessionsInit(first)
  OBVIOUS
<1>1. SessionsTypeOK
  BY SessionsAssumption DEF SessionsInit, SessionsTypeOK, ObjectTypes, RequestTypes, Keys
<1>2. HoldsInv /\ PlaceInv /\ StopInv /\ TimeInv
  BY DEF SessionsInit, HoldsInv, PlaceInv, Private, OnePlace, Found, StopInv, TimeInv
<1>3. Accounted
  BY DEF SessionsInit, Accounted
<1>4. QED
  BY <1>1, <1>2, <1>3 DEF IInv

\* They are inductive together.
LEMMA NextIInv ==
    ASSUME IInv, [SessionsNext]_svars
    PROVE  IInv'
  BY TypeStep, HoldsStep, PlaceStep, StopStep, AccountedStep, TimeStep DEF IInv

\* However requests, reloads, sweeps, drains and the stop of the gateway
\* interleave, the invariants hold: a session is in one place, and a call
\* that has time left has used its session within the request timeout.
THEOREM SessionsInvariant == SessionsSpec => []IInv
<1>1. (\E first \in SUBSET Objs : SessionsInit(first)) => IInv
  BY InitIInv
<1>2. IInv /\ [SessionsNext]_svars => IInv'
  BY NextIInv
<1>3. QED
  BY <1>1, <1>2, PTL DEF SessionsSpec

\* Every variable of the sessions keeps its type.
THEOREM SessionsTypeCorrect == SessionsSpec => []SessionsTypeOK
<1>1. IInv => SessionsTypeOK
  BY DEF IInv
<1>2. QED
  BY <1>1, SessionsInvariant, PTL

\* upstream.go: requests are never given a closed session, and every session
\* is closed in time except the ones installed too late.
THEOREM SessionsAccounted == SessionsSpec => []Accounted
<1>1. IInv => Accounted
  BY DEF IInv
<1>2. QED
  BY <1>1, SessionsInvariant, PTL

\* SparesCalls, as a step.
SpareStep ==
    \A r \in Reqs :
        /\ pc[r] = "calling" /\ left[r] > 0
        /\ ses[r] \in open \ open'
        => \/ \E q \in Reqs : ses[q] = ses[r] /\ pc'[q] = "idle"
           \/ stopped
           \/ phase[at[r]] # "serving" /\ r \notin early
           \/ /\ key[r] \in ClientKeys
              /\ \A q \in Reqs : pc[q] = "calling" /\ left[q] > 0 /\ ses[q] = ses[r]
                                => Elapsed(q) > IdleTimeout

\* Each step that closes a session spares the calls on it.
LEMMA StepSpares ==
    ASSUME IInv, [SessionsNext]_svars
    PROVE  SpareStep
<1>. SUFFICES ASSUME NEW r \in Reqs, pc[r] = "calling", left[r] > 0,
                     ses[r] \in open, ses[r] \notin open', ~stopped
              PROVE  \/ \E q \in Reqs : ses[q] = ses[r] /\ pc'[q] = "idle"
                     \/ phase[at[r]] # "serving" /\ r \notin early
                     \/ /\ key[r] \in ClientKeys
                        /\ \A q \in Reqs : pc[q] = "calling" /\ left[q] > 0 /\ ses[q] = ses[r]
                                          => Elapsed(q) > IdleTimeout
  BY DEF SpareStep
<1>. USE DEF IInv
<1>0. at[r] \in Objs /\ left[r] \in 0..RequestTimeout
  BY DEF HoldsInv, SessionsTypeOK, RequestTypes
<1>1. CASE UNCHANGED open
  BY <1>1
<1>2. CASE \E q \in Reqs : Connected(q)
  BY <1>2 DEF Connected
<1>3. CASE \E q \in Reqs : Install(q)
  BY <1>3 DEF Install, Shut, PlaceInv, Private
<1>4. CASE \E q \in Reqs : Break(q)
  BY <1>4 DEF Break, dropSession, Shut, Return, SessionsTypeOK, RequestTypes
<1>5. CASE \E o \in Objs : Sweep(o)
  <2>1. PICK o \in Objs, k \in ClientKeys : slots[o][k] = ses[r] /\ age[o][k] > IdleTimeout
    BY <1>5 DEF Sweep, Shut, Stale
  <2>2. k = key[r]
    BY <2>1 DEF PlaceInv, Found, Keys
  <2>3. ASSUME NEW q \in Reqs, pc[q] = "calling", left[q] > 0, ses[q] = ses[r]
        PROVE  Elapsed(q) > IdleTimeout
    <3>1. o = at[q]
      BY <2>1, <2>3 DEF PlaceInv, Found, Keys
    <3>2. age[o][k] + left[q] <= RequestTimeout
      BY <2>1, <2>3, <3>1 DEF TimeInv
    <3>3. age[o][k] \in 0..IdleTimeout + 1 /\ left[q] \in 0..RequestTimeout
      BY DEF SessionsTypeOK, ObjectTypes, RequestTypes
    <3>4. QED
      BY <2>1, <3>2, <3>3, SessionsAssumption DEF Elapsed
  <2>4. QED
    BY <2>2, <2>3
<1>6. CASE \E o \in Objs : Drain(o)
  <2>1. PICK o \in Objs : Drain(o)
    BY <1>6
  <2>2. o = at[r]
    BY <2>1 DEF Drain, Close, Shut, In, PlaceInv, Found
  <2>3. phase[at[r]] = "draining" /\ drain[at[r]] = 0
    BY <2>1, <2>2 DEF Drain
  <2>4. r \in early => left[r] <= 0
    BY <2>3 DEF TimeInv
  <2>5. QED
    BY <1>0, <2>3, <2>4, SessionsAssumption
<1>7. CASE \E o \in Objs : StopOne(o)
  BY <1>7 DEF StopOne, StopInv
<1>8. CASE \E q \in Reqs : Acquire(q)
  BY <1>1, <1>8 DEF Acquire, store
<1>9. QED
  BY Steps, <1>1, <1>2, <1>3, <1>4, <1>5, <1>6, <1>7, <1>8
     DEF Begin, ConnectFails, Finish, Swap, Stop, Tick, store, svars

\* applyLocked and sweepBridged, whatever the number of requests, reloads and
\* sessions and whatever the two timeouts: the drain of a retired upstream cuts
\* no call that still has time and was out when its upstream retired, and the
\* idle sweep only the calls of clients' sessions on which none has gone out
\* for longer than the idle timeout.
THEOREM SessionsSpareCalls == SessionsSpec => SparesCalls
<1>1. IInv /\ [SessionsNext]_svars => [SpareStep]_svars
  BY StepSpares
<1>2. QED
  BY <1>1, SessionsInvariant, PTL DEF SessionsSpec, SparesCalls, SpareStep
=============================================================================
