---------------------------- MODULE AuditProofs ----------------------------
(***************************************************************************)
(* Proofs about Audit: for any number of events and any size of buffer,    *)
(* batch and rotation, every event is held, reported or let go by the SDK, *)
(* and what was written is on disk, in order, until it has aged or a       *)
(* failed rename gave it up.                                               *)
(*                                                                         *)
(* TrailComplete is not inductive.  AuditInv adds what the worker's state  *)
(* tells of its batch (Working), that no event is held twice (Queued), how *)
(* often an event may have been reported where it is now (Told) and that a *)
(* line in file k is at least k rotations old (Disk).                      *)
(***************************************************************************)
EXTENDS Audit, SequenceTheorems, TLAPS

\* A sequence that holds nothing twice.
Distinct(s) == \A i, j \in DOMAIN s : s[i] = s[j] => i = j

\* What appending an event to a sequence gives.
LEMMA AppendIs ==
    ASSUME NEW S, NEW s \in Seq(S), NEW e \in S
    PROVE  /\ Append(s, e) \in Seq(S) /\ Len(Append(s, e)) = Len(s) + 1
           /\ ToSet(Append(s, e)) = ToSet(s) \cup {e} /\ Append(s, e) # <<>>
           /\ Distinct(s) /\ e \notin ToSet(s) => Distinct(Append(s, e))
<1>1. PICK t : t = Append(s, e)
  OBVIOUS
<1>2. /\ t \in Seq(S) /\ Len(t) = Len(s) + 1 /\ t[Len(s) + 1] = e
      /\ \A i \in 1..Len(s) : t[i] = s[i]
  BY <1>1
<1>3. DOMAIN t = 1..(Len(s) + 1) /\ DOMAIN s = 1..Len(s) /\ Len(s) \in Nat
  BY <1>2
<1>4. ToSet(t) = ToSet(s) \cup {e}
  <2>1. ASSUME NEW x \in ToSet(t) PROVE x \in ToSet(s) \cup {e}
    <3>1. PICK i \in 1..(Len(s) + 1) : x = t[i]
      BY <1>3 DEF ToSet
    <3>2. QED
      BY <1>2, <1>3, <3>1 DEF ToSet
  <2>2. ASSUME NEW x \in ToSet(s) PROVE x \in ToSet(t)
    <3>1. PICK i \in 1..Len(s) : x = s[i]
      BY <1>3 DEF ToSet
    <3>2. QED
      BY <1>2, <1>3, <3>1 DEF ToSet
  <2>3. e \in ToSet(t)
    BY <1>2, <1>3 DEF ToSet
  <2>4. QED
    BY <2>1, <2>2, <2>3
<1>5. Distinct(s) /\ e \notin ToSet(s) => Distinct(t)
  <2>. SUFFICES ASSUME Distinct(s), e \notin ToSet(s),
                       NEW i \in 1..(Len(s) + 1), NEW j \in 1..(Len(s) + 1), t[i] = t[j]
                PROVE  i = j
    BY <1>3 DEF Distinct
  <2>1. \A k \in 1..Len(s) : t[k] # e
    BY <1>2, <1>3 DEF ToSet
  <2>2. QED
    BY <1>2, <1>3, <2>1 DEF Distinct
<1>6. QED
  BY <1>1, <1>2, <1>4, <1>5

\* A sequence cut in two.
LEMMA CutIs ==
    ASSUME NEW S, NEW s \in Seq(S), NEW n \in 0..Len(s), NEW a \in Seq(S), NEW b \in Seq(S),
           Len(a) = n, \A i \in 1..n : a[i] = s[i],
           Len(b) = Len(s) - n, \A i \in 1..(Len(s) - n) : b[i] = s[n + i]
    PROVE  /\ ToSet(s) = ToSet(a) \cup ToSet(b)
           /\ Distinct(s) => Distinct(a) /\ Distinct(b) /\ ToSet(a) \cap ToSet(b) = {}
<1>1. \A i \in 1..(Len(s) - n) : b[i] = s[n + i]
  OBVIOUS
<1>2. DOMAIN s = 1..Len(s) /\ DOMAIN a = 1..n /\ DOMAIN b = 1..(Len(s) - n) /\ Len(s) \in Nat
  BY <1>1
<1>3. ASSUME NEW x \in ToSet(s) PROVE x \in ToSet(a) \cup ToSet(b)
  <2>1. PICK i \in 1..Len(s) : x = s[i]
    BY <1>2 DEF ToSet
  <2>2. CASE i <= n
    <3>1. i \in 1..n /\ a[i] = x
      BY <1>2, <2>1, <2>2
    <3>2. QED
      BY <1>2, <3>1 DEF ToSet
  <2>3. CASE i > n
    <3>1. i - n \in 1..(Len(s) - n) /\ n + (i - n) = i
      BY <1>2, <2>3
    <3>2. b[i - n] = x
      BY <1>1, <2>1, <3>1
    <3>3. QED
      BY <1>2, <3>1, <3>2 DEF ToSet
  <2>4. QED
    BY <1>2, <2>2, <2>3
<1>4. ASSUME NEW x \in ToSet(a) PROVE x \in ToSet(s)
  BY <1>1, <1>2 DEF ToSet
<1>5. ASSUME NEW x \in ToSet(b) PROVE x \in ToSet(s)
  <2>1. PICK i \in 1..(Len(s) - n) : x = b[i]
    BY <1>2 DEF ToSet
  <2>2. n + i \in 1..Len(s) /\ x = s[n + i]
    BY <1>1, <1>2, <2>1
  <2>3. QED
    BY <1>2, <2>2 DEF ToSet
<1>6. ASSUME Distinct(s) PROVE Distinct(a) /\ Distinct(b)
  <2>1. Distinct(a)
    <3>. SUFFICES ASSUME NEW i \in 1..n, NEW j \in 1..n, a[i] = a[j] PROVE i = j
      BY <1>2 DEF Distinct
    <3>1. i \in 1..Len(s) /\ j \in 1..Len(s) /\ s[i] = s[j]
      BY <1>1, <1>2
    <3>2. QED
      BY <1>2, <1>6, <3>1 DEF Distinct
  <2>2. Distinct(b)
    <3>. SUFFICES ASSUME NEW i \in 1..(Len(s) - n), NEW j \in 1..(Len(s) - n), b[i] = b[j] PROVE i = j
      BY <1>2 DEF Distinct
    <3>1. n + i \in 1..Len(s) /\ n + j \in 1..Len(s) /\ s[n + i] = s[n + j]
      BY <1>1, <1>2
    <3>2. n + i = n + j
      BY <1>2, <1>6, <3>1 DEF Distinct
    <3>3. QED
      BY <1>2, <3>2
  <2>3. QED
    BY <2>1, <2>2
<1>7. ASSUME Distinct(s), NEW x \in ToSet(a), x \in ToSet(b) PROVE FALSE
  <2>1. PICK i \in 1..n : x = a[i]
    BY <1>2 DEF ToSet
  <2>2. PICK j \in 1..(Len(s) - n) : x = b[j]
    BY <1>2, <1>7 DEF ToSet
  <2>3. i \in 1..Len(s) /\ n + j \in 1..Len(s) /\ s[i] = s[n + j]
    <3>1. b[j] = s[n + j] /\ a[i] = s[i]
      BY <1>1
    <3>2. i \in 1..Len(s) /\ n + j \in 1..Len(s)
      BY <1>2
    <3>3. QED
      BY <2>1, <2>2, <3>1, <3>2
  <2>4. i = n + j
    BY <1>2, <1>7, <2>3 DEF Distinct
  <2>5. QED
    BY <1>2, <2>4
<1>8. QED
  BY <1>3, <1>4, <1>5, <1>6, <1>7

\* What SubSeq makes of the two parts.
LEMMA SplitIs ==
    ASSUME NEW S, NEW s \in Seq(S), NEW n \in 0..Len(s)
    PROVE  LET a == SubSeq(s, 1, n)
               b == SubSeq(s, n + 1, Len(s))
           IN  /\ a \in Seq(S) /\ b \in Seq(S) /\ Len(a) = n /\ Len(b) = Len(s) - n
               /\ ToSet(s) = ToSet(a) \cup ToSet(b)
               /\ Distinct(s) => Distinct(a) /\ Distinct(b) /\ ToSet(a) \cap ToSet(b) = {}
<1>1. PICK a : a = SubSeq(s, 1, n)
  OBVIOUS
<1>2. PICK b : b = SubSeq(s, n + 1, Len(s))
  OBVIOUS
<1>3. a \in Seq(S) /\ Len(a) = n /\ \A i \in 1..n : a[i] = s[i]
  BY <1>1
<1>4. b \in Seq(S) /\ Len(b) = Len(s) - n /\ \A i \in 1..(Len(s) - n) : b[i] = s[n + i]
  BY <1>2
<1>5. /\ ToSet(s) = ToSet(a) \cup ToSet(b)
      /\ Distinct(s) => Distinct(a) /\ Distinct(b) /\ ToSet(a) \cap ToSet(b) = {}
  BY <1>3, <1>4, CutIs
<1>6. QED
  BY <1>1, <1>2, <1>3, <1>4, <1>5

\* A sequence is its head and its tail.
LEMMA TailIs ==
    ASSUME NEW S, NEW s \in Seq(S), s # <<>>
    PROVE  /\ Head(s) \in S /\ Tail(s) \in Seq(S) /\ Len(Tail(s)) = Len(s) - 1
           /\ ToSet(s) = {Head(s)} \cup ToSet(Tail(s))
           /\ Distinct(s) => Distinct(Tail(s)) /\ Head(s) \notin ToSet(Tail(s))
<1>1. PICK b : b = SubSeq(s, 2, Len(s))
  OBVIOUS
<1>2. PICK a : a = SubSeq(s, 1, 1)
  OBVIOUS
<1>3. Len(s) \in Nat /\ 1 \in 0..Len(s) /\ 1 + 1 = 2
  OBVIOUS
<1>4. Tail(s) = b /\ Head(s) = s[1] /\ Head(s) \in S
  BY <1>1
<1>5. a \in Seq(S) /\ Len(a) = 1 /\ a[1] = s[1]
  BY <1>2, <1>3
<1>6. ToSet(a) = {Head(s)}
  <2>1. DOMAIN a = {1}
    BY <1>5
  <2>2. QED
    BY <1>4, <1>5, <2>1 DEF ToSet
<1>7. /\ b \in Seq(S) /\ Len(b) = Len(s) - 1
      /\ ToSet(s) = ToSet(a) \cup ToSet(b)
      /\ Distinct(s) => Distinct(a) /\ Distinct(b) /\ ToSet(a) \cap ToSet(b) = {}
  BY <1>1, <1>2, <1>3, SplitIs
<1>8. QED
  BY <1>4, <1>6, <1>7

\* What the rotation keeps: a line in file k was written at least k rotations
\* ago, ...
Aging(d) ==
    /\ \A e \in Events : d.born[e] <= d.turn
    /\ \A k \in 0..MaxFiles : \A e \in d.files[k] : d.born[e] # 0 /\ d.born[e] + k <= d.turn

\* ... every line written is there, has aged or was lost, and files are in order.
Kept(d) ==
    \A e \in Events : d.born[e] # 0 =>
        e \in OnDisk(d.files) \/ d.turn - d.born[e] > MaxFiles \/ e \in d.lost
InOrder(d) ==
    \A j, k \in 0..MaxFiles : j < k => \A x \in d.files[j], e \in d.files[k] : d.born[x] > d.born[e]

Sound(d) == Aging(d) /\ Kept(d) /\ InOrder(d)
Disk == Sound(file) /\ file.turn # 0

Piles == [0..MaxFiles -> SUBSET Events]

\* Every file of g is one of fs in its place or of the place before, in the same
\* order, and none but the oldest is missing whose rename did not fail.
ShiftOf(fs, failed, g) ==
    /\ g \in Piles
    /\ \A k \in 0..MaxFiles : \A e \in g[k] : e \in fs[k] \/ (k > 0 /\ e \in fs[k - 1])
    /\ \A j, k \in 0..MaxFiles : j < k => \A x \in g[j], e \in g[k] :
          \E i, l \in 0..MaxFiles : i < l /\ x \in fs[i] /\ e \in fs[l]
    /\ \A k \in 0..(MaxFiles - 1) : \A e \in fs[k] : e \in OnDisk(g) \/ k \in failed

\* Where each file comes from.
LEMMA ShiftedIs ==
    ASSUME NEW fs \in Piles, NEW failed \in SUBSET (1..MaxFiles)
    PROVE  /\ Shifted(fs, failed) \in Piles /\ Shifted(fs, failed)[0] = fs[0]
           /\ \A k \in 1..MaxFiles :
                 \/ ShiftsOn(fs, failed, k - 1) /\ Shifted(fs, failed)[k] = fs[k - 1]
                 \/ ~ShiftsOn(fs, failed, k - 1) /\ Shifted(fs, failed)[k] = {}
                 \/ /\ ~ShiftsOn(fs, failed, k - 1) /\ ~ShiftsOn(fs, failed, k)
                    /\ Shifted(fs, failed)[k] = fs[k]
<1>1. MaxFiles \in Nat /\ MaxFiles >= 1
  BY AuditAssumption
<1>2. PICK s : s = Shifted(fs, failed)
  OBVIOUS
<1>3. \A k \in 0..MaxFiles :
        s[k] = IF ShiftsOn(fs, failed, k - 1) THEN fs[k - 1]
               ELSE IF ShiftsOn(fs, failed, k) \/ (k = MaxFiles /\ k \notin failed) THEN {}
               ELSE fs[k]
  BY <1>2 DEF Shifted
<1>4. DOMAIN s = 0..MaxFiles /\ s = [k \in 0..MaxFiles |-> s[k]]
  BY <1>2 DEF Shifted
<1>5. ~ShiftsOn(fs, failed, 0 - 1) /\ ~ShiftsOn(fs, failed, 0) /\ 0 # MaxFiles /\ 0 \in 0..MaxFiles
  BY <1>1 DEF ShiftsOn
<1>6. s[0] = fs[0]
  BY <1>3, <1>5
<1>7. ASSUME NEW k \in 1..MaxFiles
      PROVE  /\ \/ ShiftsOn(fs, failed, k - 1) /\ s[k] = fs[k - 1]
                \/ ~ShiftsOn(fs, failed, k - 1) /\ s[k] = {}
                \/ ~ShiftsOn(fs, failed, k - 1) /\ ~ShiftsOn(fs, failed, k) /\ s[k] = fs[k]
             /\ k \in 0..MaxFiles /\ k - 1 \in 0..MaxFiles
  <2>1. k \in 0..MaxFiles /\ k - 1 \in 0..MaxFiles
    BY <1>1
  <2>2. QED
    BY <1>3, <2>1
<1>8. \A k \in 0..MaxFiles : s[k] \in SUBSET Events
  <2>1. ASSUME NEW k \in 0..MaxFiles PROVE s[k] \in SUBSET Events
    <3>1. k = 0 \/ k \in 1..MaxFiles
      BY <1>1
    <3>2. QED
      BY <1>5, <1>6, <1>7, <3>1 DEF Piles
  <2>2. QED
    BY <2>1
<1>9. s \in Piles
  BY <1>4, <1>8 DEF Piles
<1>10. QED
  BY <1>2, <1>6, <1>7, <1>9

\* The numbered files shift, and the live one with them or not.
LEMMA ShiftsAre ==
    ASSUME NEW fs \in Piles, NEW failed \in SUBSET (1..MaxFiles),
           NEW g \in {Shifted(fs, failed), Rotated(fs, failed)}
    PROVE  ShiftOf(fs, failed, g)
<1>0. MaxFiles \in Nat /\ MaxFiles >= 1 /\ 0 \in 0..MaxFiles /\ 1 \in 0..MaxFiles /\ 0 # 1
  BY AuditAssumption
<1>1. PICK s : s = Shifted(fs, failed)
  OBVIOUS
<1>2. /\ s \in Piles /\ s[0] = fs[0]
      /\ \A k \in 1..MaxFiles :
            \/ ShiftsOn(fs, failed, k - 1) /\ s[k] = fs[k - 1]
            \/ ~ShiftsOn(fs, failed, k - 1) /\ s[k] = {}
            \/ ~ShiftsOn(fs, failed, k - 1) /\ ~ShiftsOn(fs, failed, k) /\ s[k] = fs[k]
  BY <1>1, ShiftedIs
<1>3. g = s \/ g = [s EXCEPT ![0] = {}, ![1] = fs[0]]
  BY <1>1 DEF Rotated
<1>4. /\ g \in Piles /\ \A k \in 2..MaxFiles : g[k] = s[k]
      /\ (g[0] = s[0] /\ g[1] = s[1]) \/ (g[0] = {} /\ g[1] = fs[0])
  <2>1. fs[0] \in SUBSET Events
    BY <1>0 DEF Piles
  <2>2. CASE g = s
    BY <1>2, <2>2
  <2>3. CASE g = [s EXCEPT ![0] = {}, ![1] = fs[0]]
    <3>1. s \in [0..MaxFiles -> SUBSET Events]
      BY <1>2 DEF Piles
    <3>2. g \in [0..MaxFiles -> SUBSET Events] /\ g[0] = {} /\ g[1] = fs[0]
      BY <1>0, <2>1, <2>3, <3>1
    <3>3. \A k \in 2..MaxFiles : k \in 0..MaxFiles /\ k # 0 /\ k # 1
      BY <1>0
    <3>4. \A k \in 2..MaxFiles : g[k] = s[k]
      BY <2>3, <3>1, <3>3
    <3>5. QED
      BY <3>2, <3>4 DEF Piles
  <2>4. QED
    BY <1>3, <2>2, <2>3
<1>5. ~ShiftsOn(fs, failed, 0)
  BY DEF ShiftsOn
<1>6. s[1] = {} \/ (~ShiftsOn(fs, failed, 1) /\ s[1] = fs[1])
  <2>1. 1 \in 1..MaxFiles /\ 1 - 1 = 0
    BY <1>0
  <2>2. QED
    BY <1>2, <1>5, <2>1
\* A line of file k came from file i.
<1> DEFINE From(k, i, e) == /\ i \in 0..MaxFiles /\ e \in fs[i] /\ (i = k \/ i + 1 = k)
                            /\ i = k /\ k # 0 => ~ShiftsOn(fs, failed, k)
                            /\ i + 1 = k /\ k > 1 => ShiftsOn(fs, failed, i)
<1>7. ASSUME NEW k \in 0..MaxFiles, NEW e \in g[k] PROVE \E i \in 0..MaxFiles : From(k, i, e)
  <2>1. CASE k = 0
    <3>1. e \in fs[0]
      BY <1>2, <1>4, <1>7, <2>1
    <3>2. From(k, 0, e)
      BY <1>0, <2>1, <3>1
    <3>3. QED
      BY <1>0, <3>2
  <2>2. CASE k = 1
    <3>1. (e \in fs[1] /\ ~ShiftsOn(fs, failed, 1)) \/ e \in fs[0]
      BY <1>4, <1>6, <1>7, <2>2
    <3>2. From(k, 1, e) \/ From(k, 0, e)
      BY <1>0, <2>2, <3>1
    <3>3. QED
      BY <1>0, <3>2
  <2>3. CASE k \in 2..MaxFiles
    <3>1. k \in 1..MaxFiles /\ k - 1 \in 0..MaxFiles /\ k \in 0..MaxFiles /\ k # 0 /\ (k - 1) + 1 = k /\ k - 1 # k
      BY <1>0, <2>3
    <3>2. g[k] = s[k]
      BY <1>4, <2>3
    <3>3. \/ ShiftsOn(fs, failed, k - 1) /\ e \in fs[k - 1]
          \/ ~ShiftsOn(fs, failed, k) /\ e \in fs[k]
      BY <1>2, <1>7, <3>1, <3>2
    <3>4. From(k, k - 1, e) \/ From(k, k, e)
      BY <3>1, <3>3
    <3>5. QED
      BY <3>1, <3>4
  <2>4. QED
    BY <1>0, <2>1, <2>2, <2>3
<1>8. ASSUME NEW k \in 0..MaxFiles, NEW e \in g[k] PROVE e \in fs[k] \/ (k > 0 /\ e \in fs[k - 1])
  <2>1. PICK i \in 0..MaxFiles : e \in fs[i] /\ (i = k \/ i + 1 = k)
    BY <1>7
  <2>2. CASE i + 1 = k
    <3>1. k > 0 /\ k - 1 = i
      BY <1>0, <2>1, <2>2
    <3>2. QED
      BY <2>1, <3>1
  <2>3. QED
    BY <2>1, <2>2
<1>9. ASSUME NEW j \in 0..MaxFiles, NEW k \in 0..MaxFiles, j < k, NEW x \in g[j], NEW e \in g[k]
      PROVE  \E i, l \in 0..MaxFiles : i < l /\ x \in fs[i] /\ e \in fs[l]
  <2>1. PICK i \in 0..MaxFiles : From(j, i, x)
    BY <1>7
  <2>2. PICK l \in 0..MaxFiles : From(k, l, e)
    BY <1>7
  <2>3. i <= j /\ l + 1 >= k
    BY <1>0, <2>1, <2>2
  <2>4. CASE i < l
    BY <2>1, <2>2, <2>4
  <2>5. CASE ~(i < l)
    <3>1. i = j /\ l = j /\ l + 1 = k
      BY <1>0, <1>9, <2>3, <2>5
    <3>2. CASE j = 0
      \* the live file has lines left, so it was not moved onto .1
      <4>1. k = 1 /\ x \in g[0] /\ e \in g[1] /\ g[0] # {}
        BY <1>9, <3>1, <3>2
      <4>2. e \in fs[1] /\ x \in fs[0]
        BY <1>2, <1>4, <1>6, <4>1
      <4>3. QED
        BY <1>0, <4>2
    <3>3. CASE j # 0
      <4>1. k > 1 /\ j > 0
        BY <1>0, <3>1, <3>3
      <4>2. ShiftsOn(fs, failed, j) /\ ~ShiftsOn(fs, failed, j)
        BY <2>1, <2>2, <3>1, <3>3, <4>1
      <4>3. QED
        BY <4>2
    <3>4. QED
      BY <3>2, <3>3
  <2>6. QED
    BY <2>4, <2>5
<1>10. ASSUME NEW k \in 0..(MaxFiles - 1), NEW e \in fs[k] PROVE e \in OnDisk(g) \/ k \in failed
  <2>1. CASE k = 0
    <3>1. e \in g[0] \/ e \in g[1]
      BY <1>2, <1>4, <1>10, <2>1
    <3>2. QED
      BY <1>0, <3>1 DEF OnDisk
  <2>2. CASE k # 0 /\ k \notin failed
    <3>1. k \in 1..(MaxFiles - 1) /\ k + 1 \in 1..MaxFiles /\ k + 1 \in 2..MaxFiles /\ (k + 1) - 1 = k
          /\ k + 1 \in 0..MaxFiles
      BY <1>0, <2>2
    <3>2. ShiftsOn(fs, failed, k)
      BY <1>10, <2>2, <3>1 DEF ShiftsOn
    <3>3. s[k + 1] = fs[k]
      <4>1. \/ ShiftsOn(fs, failed, k) /\ s[k + 1] = fs[k]
            \/ ~ShiftsOn(fs, failed, k)
        BY <1>2, <3>1
      <4>2. QED
        BY <3>2, <4>1
    <3>4. e \in g[k + 1]
      BY <1>4, <1>10, <3>1, <3>3
    <3>5. QED
      BY <3>1, <3>4 DEF OnDisk
  <2>3. QED
    BY <2>1, <2>2
<1>11. QED
  BY <1>4, <1>8, <1>9, <1>10 DEF ShiftOf

\* A rotation that the handle survives or not.
LEMMA TurnedIs ==
    ASSUME file \in FileStates, Disk, NEW failed \in SUBSET (1..MaxFiles), NEW g,
           ShiftOf(file.files, failed, g)
    PROVE  /\ Turned(g, failed) \in FileStates /\ Sound(Turned(g, failed))
           /\ Turned(g, failed).born = file.born /\ Turned(g, failed).f = file.f
<1>1. /\ file.files \in Piles /\ file.turn \in Nat /\ file.born \in [Events -> Nat]
      /\ file.lost \in SUBSET Events /\ file.f \in {"none", "open", "stale"} /\ MaxFiles \in Nat /\ MaxFiles >= 1
  BY AuditAssumption DEF FileStates, Piles
<1>2. PICK lost : lost = file.lost \cup ((UNION {file.files[k] : k \in failed \ {MaxFiles}}) \ OnDisk(g))
  OBVIOUS
<1>3. PICK d : d = Turned(g, failed)
  OBVIOUS
<1>4. PICK n : n = file.turn + 1
  OBVIOUS
<1>5. d = [file EXCEPT !.files = g, !.turn = n, !.lost = lost]
  BY <1>2, <1>3, <1>4 DEF Turned
<1>6. lost \in SUBSET Events /\ n \in Nat /\ g \in Piles
  <2>1. \A k \in failed \ {MaxFiles} : k \in 0..MaxFiles
    BY <1>1
  <2>2. \A k \in failed \ {MaxFiles} : file.files[k] \in SUBSET Events
    BY <1>1, <2>1 DEF Piles
  <2>3. QED
    BY <1>1, <1>2, <1>4, <2>2 DEF ShiftOf
<1>7. d \in FileStates /\ d.files = g /\ d.turn = n /\ d.lost = lost /\ d.born = file.born /\ d.f = file.f
  BY <1>1, <1>5, <1>6 DEF FileStates, Piles
<1>8. Aging(d)
  <2>1. ASSUME NEW e \in Events PROVE file.born[e] <= n
    <3>1. file.born[e] <= file.turn /\ file.born[e] \in Nat
      BY <1>1 DEF Disk, Sound, Aging
    <3>2. QED
      BY <1>1, <1>4, <3>1
  <2>2. ASSUME NEW k \in 0..MaxFiles, NEW e \in g[k] PROVE file.born[e] # 0 /\ file.born[e] + k <= n
    <3>1. e \in file.files[k] \/ (k > 0 /\ e \in file.files[k - 1])
      BY DEF ShiftOf
    <3>2. PICK i \in 0..MaxFiles : e \in file.files[i] /\ k <= i + 1
      <4>1. CASE e \in file.files[k]
        BY <4>1
      <4>2. CASE k > 0 /\ e \in file.files[k - 1]
        <5>1. k - 1 \in 0..MaxFiles /\ k <= (k - 1) + 1
          BY <1>1, <4>2
        <5>2. QED
          BY <4>2, <5>1
      <4>3. QED
        BY <3>1, <4>1, <4>2
    <3>3. file.born[e] # 0 /\ file.born[e] + i <= file.turn
      BY <3>2 DEF Disk, Sound, Aging
    <3>4. e \in Events
      BY <1>1, <3>2 DEF Piles
    <3>5. file.born[e] \in Nat
      BY <1>1, <3>4
    <3>6. QED
      BY <1>1, <1>4, <3>2, <3>3, <3>5
  <2>3. QED
    BY <1>7, <2>1, <2>2 DEF Aging
<1>9. Kept(d)
  <2>1. ASSUME NEW e \in Events, file.born[e] # 0
        PROVE  e \in OnDisk(g) \/ n - file.born[e] > MaxFiles \/ e \in lost
    <3>1. e \in OnDisk(file.files) \/ file.turn - file.born[e] > MaxFiles \/ e \in file.lost
      BY <2>1 DEF Disk, Sound, Kept
    <3>2. PICK b \in Nat : b = file.born[e]
      BY <1>1
    <3>3. CASE file.turn - file.born[e] > MaxFiles
      BY <1>1, <1>4, <3>2, <3>3
    <3>4. CASE e \in OnDisk(file.files)
      <4>1. PICK k \in 0..MaxFiles : e \in file.files[k]
        BY <3>4 DEF OnDisk
      <4>2. CASE k = MaxFiles
        <5>1. b + MaxFiles <= file.turn
          BY <3>2, <4>1, <4>2 DEF Disk, Sound, Aging
        <5>2. n - b > MaxFiles
          BY <1>1, <1>4, <5>1
        <5>3. QED
          BY <3>2, <5>2
      <4>3. CASE k # MaxFiles
        <5>1. k \in 0..(MaxFiles - 1)
          BY <1>1, <4>3
        <5>2. e \in OnDisk(g) \/ k \in failed
          BY <4>1, <5>1 DEF ShiftOf
        <5>3. ASSUME k \in failed PROVE e \in UNION {file.files[l] : l \in failed \ {MaxFiles}}
          <6>1. k \in failed \ {MaxFiles}
            BY <4>3, <5>3
          <6>2. file.files[k] \in {file.files[l] : l \in failed \ {MaxFiles}}
            BY <6>1
          <6>3. QED
            BY <4>1, <6>2
        <5>4. CASE e \in OnDisk(g)
          BY <5>4
        <5>5. CASE k \in failed /\ e \notin OnDisk(g)
          <6>1. e \in UNION {file.files[l] : l \in failed \ {MaxFiles}}
            BY <5>3, <5>5
          <6>2. e \in lost
            BY <1>2, <5>5, <6>1
          <6>3. QED
            BY <6>2
        <5>6. QED
          BY <5>2, <5>4, <5>5
      <4>4. QED
        BY <4>2, <4>3
    <3>5. QED
      BY <1>2, <3>1, <3>3, <3>4
  <2>2. QED
    BY <1>7, <2>1 DEF Kept
<1>10. InOrder(d)
  <2>1. ASSUME NEW j \in 0..MaxFiles, NEW k \in 0..MaxFiles, j < k, NEW x \in g[j], NEW e \in g[k]
        PROVE  file.born[x] > file.born[e]
    <3>1. PICK i \in 0..MaxFiles, l \in 0..MaxFiles : i < l /\ x \in file.files[i] /\ e \in file.files[l]
      BY <2>1 DEF ShiftOf
    <3>2. QED
      BY <3>1 DEF Disk, Sound, InOrder
  <2>2. QED
    BY <1>7, <2>1 DEF InOrder
<1>11. QED
  BY <1>3, <1>7, <1>8, <1>9, <1>10 DEF Sound

\* The events whose line was written.
Lines(d) == {e \in Events : d.born[e] # 0}

\* Only the handle differs.
Same(d) == d.files = file.files /\ d.turn = file.turn /\ d.born = file.born /\ d.lost = file.lost

\* A line written for the first time goes at the end of the live file.
LEMMA ExtendedIs ==
    ASSUME NEW d \in FileStates, Sound(d), NEW e \in Events, d.born[e] = 0, d.turn # 0
    PROVE  /\ Extended(d, e) \in FileStates /\ Sound(Extended(d, e))
           /\ Lines(Extended(d, e)) = Lines(d) \cup {e}
           /\ Extended(d, e).f = d.f /\ Extended(d, e).turn = d.turn
<1>1. /\ d.files \in Piles /\ d.turn \in Nat /\ d.born \in [Events -> Nat]
      /\ d.lost \in SUBSET Events /\ MaxFiles \in Nat /\ 0 \in 0..MaxFiles
  BY AuditAssumption DEF FileStates, Piles
<1>2. PICK x : x = Extended(d, e)
  OBVIOUS
<1>3. PICK fs : fs = [d.files EXCEPT ![0] = @ \cup {e}]
  OBVIOUS
<1>4. PICK bn : bn = [d.born EXCEPT ![e] = d.turn]
  OBVIOUS
<1>5. x = [d EXCEPT !.files = fs, !.born = bn]
  BY <1>1, <1>2, <1>3, <1>4 DEF Extended, FileStates
<1>6. /\ fs \in Piles /\ fs[0] = d.files[0] \cup {e}
      /\ \A k \in 0..MaxFiles : k # 0 => fs[k] = d.files[k]
  BY <1>1, <1>3 DEF Piles
<1>7. bn \in [Events -> Nat] /\ bn[e] = d.turn /\ \A a \in Events : a # e => bn[a] = d.born[a]
  BY <1>1, <1>4
<1>8. x \in FileStates /\ x.files = fs /\ x.born = bn /\ x.turn = d.turn /\ x.lost = d.lost /\ x.f = d.f
  BY <1>1, <1>5, <1>6, <1>7 DEF FileStates, Piles
<1>9. \A k \in 0..MaxFiles : \A a \in d.files[k] : a \in Events /\ a # e /\ bn[a] = d.born[a]
  <2>1. ASSUME NEW k \in 0..MaxFiles, NEW a \in d.files[k] PROVE a \in Events /\ a # e
    BY <1>1 DEF Piles, Sound, Aging
  <2>2. QED
    BY <1>7, <2>1
<1>10. Aging(x)
  <2>1. ASSUME NEW a \in Events PROVE bn[a] <= d.turn
    <3>1. d.born[a] <= d.turn
      BY DEF Sound, Aging
    <3>2. QED
      BY <1>1, <1>7, <3>1
  <2>2. ASSUME NEW k \in 0..MaxFiles, NEW a \in fs[k] PROVE bn[a] # 0 /\ bn[a] + k <= d.turn
    <3>1. CASE a \in d.files[k]
      <4>1. d.born[a] # 0 /\ d.born[a] + k <= d.turn
        BY <3>1 DEF Sound, Aging
      <4>2. QED
        BY <1>9, <3>1, <4>1
    <3>2. CASE a \notin d.files[k]
      <4>1. k = 0 /\ a = e
        BY <1>6, <2>2, <3>2
      <4>2. QED
        BY <1>1, <1>7, <4>1
    <3>3. QED
      BY <3>1, <3>2
  <2>3. QED
    BY <1>8, <2>1, <2>2 DEF Aging
<1>11. Kept(x)
  <2>1. ASSUME NEW a \in Events, bn[a] # 0
        PROVE  a \in OnDisk(fs) \/ d.turn - bn[a] > MaxFiles \/ a \in d.lost
    <3>1. CASE a = e
      BY <1>1, <1>6, <3>1 DEF OnDisk
    <3>2. CASE a # e
      <4>1. a \in OnDisk(d.files) \/ d.turn - bn[a] > MaxFiles \/ a \in d.lost
        BY <1>7, <2>1, <3>2 DEF Sound, Kept
      <4>2. OnDisk(d.files) \subseteq OnDisk(fs)
        BY <1>6 DEF OnDisk
      <4>3. QED
        BY <4>1, <4>2
    <3>3. QED
      BY <3>1, <3>2
  <2>2. QED
    BY <1>8, <2>1 DEF Kept
<1>12. InOrder(x)
  <2>1. ASSUME NEW j \in 0..MaxFiles, NEW k \in 0..MaxFiles, j < k, NEW a \in fs[j], NEW b \in fs[k]
        PROVE  bn[a] > bn[b]
    <3>1. k # 0 /\ k >= 1 /\ fs[k] = d.files[k]
      BY <1>1, <1>6, <2>1
    <3>2. bn[b] = d.born[b] /\ d.born[b] + k <= d.turn /\ b \in Events
      BY <1>9, <3>1 DEF Sound, Aging
    <3>3. CASE a \in d.files[j]
      <4>1. d.born[a] > d.born[b]
        BY <2>1, <3>1, <3>3 DEF Sound, InOrder
      <4>2. QED
        BY <1>9, <3>2, <3>3, <4>1
    <3>4. CASE a \notin d.files[j]
      <4>1. a = e
        BY <1>6, <2>1, <3>4
      <4>2. d.born[b] \in Nat
        BY <1>1, <3>2
      <4>3. QED
        BY <1>1, <1>7, <3>1, <3>2, <4>1, <4>2
    <3>5. QED
      BY <3>3, <3>4
  <2>2. QED
    BY <1>8, <2>1 DEF InOrder
<1>13. Lines(x) = Lines(d) \cup {e}
  BY <1>1, <1>7, <1>8 DEF Lines
<1>14. QED
  BY <1>2, <1>8, <1>10, <1>11, <1>12, <1>13 DEF Sound

\* A line that is written extends the trail by one, rotated or not.
LEMMA WriteLineIs ==
    ASSUME file \in FileStates, Disk, NEW e \in Events, e \notin Lines(file), WriteLine(e)
    PROVE  file' \in FileStates /\ Disk' /\ Lines(file') = Lines(file) \cup {e}
<1>1. file.files \in Piles /\ file.turn \in Nat /\ file.born[e] = 0 /\ file.turn # 0
  BY DEF FileStates, Piles, Lines, Disk
<1>2. CASE file' = Extended(file, e)
  <2>1. Sound(Extended(file, e))
    BY <1>1, ExtendedIs DEF Disk
  <2>2. QED
    BY <1>1, <1>2, <2>1, ExtendedIs DEF Disk
<1>3. ASSUME NEW failed \in SUBSET (1..MaxFiles),
             file' = Extended(Turned(Rotated(file.files, failed), failed), e)
      PROVE  file' \in FileStates /\ Disk' /\ Lines(file') = Lines(file) \cup {e}
  <2>1. PICK g : g = Rotated(file.files, failed)
    OBVIOUS
  <2>2. PICK d : d = Turned(g, failed)
    OBVIOUS
  <2>3. ShiftOf(file.files, failed, g)
    BY <1>1, <2>1, ShiftsAre
  <2>4. d \in FileStates /\ Sound(d) /\ d.born = file.born
    BY <2>2, <2>3, TurnedIs
  <2>5. d.turn = file.turn + 1
    BY <2>2 DEF Turned, FileStates
  <2>6. d.turn # 0 /\ d.born[e] = 0 /\ Lines(d) = Lines(file)
    BY <1>1, <2>4, <2>5 DEF Lines
  <2>7. file' = Extended(d, e)
    BY <1>3, <2>1, <2>2
  <2>8. /\ Extended(d, e) \in FileStates /\ Sound(Extended(d, e))
        /\ Lines(Extended(d, e)) = Lines(d) \cup {e} /\ Extended(d, e).turn = d.turn
    BY <2>4, <2>6, ExtendedIs
  <2>9. QED
    BY <2>6, <2>7, <2>8 DEF Disk
<1>4. QED
  BY <1>2, <1>3 DEF WriteLine

\* A write that fails leaves the trail as it was, rotated or half rotated.
LEMMA WriteFailsIs ==
    ASSUME file \in FileStates, Disk, WriteFails
    PROVE  file' \in FileStates /\ Disk' /\ Lines(file') = Lines(file)
<1>1. /\ file.files \in Piles /\ file.turn \in Nat /\ file.turn # 0
      /\ \A f \in {"open", "stale"} : \A d \in FileStates : [d EXCEPT !.f = f] \in FileStates
  BY DEF FileStates, Piles, Disk
<1>2. CASE UNCHANGED file
  BY <1>2 DEF Disk
<1>3. ASSUME NEW d \in FileStates, NEW f \in {"open", "stale"}, Sound(d), d.born = file.born, d.turn # 0,
             file' = [d EXCEPT !.f = f]
      PROVE  file' \in FileStates /\ Disk' /\ Lines(file') = Lines(file)
  <2>1. /\ file' \in FileStates /\ file'.files = d.files /\ file'.turn = d.turn
        /\ file'.born = d.born /\ file'.lost = d.lost
    BY <1>1, <1>3 DEF FileStates
  <2>2. Sound(file')
    BY <1>3, <2>1 DEF Sound, Aging, Kept, InOrder
  <2>3. QED
    BY <1>3, <2>1, <2>2 DEF Disk, Lines
<1>4. CASE file' = [file EXCEPT !.f = "stale"]
  BY <1>3, <1>4 DEF Disk
<1>5. ASSUME NEW failed \in SUBSET (1..MaxFiles), NEW f \in {"open", "stale"},
             NEW g \in {Shifted(file.files, failed), Rotated(file.files, failed)},
             file' = [Turned(g, failed) EXCEPT !.f = f]
      PROVE  file' \in FileStates /\ Disk' /\ Lines(file') = Lines(file)
  <2>1. PICK d : d = Turned(g, failed)
    OBVIOUS
  <2>2. ShiftOf(file.files, failed, g)
    BY <1>1, ShiftsAre
  <2>3. d \in FileStates /\ Sound(d) /\ d.born = file.born
    BY <2>1, <2>2, TurnedIs
  <2>4. d.turn = file.turn + 1
    BY <2>1 DEF Turned, FileStates
  <2>5. d.turn # 0
    BY <1>1, <2>4
  <2>6. file' = [d EXCEPT !.f = f]
    BY <1>5, <2>1
  <2>7. QED
    BY <1>3, <2>3, <2>5, <2>6
<1>6. QED
  BY <1>2, <1>4, <1>5 DEF WriteFails

\* What the handle is says nothing of the trail.
LEMMA SameIs ==
    ASSUME Disk, Same(file')
    PROVE  Disk' /\ Lines(file') = Lines(file)
<1>1. Sound(file')
  BY DEF Disk, Sound, Aging, Kept, InOrder, Same
<1>2. QED
  BY <1>1 DEF Disk, Same, Lines

\* The events that the buffer or the worker holds, and how often a held one may
\* have been reported: once, when the stdout sink's Close gave up on it.
Held == ToSet(ch) \cup ToSet(worker.batch)
Late == logger.kind = "stdout" /\ logger.spent /\ logger.state = "closed"
Extra == IF Late THEN 1 ELSE 0

\* What the observer was told of an event fits where the event is.
Fit(e, at, held, f, extra) ==
    /\ at # "done" => f = <<>> /\ e \notin held
    /\ at = "done" /\ e \notin held => f # <<>>
    /\ Len(f) <= extra + 1
    /\ e \in held => Len(f) <= extra
Told == \A e \in Events : Fit(e, emitting[e], Held, fate[e], Extra)

\* What the observer was told is on disk, and nothing else is; only the SDK lets
\* events go unseen.
OnFile(kind, outcome) == outcome = "dead_lettered" \/ (kind = "file" /\ outcome = "delivered")
Recorded ==
    \A e \in Events : /\ e \in Lines(file) <=> \E o \in ToSet(fate[e]) : OnFile(logger.kind, o)
                      /\ "unseen" \in ToSet(fate[e]) => logger.kind = "otlp"

\* What Report changes of the observer's record.
LEMMA ReportIs ==
    ASSUME fate \in [Events -> Seq(Outcomes)], NEW es, NEW o \in Outcomes, fate' = Report(es, o)
    PROVE  /\ fate' \in [Events -> Seq(Outcomes)]
           /\ \A e \in Events \cap es : fate'[e] = Append(fate[e], o)
           /\ \A e \in Events \ es : fate'[e] = fate[e]
<1>1. \A e \in Events : fate[e] \in Seq(Outcomes) /\ Append(fate[e], o) \in Seq(Outcomes)
  OBVIOUS
<1>2. fate' = [e \in Events |-> IF e \in es THEN Append(fate[e], o) ELSE fate[e]]
  BY DEF Report
<1>3. QED
  BY <1>1, <1>2

\* A report of events that leave the buffer and the worker, or never got there.
LEMMA ToldReport ==
    ASSUME fate \in [Events -> Seq(Outcomes)], Told, NEW es \in SUBSET Events, NEW o \in Outcomes,
           fate' = Report(es, o), Held' = Held \ es, Extra' = Extra,
           \A e \in es : emitting'[e] = "done" /\ (emitting[e] # "done" \/ e \in Held),
           \A e \in Events \ es : emitting'[e] = emitting[e]
    PROVE  Told'
<1>1. /\ \A e \in Events \cap es : fate'[e] = Append(fate[e], o)
      /\ \A e \in Events \ es : fate'[e] = fate[e]
  BY ReportIs
<1>2. Extra \in {0, 1}
  BY DEF Extra
<1>3. ASSUME NEW e \in Events PROVE Fit(e, emitting'[e], Held', fate'[e], Extra')
  <2>1. Fit(e, emitting[e], Held, fate[e], Extra) /\ fate[e] \in Seq(Outcomes)
    BY DEF Told
  <2>2. CASE e \in es
    <3>1. PICK f : f = fate[e]
      OBVIOUS
    <3>2. PICK g : g = Append(f, o)
      OBVIOUS
    <3>3. f \in Seq(Outcomes) /\ Len(g) = Len(f) + 1 /\ g # <<>> /\ Len(f) \in Nat
      BY <2>1, <3>1, <3>2
    <3>4. Len(f) <= Extra
      BY <1>2, <2>1, <2>2, <3>1, <3>3 DEF Fit
    <3>5. emitting'[e] = "done" /\ e \notin Held' /\ fate'[e] = g
      BY <1>1, <2>2, <3>1, <3>2
    <3>6. Fit(e, "done", Held', g, Extra)
      BY <1>2, <3>3, <3>4, <3>5 DEF Fit
    <3>7. QED
      BY <3>5, <3>6
  <2>3. CASE e \notin es
    <3>1. emitting'[e] = emitting[e] /\ fate'[e] = fate[e] /\ (e \in Held' <=> e \in Held)
      BY <1>1, <2>3
    <3>2. QED
      BY <2>1, <3>1 DEF Fit
  <2>4. QED
    BY <2>2, <2>3
<1>4. QED
  BY <1>3 DEF Told

\* A report says that an event is on file when a line of it was written.
LEMMA RecordedReport ==
    ASSUME fate \in [Events -> Seq(Outcomes)], Recorded, NEW es \in SUBSET Events, NEW o \in Outcomes,
           fate' = Report(es, o), logger'.kind = logger.kind, o = "unseen" => logger.kind = "otlp",
           Lines(file') = Lines(file) \cup {e \in es : OnFile(logger.kind, o)}
    PROVE  Recorded'
<1>1. /\ \A e \in Events \cap es : fate'[e] = Append(fate[e], o)
      /\ \A e \in Events \ es : fate'[e] = fate[e]
  BY ReportIs
<1>2. ASSUME NEW e \in Events
      PROVE  /\ e \in Lines(file') <=> \E p \in ToSet(fate'[e]) : OnFile(logger.kind, p)
             /\ "unseen" \in ToSet(fate'[e]) => logger.kind = "otlp"
  <2>1. /\ e \in Lines(file) <=> \E p \in ToSet(fate[e]) : OnFile(logger.kind, p)
        /\ "unseen" \in ToSet(fate[e]) => logger.kind = "otlp"
        /\ fate[e] \in Seq(Outcomes)
    BY DEF Recorded
  <2>2. CASE e \in es
    <3>1. \A f \in Seq(Outcomes) : ToSet(Append(f, o)) = ToSet(f) \cup {o}
      BY AppendIs
    <3>2. ToSet(fate'[e]) = ToSet(fate[e]) \cup {o}
      BY <1>1, <2>1, <2>2, <3>1
    <3>3. e \in Lines(file') <=> e \in Lines(file) \/ OnFile(logger.kind, o)
      BY <2>2
    <3>4. QED
      BY <2>1, <3>2, <3>3
  <2>3. CASE e \notin es
    <3>1. fate'[e] = fate[e] /\ (e \in Lines(file') <=> e \in Lines(file))
      BY <1>1, <2>3
    <3>2. QED
      BY <2>1, <3>1
  <2>4. QED
    BY <2>2, <2>3
<1>3. QED
  BY <1>2 DEF Recorded

\* Where the worker is tells what it holds, and what the buffer may still hold.
Working ==
    /\ worker.at \in {"idle", "exited"} => worker.batch = <<>>
    /\ worker.draining = "last" => worker.at \in {"abandon", "exited"}
    /\ worker.at = "backoff" => worker.attempt < MaxAttempts
    /\ worker.draining = "last" \/ Deaf => ToSet(ch) \subseteq tardy

\* No event is twice in the buffer and the worker's batch.
Queued == Distinct(ch) /\ Distinct(worker.batch) /\ ToSet(ch) \cap ToSet(worker.batch) = {}

\* stdout has no dead-letter file, and only the webhook's posts are cancelled.
Sinks ==
    /\ logger.dead \/ logger.deadPath => logger.kind # "stdout"
    /\ logger.state = "cancelled" => logger.kind = "webhook"

AuditInv == AuditTypeOK /\ Working /\ Queued /\ Told /\ Recorded /\ Disk /\ Sinks

\* The empty sequence holds nothing.
LEMMA EmptyIs == ToSet(<<>>) = {} /\ Distinct(<<>>) /\ \A S : <<>> \in Seq(S) /\ Len(<<>>) = 0
BY DEF ToSet, Distinct

\* The worker goes on with what it holds.
LEMMA WorkerMoves ==
    ASSUME AuditInv, UNCHANGED <<logger, emitting, ch, file, fate, tardy>>,
           worker' \in Workers, worker'.batch = worker.batch, Working'
    PROVE  AuditInv'
<1>1. AuditTypeOK'
  BY DEF AuditInv, AuditTypeOK, Workers
<1>2. Held' = Held /\ Extra' = Extra
  BY DEF Held, Extra, Late
<1>3. Told' /\ Recorded' /\ Disk' /\ Queued' /\ Sinks'
  BY <1>2 DEF AuditInv, Told, Recorded, Disk, Queued, Sinks
<1>4. QED
  BY <1>1, <1>3 DEF AuditInv

\* The worker is done with its batch, and has reported all of it.
LEMMA WorkerReports ==
    ASSUME AuditInv, NEW o \in Outcomes, ~OnFile(logger.kind, o), o # "unseen", worker.at \in {"deliver", "abandon"},
           fate' = Report(ToSet(worker.batch), o), Done, UNCHANGED <<logger, emitting, ch, file, tardy>>
    PROVE  AuditInv'
<1>0. AuditTypeOK /\ Working /\ Queued /\ Told /\ Recorded /\ Disk /\ Sinks
  BY DEF AuditInv
<1>1. worker \in Workers /\ worker.batch \in Seq(Events) /\ fate \in [Events -> Seq(Outcomes)] /\ ch \in Seq(Events)
  BY <1>0 DEF AuditTypeOK, Workers
<1>2. ToSet(worker.batch) \in SUBSET Events
  BY <1>1 DEF ToSet
<1>3. /\ worker' \in Workers /\ worker'.batch = <<>> /\ worker'.draining = worker.draining
      /\ worker'.at = IF worker.draining = "last" THEN "exited" ELSE "idle"
  <2>1. PICK at \in {"exited", "idle"} : at = IF worker.draining = "last" THEN "exited" ELSE "idle"
    OBVIOUS
  <2>2. 0 \in 0..MaxAttempts /\ <<>> \in Seq(Events)
    BY AuditAssumption
  <2>3. worker' = [worker EXCEPT !.at = at, !.batch = <<>>, !.attempt = 0]
    BY <2>1 DEF Done
  <2>4. QED
    BY <1>1, <2>1, <2>2, <2>3 DEF Workers
<1>4. fate' \in [Events -> Seq(Outcomes)]
  BY <1>1, ReportIs
<1>5. AuditTypeOK'
  <2>1. Len(worker'.batch) <= BatchSize + BufferSize
    BY <1>3, AuditAssumption, EmptyIs
  <2>2. QED
    BY <1>0, <1>3, <1>4, <2>1 DEF AuditTypeOK
<1>6. Working' /\ Queued' /\ Sinks'
  BY <1>0, <1>3, EmptyIs DEF Working, Queued, Deaf, Sinks
<1>7. Held' = Held \ ToSet(worker.batch) /\ Extra' = Extra
  BY <1>0, <1>3, EmptyIs DEF Held, Queued, Extra, Late
<1>8. Told'
  <2>1. \A e \in ToSet(worker.batch) : e \in Held /\ e \in Events
    BY <1>2 DEF Held
  <2>2. \A e \in ToSet(worker.batch) : emitting'[e] = "done" /\ (emitting[e] # "done" \/ e \in Held)
    BY <1>0, <2>1 DEF Told, Fit
  <2>3. QED
    BY <1>0, <1>1, <1>2, <1>7, <2>2, ToldReport
<1>9. Recorded'
  <2>1. Lines(file') = Lines(file) \cup {e \in ToSet(worker.batch) : OnFile(logger.kind, o)}
    OBVIOUS
  <2>2. QED
    BY <1>0, <1>1, <1>2, <2>1, RecordedReport
<1>10. Disk'
  BY <1>0 DEF Disk
<1>11. QED
  BY <1>5, <1>6, <1>8, <1>9, <1>10 DEF AuditInv

\* Only the logger changes, and the file's handle.
LEMMA LoggerMoves ==
    ASSUME AuditInv, UNCHANGED <<emitting, ch, worker, fate, tardy>>,
           logger' \in Loggers, logger'.kind = logger.kind, Late => Late', Deaf' => Deaf, Sinks',
           file' \in FileStates, Same(file')
    PROVE  AuditInv'
<1>0. AuditTypeOK /\ Working /\ Queued /\ Told /\ Recorded /\ Disk /\ Sinks
  BY DEF AuditInv
<1>1. AuditTypeOK' /\ Working' /\ Queued' /\ Recorded' /\ Disk'
  <2>1. Disk' /\ Lines(file') = Lines(file)
    BY <1>0, SameIs
  <2>2. QED
    BY <1>0, <2>1 DEF AuditTypeOK, Working, Queued, Recorded
<1>2. Held' = Held /\ Extra \in {0, 1} /\ Extra' \in {0, 1} /\ Extra <= Extra'
  BY DEF Held, Extra
<1>3. ASSUME NEW e \in Events PROVE Fit(e, emitting'[e], Held', fate'[e], Extra')
  <2>1. PICK f : f = fate[e]
    OBVIOUS
  <2>2. Fit(e, emitting[e], Held, f, Extra) /\ f \in Seq(Outcomes)
    BY <1>0, <2>1 DEF Told, AuditTypeOK
  <2>3. Len(f) \in Nat
    BY <2>2
  <2>4. Fit(e, emitting[e], Held, f, Extra')
    BY <1>2, <2>2, <2>3 DEF Fit
  <2>5. QED
    BY <1>2, <2>1, <2>4
<1>4. QED
  BY <1>1, <1>3 DEF AuditInv, Told

\* New and the gateway's check of the sinks.
LEMMA StartKeeps ==
    ASSUME AuditInv, NEW opens \in BOOLEAN, NEW built \in BOOLEAN, Start(opens, built)
    PROVE  AuditInv'
<1>1. logger \in Loggers /\ file \in FileStates
  BY DEF AuditInv, AuditTypeOK
<1>2. PICK d \in BOOLEAN : d = (built /\ opens /\ logger.deadPath)
  BY <1>1 DEF Loggers
<1>3. PICK st \in {"refused", "serving", "silent"} :
         st = IF DurabilityError(built /\ Durable) THEN "refused" ELSE IF built THEN "serving" ELSE "silent"
  OBVIOUS
<1>4. PICK f \in {"none", "open"} : f = IF built /\ opens /\ Durable THEN "open" ELSE "none"
  OBVIOUS
<1>5. /\ logger' = [logger EXCEPT !.dead = d, !.state = st] /\ file' = [file EXCEPT !.f = f]
      /\ UNCHANGED <<emitting, ch, worker, fate, tardy>> /\ logger.state = "new"
  BY <1>2, <1>3, <1>4, Zenon DEF Start
<1>6. logger' \in Loggers /\ logger'.kind = logger.kind
  BY <1>1, <1>5 DEF Loggers
<1>7. file' \in FileStates /\ Same(file')
  BY <1>1, <1>5 DEF FileStates, Same
<1>8. ~Late /\ (Deaf' => Deaf) /\ Sinks'
  <2>1. Sinks /\ logger'.state = st /\ logger'.dead = d /\ logger'.deadPath = logger.deadPath
    BY <1>1, <1>5 DEF Loggers, AuditInv
  <2>2. QED
    BY <1>2, <1>5, <1>6, <2>1 DEF Late, Deaf, Sinks
<1>9. QED
  BY <1>5, <1>6, <1>7, <1>8, LoggerMoves

\* Close begins.
LEMMA CloseLoggerKeeps ==
    ASSUME AuditInv, CloseLogger
    PROVE  AuditInv'
<1>1. logger \in Loggers /\ file \in FileStates
  BY DEF AuditInv, AuditTypeOK
<1>2. logger' \in Loggers /\ logger'.kind = logger.kind
  BY <1>1 DEF CloseLogger, Loggers
<1>3. file' \in FileStates /\ Same(file')
  BY <1>1 DEF CloseLogger, FileStates, Same
<1>4. ~Late /\ UNCHANGED <<emitting, ch, worker, fate, tardy>>
  BY DEF CloseLogger, Late
<1>5. (Deaf' => Deaf) /\ Sinks'
  <2>1. /\ logger.kind = "otlp" => logger'.state # "closed"
        /\ logger'.state # "cancelled"
        /\ logger'.dead = logger.dead /\ logger'.deadPath = logger.deadPath /\ Sinks
    BY <1>1 DEF CloseLogger, Loggers, AuditInv
  <2>2. QED
    BY <1>2, <1>4, <2>1 DEF Deaf, Sinks
<1>6. QED
  BY <1>2, <1>3, <1>4, <1>5, LoggerMoves

\* The drain window ends.
LEMMA WindowSpentKeeps ==
    ASSUME AuditInv, WindowSpent
    PROVE  AuditInv'
<1>1. logger \in Loggers /\ file \in FileStates
  BY DEF AuditInv, AuditTypeOK
<1>2. logger' \in Loggers /\ logger'.kind = logger.kind
  BY <1>1 DEF WindowSpent, Loggers
<1>3. ~Late /\ UNCHANGED <<emitting, ch, worker, file, fate, tardy>> /\ Same(file')
  BY DEF WindowSpent, Late, Same
<1>4. (Deaf' => Deaf) /\ Sinks'
  <2>1. /\ logger'.state # "closed" /\ (logger'.state = "cancelled" => logger.kind = "webhook")
        /\ logger'.dead = logger.dead
        /\ logger'.deadPath = logger.deadPath /\ Sinks
    BY <1>1 DEF WindowSpent, Loggers, AuditInv
  <2>2. QED
    BY <1>2, <1>3, <2>1 DEF Deaf, Sinks
<1>5. QED
  BY <1>1, <1>2, <1>3, <1>4, LoggerMoves

\* Close cancels the posts.
LEMMA CancelKeeps ==
    ASSUME AuditInv, Cancel
    PROVE  AuditInv'
<1>1. logger \in Loggers /\ file \in FileStates
  BY DEF AuditInv, AuditTypeOK
<1>2. logger' \in Loggers /\ logger'.kind = logger.kind
  BY <1>1 DEF Cancel, Loggers
<1>3. ~Late /\ UNCHANGED <<emitting, ch, worker, file, fate, tardy>> /\ Same(file')
  BY DEF Cancel, Late, Same
<1>4. (Deaf' => Deaf) /\ Sinks'
  <2>1. /\ logger'.state # "closed" /\ (logger'.state = "cancelled" => logger.kind = "webhook")
        /\ logger'.dead = logger.dead
        /\ logger'.deadPath = logger.deadPath /\ Sinks
    BY <1>1 DEF Cancel, Loggers, AuditInv
  <2>2. QED
    BY <1>2, <1>3, <2>1 DEF Deaf, Sinks
<1>5. QED
  BY <1>1, <1>2, <1>3, <1>4, LoggerMoves

\* Close of the stdout sink reports what is still held, and may be the first of
\* two that do.
LEMMA CloseReturnsKeeps ==
    ASSUME AuditInv, CloseReturns
    PROVE  AuditInv'
<1>0. AuditTypeOK /\ Working /\ Queued /\ Told /\ Recorded /\ Disk /\ Sinks
  BY DEF AuditInv
<1>1. logger \in Loggers /\ file \in FileStates /\ fate \in [Events -> Seq(Outcomes)]
  BY <1>0 DEF AuditTypeOK
<1>2. /\ logger' \in Loggers /\ logger'.kind = logger.kind /\ logger'.spent = logger.spent
      /\ logger'.state = "closed"
  BY <1>1 DEF CloseReturns, Loggers
<1>3. file' \in FileStates /\ Same(file')
  BY <1>1 DEF CloseReturns, FileStates, Same
<1>4. ~Late /\ UNCHANGED <<emitting, worker, tardy>>
  BY DEF CloseReturns, Late
<1>5. Disk' /\ Lines(file') = Lines(file) /\ Sinks'
  <2>1. Disk' /\ Lines(file') = Lines(file)
    BY <1>0, <1>3, SameIs
  <2>2. logger'.dead = logger.dead /\ logger'.deadPath = logger.deadPath
    BY <1>1 DEF CloseReturns, Loggers
  <2>3. QED
    BY <1>0, <1>2, <2>1, <2>2 DEF Sinks
<1>6. CASE (logger.state = "cancelled" \/ worker.at = "exited") /\ UNCHANGED <<ch, fate>>
  <2>1. CASE worker.at = "exited" \/ logger.kind # "otlp"
    <3>1. Deaf' => Deaf
      BY <1>2, <1>4, <2>1 DEF Deaf
    <3>2. QED
      BY <1>2, <1>3, <1>4, <1>5, <1>6, <3>1, LoggerMoves
  <2>2. CASE ~(worker.at = "exited" \/ logger.kind # "otlp")
    BY <1>0, <1>6, <2>2 DEF Sinks
  <2>3. QED
    BY <2>1, <2>2
<1>7. CASE logger.spent /\ logger.kind = "stdout" /\ Drops(ToSet(ch) \cup ToSet(worker.batch)) /\ UNCHANGED ch
  <2>1. fate' = Report(Held, "dropped") /\ "dropped" \in Outcomes
    BY <1>7 DEF Drops, Held, Outcomes
  <2>2. /\ fate' \in [Events -> Seq(Outcomes)]
        /\ \A e \in Events \cap Held : fate'[e] = Append(fate[e], "dropped")
        /\ \A e \in Events \ Held : fate'[e] = fate[e]
    BY <1>1, <2>1, ReportIs
  <2>3. AuditTypeOK' /\ Working' /\ Queued'
    BY <1>0, <1>2, <1>3, <1>4, <1>7, <2>2 DEF AuditTypeOK, Working, Queued, Deaf
  <2>4. Held' = Held /\ Extra = 0 /\ Extra' = 1
    BY <1>2, <1>4, <1>7 DEF Held, Extra, Late
  <2>5. ASSUME NEW e \in Events PROVE Fit(e, emitting'[e], Held', fate'[e], Extra')
    <3>1. PICK f : f = fate[e]
      OBVIOUS
    <3>2. Fit(e, emitting[e], Held, f, 0) /\ f \in Seq(Outcomes)
      BY <1>0, <1>1, <2>4, <3>1 DEF Told
    <3>3. Len(f) \in Nat
      BY <3>2
    <3>4. CASE e \in Held
      <4>1. PICK g : g = Append(f, "dropped")
        OBVIOUS
      <4>2. Len(g) = Len(f) + 1 /\ g # <<>>
        BY <2>1, <3>2, <4>1
      <4>3. Fit(e, emitting[e], Held, g, 1)
        BY <3>2, <3>3, <3>4, <4>2 DEF Fit
      <4>4. QED
        BY <1>4, <2>2, <2>4, <3>1, <3>4, <4>1, <4>3
    <3>5. CASE e \notin Held
      <4>1. Fit(e, emitting[e], Held, f, 1)
        BY <3>2, <3>3, <3>5 DEF Fit
      <4>2. QED
        BY <1>4, <2>2, <2>4, <3>1, <3>5, <4>1
    <3>6. QED
      BY <3>4, <3>5
  <2>6. Recorded'
    <3>1. ToSet(ch) \in SUBSET Events /\ ToSet(worker.batch) \in SUBSET Events
      BY <1>0 DEF AuditTypeOK, Workers, ToSet
    <3>2. Held \in SUBSET Events
      BY <3>1 DEF Held
    <3>3. ~OnFile(logger.kind, "dropped")
      BY DEF OnFile
    <3>4. Lines(file') = Lines(file) \cup {e \in Held : OnFile(logger.kind, "dropped")}
      BY <1>5, <3>3
    <3>5. QED
      BY <1>0, <1>1, <1>2, <2>1, <3>2, <3>4, RecordedReport
  <2>7. QED
    BY <1>5, <2>3, <2>5, <2>6 DEF AuditInv, Told
<1>8. CASE logger.kind = "otlp" /\ fate' = Report(ToSet(ch), "unseen") /\ ch' = <<>>
  <2>1. "unseen" \in Outcomes /\ ToSet(ch) \in SUBSET Events /\ ToSet(ch') = {} /\ Len(ch') = 0
        /\ ch' \in Seq(Events) /\ Distinct(ch')
    BY <1>0, <1>8, EmptyIs DEF Outcomes, AuditTypeOK, ToSet
  <2>2. fate' \in [Events -> Seq(Outcomes)]
    BY <1>1, <1>8, <2>1, ReportIs
  <2>3. AuditTypeOK'
    <3>1. Len(ch') <= BufferSize
      BY <2>1, AuditAssumption
    <3>2. QED
      BY <1>0, <1>2, <1>3, <1>4, <2>1, <2>2, <3>1 DEF AuditTypeOK
  <2>4. Working' /\ Queued'
    BY <1>0, <1>4, <2>1 DEF Working, Queued
  <2>5. Held' = Held \ ToSet(ch) /\ Extra' = Extra
    BY <1>0, <1>2, <1>4, <1>8, <2>1 DEF Held, Queued, Extra, Late
  <2>6. Told'
    <3>1. \A e \in ToSet(ch) : emitting'[e] = "done" /\ (emitting[e] # "done" \/ e \in Held)
      BY <1>0, <1>4, <2>1 DEF Told, Fit, Held
    <3>2. QED
      BY <1>0, <1>1, <1>4, <1>8, <2>1, <2>5, <3>1, ToldReport
  <2>7. Recorded'
    <3>1. ~OnFile(logger.kind, "unseen")
      BY DEF OnFile
    <3>2. Lines(file') = Lines(file) \cup {e \in ToSet(ch) : OnFile(logger.kind, "unseen")}
      BY <1>5, <3>1
    <3>3. QED
      BY <1>0, <1>1, <1>2, <1>8, <2>1, <3>2, RecordedReport
  <2>8. QED
    BY <1>5, <2>3, <2>4, <2>6, <2>7 DEF AuditInv
<1>9. QED
  BY <1>6, <1>7, <1>8 DEF CloseReturns

\* The steps of the worker that keep its batch.
LEMMA WorkerGoesKeeps ==
    ASSUME AuditInv, BeginDrain \/ Leave \/ PostFails \/ Backoff
    PROVE  AuditInv'
<1>0. Working /\ worker \in Workers /\ MaxAttempts \in Nat
  BY AuditAssumption DEF AuditInv, AuditTypeOK
<1>1. CASE BeginDrain
  <2>1. worker' \in Workers /\ worker'.batch = worker.batch /\ worker'.at = worker.at /\ worker'.draining = "yes"
    BY <1>0, <1>1 DEF BeginDrain, Workers
  <2>2. Working'
    BY <1>0, <1>1, <2>1 DEF BeginDrain, Working, Deaf
  <2>3. QED
    BY <1>1, <2>1, <2>2, WorkerMoves DEF BeginDrain
<1>2. CASE Leave
  <2>1. /\ worker' \in Workers /\ worker'.batch = worker.batch /\ worker'.at = "exited"
        /\ worker'.draining = worker.draining
    BY <1>0, <1>2 DEF Leave, Goes, Workers
  <2>2. ToSet(ch') = {}
    BY <1>2, EmptyIs DEF Leave
  <2>3. Working'
    BY <1>0, <1>2, <2>1, <2>2 DEF Leave, Working
  <2>4. QED
    BY <1>2, <2>1, <2>3, WorkerMoves DEF Leave
<1>3. CASE PostFails
  <2>1. /\ worker' \in Workers /\ worker'.batch = worker.batch
        /\ worker'.at = "abandon" \/ (worker'.at = "backoff" /\ worker.attempt < MaxAttempts)
        /\ worker'.draining = worker.draining /\ worker'.attempt = worker.attempt
    BY <1>0, <1>3 DEF PostFails, Goes, Workers
  <2>2. Working'
    BY <1>0, <1>3, <2>1 DEF PostFails, Working, Deaf
  <2>3. QED
    BY <1>3, <2>1, <2>2, WorkerMoves DEF PostFails
<1>4. CASE Backoff
  <2>1. worker.attempt \in Nat /\ worker.attempt < MaxAttempts /\ worker.draining # "last"
    BY <1>0, <1>4 DEF Backoff, Working, Workers
  <2>2. PICK n \in 0..MaxAttempts : n = worker.attempt + 1
    BY <1>0, <2>1
  <2>3. worker' = [worker EXCEPT !.at = "deliver", !.attempt = n] \/ worker' = [worker EXCEPT !.at = "abandon"]
    BY <1>4, <2>2 DEF Backoff, Goes
  <2>4. /\ worker' \in Workers /\ worker'.batch = worker.batch
        /\ worker'.at \in {"deliver", "abandon"} /\ worker'.draining = worker.draining
    BY <1>0, <2>2, <2>3 DEF Workers
  <2>5. Working'
    BY <1>0, <1>4, <2>1, <2>4 DEF Backoff, Working, Deaf
  <2>6. QED
    BY <1>4, <2>4, <2>5, WorkerMoves DEF Backoff
<1>5. QED
  BY <1>1, <1>2, <1>3, <1>4

\* The worker takes events from the front of the buffer: all that were held are.
LEMMA WorkerTakes ==
    ASSUME AuditInv, worker.at = "idle", UNCHANGED <<logger, emitting, file, fate, tardy>>,
           worker' \in Workers, Working', NEW n \in 0..Len(ch),
           worker'.batch = SubSeq(ch, 1, n), ch' = SubSeq(ch, n + 1, Len(ch))
    PROVE  AuditInv'
<1>0. AuditTypeOK /\ Working /\ Queued /\ Told /\ Recorded /\ Disk /\ ch \in Seq(Events) /\ Len(ch) \in Nat
  BY DEF AuditInv, AuditTypeOK
<1>1. PICK a : a = SubSeq(ch, 1, n)
  OBVIOUS
<1>2. PICK b : b = SubSeq(ch, n + 1, Len(ch))
  OBVIOUS
<1>3. /\ a \in Seq(Events) /\ b \in Seq(Events) /\ Len(a) = n /\ Len(b) = Len(ch) - n
      /\ ToSet(ch) = ToSet(a) \cup ToSet(b) /\ Distinct(a) /\ Distinct(b) /\ ToSet(a) \cap ToSet(b) = {}
  BY <1>0, <1>1, <1>2, SplitIs DEF Queued
<1>4. worker'.batch = a /\ ch' = b
  BY <1>1, <1>2
<1>5. worker.batch = <<>>
  BY <1>0 DEF Working
<1>6. Held' = Held /\ Extra' = Extra
  BY <1>3, <1>4, <1>5, EmptyIs DEF Held, Extra, Late
<1>7. Queued'
  BY <1>3, <1>4 DEF Queued
<1>8. Len(a) <= BatchSize + BufferSize /\ Len(b) <= BufferSize
  BY <1>0, <1>3, AuditAssumption DEF AuditTypeOK
<1>9. AuditTypeOK'
  BY <1>0, <1>3, <1>4, <1>8 DEF AuditTypeOK
<1>10. Told' /\ Recorded' /\ Disk' /\ Sinks'
  BY <1>0, <1>6 DEF Told, Recorded, Disk, Sinks, AuditInv
<1>11. QED
  BY <1>7, <1>9, <1>10 DEF AuditInv

\* The worker receives and collects.
LEMMA ReceiveKeeps ==
    ASSUME AuditInv, Receive
    PROVE  AuditInv'
<1>0. Working /\ worker \in Workers /\ ch \in Seq(Events) /\ Len(ch) \in Nat /\ Len(ch) >= 1
  BY DEF AuditInv, AuditTypeOK, Receive
<1>1. PICK n \in 1..Len(ch) :
         n = IF logger.kind = "stdout" \/ Len(ch) = 1 THEN 1
             ELSE IF Len(ch) < BatchSize THEN Len(ch) ELSE BatchSize
  BY <1>0, AuditAssumption
<1>2. PICK a : a = SubSeq(ch, 1, n)
  OBVIOUS
<1>3. a \in Seq(Events) /\ 1 \in 0..MaxAttempts
  BY <1>0, <1>2, AuditAssumption
<1>4. worker' = [worker EXCEPT !.at = "deliver", !.batch = a, !.attempt = 1]
  BY <1>1, <1>2 DEF Receive
<1>5. worker' \in Workers /\ worker'.batch = a /\ worker'.at = "deliver" /\ worker'.draining = worker.draining
  BY <1>0, <1>3, <1>4 DEF Workers
<1>6. ch' = SubSeq(ch, n + 1, Len(ch)) /\ worker.at = "idle" /\ UNCHANGED <<logger, emitting, file, fate, tardy>>
  BY <1>1 DEF Receive
<1>7. Working'
  BY <1>0, <1>5, <1>6 DEF Receive, Working, Deaf
<1>8. n \in 0..Len(ch)
  BY <1>0, <1>1
<1>9. QED
  BY <1>2, <1>5, <1>6, <1>7, <1>8, WorkerTakes

\* The worker gives up on the whole buffer.
LEMMA AbandonRestKeeps ==
    ASSUME AuditInv, AbandonRest
    PROVE  AuditInv'
<1>0. Working /\ worker \in Workers /\ ch \in Seq(Events) /\ Len(ch) \in Nat
  BY DEF AuditInv, AuditTypeOK
<1>1. worker' = [worker EXCEPT !.at = "abandon", !.batch = ch, !.draining = "last"]
  BY DEF AbandonRest
<1>2. worker' \in Workers /\ worker'.batch = ch /\ worker'.at = "abandon"
  BY <1>0, <1>1 DEF Workers
<1>3. ToSet(ch') = {} /\ ch' = <<>> /\ worker.at = "idle" /\ UNCHANGED <<logger, emitting, file, fate, tardy>>
  BY EmptyIs DEF AbandonRest
<1>4. Working'
  BY <1>2, <1>3 DEF Working
<1>5. ch = SubSeq(ch, 1, Len(ch)) /\ <<>> = SubSeq(ch, Len(ch) + 1, Len(ch)) /\ Len(ch) \in 0..Len(ch)
  BY <1>0
<1>6. QED
  BY <1>2, <1>3, <1>4, <1>5, WorkerTakes

\* abandon hands on the events of the batch one by one.
LEMMA AbandonKeeps ==
    ASSUME AuditInv, logger.kind # "file", Abandon
    PROVE  AuditInv'
<1>0. AuditTypeOK /\ Working /\ Queued /\ Told /\ Recorded /\ Disk /\ Sinks
  BY DEF AuditInv
<1>1. /\ worker \in Workers /\ worker.batch \in Seq(Events) /\ fate \in [Events -> Seq(Outcomes)]
      /\ file \in FileStates /\ worker.at = "abandon" /\ UNCHANGED <<logger, emitting, ch, tardy>>
  BY <1>0 DEF AuditTypeOK, Workers, Abandon
<1>2. CASE worker.batch = <<>> /\ Done /\ UNCHANGED <<file, fate>>
  <2>1. PICK at \in {"exited", "idle"} : at = IF worker.draining = "last" THEN "exited" ELSE "idle"
    OBVIOUS
  <2>2. 0 \in 0..MaxAttempts /\ <<>> \in Seq(Events)
    BY AuditAssumption
  <2>3. worker' = [worker EXCEPT !.at = at, !.batch = <<>>, !.attempt = 0]
    BY <1>2, <2>1 DEF Done
  <2>4. /\ worker' \in Workers /\ worker'.batch = worker.batch /\ worker'.at = at
        /\ worker'.draining = worker.draining
    BY <1>1, <1>2, <2>1, <2>2, <2>3 DEF Workers
  <2>5. Working'
    BY <1>0, <1>1, <1>2, <2>1, <2>4 DEF Working, Deaf
  <2>6. QED
    BY <1>1, <1>2, <2>4, <2>5, WorkerMoves
<1>3. CASE Drops(ToSet(worker.batch)) /\ Done /\ UNCHANGED file
  <2>1. fate' = Report(ToSet(worker.batch), "dropped") /\ "dropped" \in Outcomes /\ ~OnFile(logger.kind, "dropped")
    BY <1>3 DEF Drops, Outcomes, OnFile
  <2>2. QED
    BY <1>1, <1>3, <2>1, WorkerReports
<1>4. ASSUME NEW o \in {"dead_lettered", "dropped"}, worker.batch # <<>>, fate' = Report({Head(worker.batch)}, o),
             o = "dead_lettered" => WriteLine(Head(worker.batch)), o = "dropped" => WriteFails, logger.dead,
             worker' = [worker EXCEPT !.batch = Tail(@)]
      PROVE  AuditInv'
  <2>1. PICK h \in Events : h = Head(worker.batch)
    BY <1>1, <1>4, TailIs
  <2>2. PICK t \in Seq(Events) : t = Tail(worker.batch)
    BY <1>1, <1>4, TailIs
  <2>3. /\ ToSet(worker.batch) = {h} \cup ToSet(t) /\ Distinct(t) /\ h \notin ToSet(t)
        /\ Len(t) = Len(worker.batch) - 1
    BY <1>0, <1>1, <1>4, <2>1, <2>2, TailIs DEF Queued
  <2>4. worker' \in Workers /\ worker'.batch = t /\ worker'.at = "abandon" /\ worker'.draining = worker.draining
    <3>1. worker' = [worker EXCEPT !.batch = t]
      BY <1>4, <2>2
    <3>2. QED
      BY <1>1, <3>1 DEF Workers
  <2>5. fate' = Report({h}, o) /\ o \in Outcomes /\ {h} \in SUBSET Events
    BY <1>4, <2>1 DEF Outcomes
  <2>6. fate' \in [Events -> Seq(Outcomes)]
    BY <1>1, <2>5, ReportIs
  <2>7. /\ file' \in FileStates /\ Disk'
        /\ Lines(file') = Lines(file) \cup {e \in {h} : OnFile(logger.kind, o)}
    <3>1. CASE o = "dead_lettered"
      <4>1. h \notin Lines(file)
        <5>1. h \in Held /\ Extra = 0
          BY <1>0, <1>4, <2>3 DEF Held, Extra, Late, Sinks
        <5>2. fate[h] \in Seq(Outcomes) /\ Len(fate[h]) <= 0
          BY <1>0, <1>1, <5>1 DEF Told, Fit
        <5>3. fate[h] = <<>>
          BY <5>2
        <5>4. ToSet(fate[h]) = {}
          BY <5>3, EmptyIs
        <5>5. QED
          BY <1>0, <5>4 DEF Recorded
      <4>2. file' \in FileStates /\ Disk' /\ Lines(file') = Lines(file) \cup {h}
        BY <1>0, <1>1, <1>4, <2>1, <3>1, <4>1, WriteLineIs
      <4>3. OnFile(logger.kind, o)
        BY <3>1 DEF OnFile
      <4>4. QED
        BY <4>2, <4>3
    <3>2. CASE o = "dropped"
      <4>1. file' \in FileStates /\ Disk' /\ Lines(file') = Lines(file)
        BY <1>0, <1>1, <1>4, <3>2, WriteFailsIs
      <4>2. ~OnFile(logger.kind, o)
        BY <3>2 DEF OnFile
      <4>3. QED
        BY <4>1, <4>2
    <3>3. QED
      BY <3>1, <3>2
  <2>8. AuditTypeOK'
    <3>1. Len(worker.batch) \in Nat /\ Len(t) <= Len(worker.batch) /\ Len(t) \in Nat
      BY <1>1, <2>3
    <3>2. Len(t) <= BatchSize + BufferSize
      BY <1>0, <3>1, AuditAssumption DEF AuditTypeOK
    <3>3. QED
      BY <1>0, <1>1, <2>4, <2>6, <2>7, <3>2 DEF AuditTypeOK
  <2>9. Working' /\ Queued' /\ Sinks'
    BY <1>0, <1>1, <2>3, <2>4 DEF Working, Queued, Deaf, Sinks
  <2>10. h \in Held /\ Held' = Held \ {h} /\ Extra' = Extra
    BY <1>0, <1>1, <2>3, <2>4 DEF Held, Queued, Extra, Late
  <2>11. Told'
    <3>1. \A e \in {h} : emitting'[e] = "done" /\ (emitting[e] # "done" \/ e \in Held)
      BY <1>0, <1>1, <2>10 DEF Told, Fit
    <3>2. QED
      BY <1>0, <1>1, <2>5, <2>10, <3>1, ToldReport
  <2>12. Recorded'
    BY <1>0, <1>1, <1>4, <2>5, <2>7, RecordedReport
  <2>13. QED
    BY <2>7, <2>8, <2>9, <2>11, <2>12 DEF AuditInv
<1>5. CASE /\ worker.batch # <<>> /\ logger.dead /\ worker' = [worker EXCEPT !.batch = Tail(@)]
           /\ \/ WriteLine(Head(worker.batch)) /\ fate' = Report({Head(worker.batch)}, "dead_lettered")
              \/ WriteFails /\ Drops({Head(worker.batch)})
  <2>1. CASE WriteLine(Head(worker.batch)) /\ fate' = Report({Head(worker.batch)}, "dead_lettered")
    BY <1>4, <1>5, <2>1
  <2>2. CASE WriteFails /\ Drops({Head(worker.batch)})
    <3>1. fate' = Report({Head(worker.batch)}, "dropped")
      BY <2>2 DEF Drops
    <3>2. QED
      BY <1>4, <1>5, <2>2, <3>1
  <2>3. QED
    BY <1>5, <2>1, <2>2
<1>6. QED
  BY <1>2, <1>3, <1>5, Zenon DEF Abandon

\* Every step of the worker keeps AuditInv.
LEMMA WorkerKeeps ==
    ASSUME AuditInv, logger.kind # "file", WorkerStep
    PROVE  AuditInv'
<1>1. CASE Deliver \/ DropBatch
  <2>1. PICK o \in {"delivered", "dropped"} : fate' = Report(ToSet(worker.batch), o)
    BY <1>1 DEF Deliver, DropBatch, Drops
  <2>2. o \in Outcomes /\ ~OnFile(logger.kind, o) /\ o # "unseen"
    BY <2>1 DEF Outcomes, OnFile
  <2>3. worker.at = "deliver" /\ Done /\ UNCHANGED <<logger, emitting, ch, file, tardy>>
    BY <1>1 DEF Deliver, DropBatch
  <2>4. QED
    BY <2>1, <2>2, <2>3, WorkerReports
<1>2. QED
  BY <1>1, WorkerGoesKeeps, ReceiveKeeps, AbandonRestKeeps, AbandonKeeps DEF WorkerStep

\* An Emit that reports at once: the event never was in the buffer.
LEMMA EmitKeeps ==
    ASSUME AuditInv, NEW e \in Events, Emit(e)
    PROVE  AuditInv'
<1>0. AuditTypeOK /\ Working /\ Queued /\ Told /\ Recorded /\ Disk /\ Sinks
  BY DEF AuditInv
<1>1. /\ emitting \in [Events -> {"new", "sending", "done"}] /\ fate \in [Events -> Seq(Outcomes)]
      /\ file \in FileStates /\ UNCHANGED <<logger, ch, worker, tardy>> /\ emitting[e] = "new"
  BY <1>0 DEF AuditTypeOK, Emit
<1>2. Held' = Held /\ Extra' = Extra /\ e \notin Held
  BY <1>0, <1>1 DEF Held, Extra, Late, Told, Fit
<1>3. ASSUME NEW o \in {"delivered", "dropped", "unseen"}, fate' = Report({e}, o),
             o = "unseen" => logger.kind = "otlp",
             emitting' = [emitting EXCEPT ![e] = "done"], file' \in FileStates, Disk',
             Lines(file') = Lines(file) \cup {x \in {e} : OnFile(logger.kind, o)}
      PROVE  AuditInv'
  <2>1. o \in Outcomes /\ {e} \in SUBSET Events
    BY DEF Outcomes
  <2>2. fate' \in [Events -> Seq(Outcomes)]
    BY <1>1, <1>3, <2>1, ReportIs
  <2>3. AuditTypeOK' /\ Working' /\ Queued' /\ Sinks'
    BY <1>0, <1>1, <1>3, <2>2 DEF AuditTypeOK, Working, Queued, Deaf, Sinks
  <2>4. Told'
    <3>1. \A x \in {e} : emitting'[x] = "done" /\ (emitting[x] # "done" \/ x \in Held)
      BY <1>1, <1>3
    <3>2. \A x \in Events \ {e} : emitting'[x] = emitting[x]
      BY <1>1, <1>3
    <3>3. Held' = Held \ {e}
      BY <1>2
    <3>4. QED
      BY <1>0, <1>1, <1>2, <1>3, <2>1, <3>1, <3>2, <3>3, ToldReport
  <2>5. Recorded'
    BY <1>0, <1>1, <1>3, <2>1, RecordedReport
  <2>6. QED
    BY <1>3, <2>3, <2>4, <2>5 DEF AuditInv
<1>4. CASE logger.kind = "file" /\ WriteLine(e) /\ fate' = Report({e}, "delivered")
           /\ emitting' = [emitting EXCEPT ![e] = "done"]
  <2>1. e \notin Lines(file)
    <3>1. fate[e] = <<>>
      BY <1>0, <1>1 DEF Told, Fit
    <3>2. ToSet(fate[e]) = {}
      BY <3>1, EmptyIs
    <3>3. QED
      BY <1>0, <3>2 DEF Recorded
  <2>2. file' \in FileStates /\ Disk' /\ Lines(file') = Lines(file) \cup {e}
    BY <1>0, <1>1, <1>4, <2>1, WriteLineIs
  <2>3. OnFile(logger.kind, "delivered")
    BY <1>4 DEF OnFile
  <2>4. Lines(file') = Lines(file) \cup {x \in {e} : OnFile(logger.kind, "delivered")}
    BY <2>2, <2>3
  <2>5. QED
    BY <1>3, <1>4, <2>2, <2>4
<1>5. ASSUME NEW o \in {"dropped", "unseen"}, WriteFails, fate' = Report({e}, o),
             o = "unseen" => logger.kind = "otlp", emitting' = [emitting EXCEPT ![e] = "done"]
      PROVE  AuditInv'
  <2>1. file' \in FileStates /\ Disk' /\ Lines(file') = Lines(file)
    BY <1>0, <1>1, <1>5, WriteFailsIs
  <2>2. ~OnFile(logger.kind, o)
    BY DEF OnFile
  <2>3. Lines(file') = Lines(file) \cup {x \in {e} : OnFile(logger.kind, o)}
    BY <2>1, <2>2
  <2>4. QED
    BY <1>3, <1>5, <2>1, <2>3
<1>6. CASE emitting' = [emitting EXCEPT ![e] = "sending"] /\ UNCHANGED <<file, fate>>
  <2>1. AuditTypeOK' /\ Working' /\ Queued' /\ Recorded' /\ Disk' /\ Sinks'
    BY <1>0, <1>1, <1>6 DEF AuditTypeOK, Working, Queued, Recorded, Disk, Deaf, Sinks
  <2>2. Told'
    BY <1>0, <1>1, <1>2, <1>6 DEF Told, Fit
  <2>3. QED
    BY <2>1, <2>2 DEF AuditInv
<1>7. CASE /\ UNCHANGED file /\ emitting' = [emitting EXCEPT ![e] = "done"]
           /\ fate' = Report({e}, IF logger.kind = "otlp" THEN "unseen" ELSE "dropped")
  <2>1. WriteFails
    BY <1>7 DEF WriteFails
  <2>2. PICK o \in {"dropped", "unseen"} : o = IF logger.kind = "otlp" THEN "unseen" ELSE "dropped"
    OBVIOUS
  <2>3. o = "unseen" => logger.kind = "otlp"
    BY <2>2
  <2>4. QED
    BY <1>5, <1>7, <2>1, <2>2, <2>3
<1>8. CASE WriteFails /\ fate' = Report({e}, "dropped") /\ emitting' = [emitting EXCEPT ![e] = "done"]
  <2>1. "dropped" \in {"dropped", "unseen"} /\ ("dropped" = "unseen" => logger.kind = "otlp")
    OBVIOUS
  <2>2. QED
    BY <1>5, <1>8, <2>1
<1>9. QED
  BY <1>4, <1>6, <1>7, <1>8, Zenon DEF Emit

\* A send enters the buffer, or is reported as dropped.
LEMMA SendKeeps ==
    ASSUME AuditInv, NEW e \in Events, Send(e)
    PROVE  AuditInv'
<1>0. AuditTypeOK /\ Working /\ Queued /\ Told /\ Recorded /\ Disk /\ Sinks
  BY DEF AuditInv
<1>1. /\ emitting \in [Events -> {"new", "sending", "done"}] /\ fate \in [Events -> Seq(Outcomes)]
      /\ UNCHANGED <<logger, worker, file>> /\ emitting[e] = "sending"
      /\ emitting' = [emitting EXCEPT ![e] = "done"] /\ ch \in Seq(Events) /\ Len(ch) \in Nat
  BY <1>0 DEF AuditTypeOK, Send
<1>2. Extra' = Extra /\ e \notin Held
  BY <1>0, <1>1 DEF Extra, Late, Told, Fit
<1>3. CASE Len(ch) < BufferSize
  <2>1. PICK c : c = Append(ch, e)
    OBVIOUS
  <2>2. /\ c \in Seq(Events) /\ Len(c) = Len(ch) + 1 /\ ToSet(c) = ToSet(ch) \cup {e}
        /\ Distinct(ch) /\ e \notin ToSet(ch) => Distinct(c)
    BY <1>1, <2>1, AppendIs
  <2>3. /\ ch' = c /\ UNCHANGED fate
        /\ tardy' = IF Deaf \/ worker.draining = "last" THEN tardy \cup {e} ELSE tardy
    BY <1>1, <1>3, <2>1, AuditAssumption DEF Send
  <2>4. Len(c) <= BufferSize
    BY <1>1, <1>3, <2>2, AuditAssumption
  <2>5. AuditTypeOK'
    BY <1>0, <1>1, <2>2, <2>3, <2>4 DEF AuditTypeOK
  <2>6. Working' /\ Queued' /\ Recorded' /\ Disk' /\ Sinks'
    <3>1. Deaf' = Deaf
      BY <1>1 DEF Deaf
    <3>2. QED
      BY <1>0, <1>1, <1>2, <2>2, <2>3, <3>1 DEF Working, Queued, Recorded, Disk, Held, Sinks
  <2>7. Held' = Held \cup {e}
    BY <1>1, <2>2, <2>3 DEF Held
  <2>8. ASSUME NEW x \in Events PROVE Fit(x, emitting'[x], Held', fate'[x], Extra')
    <3>1. Fit(x, emitting[x], Held, fate[x], Extra)
      BY <1>0 DEF Told
    <3>2. CASE x = e
      <4>1. fate[x] = <<>> /\ Len(<<>>) = 0 /\ Extra \in {0, 1}
        BY <1>1, <3>1, <3>2 DEF Fit, Extra
      <4>2. Fit(x, "done", Held', <<>>, Extra)
        BY <2>7, <3>2, <4>1 DEF Fit
      <4>3. QED
        BY <1>1, <1>2, <2>3, <3>2, <4>1, <4>2
    <3>3. CASE x # e
      <4>1. emitting'[x] = emitting[x] /\ (x \in Held' <=> x \in Held)
        BY <1>1, <2>7, <3>3
      <4>2. QED
        BY <1>2, <2>3, <3>1, <4>1 DEF Fit
    <3>4. QED
      BY <3>2, <3>3
  <2>9. QED
    BY <2>5, <2>6, <2>8 DEF AuditInv, Told
<1>4. CASE Len(ch) = BufferSize /\ logger.kind # "otlp"
  <2>1. fate' = Report({e}, "dropped") /\ UNCHANGED ch /\ "dropped" \in Outcomes
        /\ {e} \in SUBSET Events
    BY <1>4, AuditAssumption DEF Send, Outcomes
  <2>2. fate' \in [Events -> Seq(Outcomes)]
    BY <1>1, <2>1, ReportIs
  <2>3. AuditTypeOK' /\ Working' /\ Queued' /\ Disk' /\ Sinks'
    <3>1. tardy \subseteq tardy' /\ tardy' \subseteq Events /\ Deaf' = Deaf
      BY <1>0, <1>1 DEF Send, Deaf, AuditTypeOK
    <3>2. QED
      BY <1>0, <1>1, <2>1, <2>2, <3>1 DEF AuditTypeOK, Working, Queued, Disk, Sinks
  <2>4. Told'
    <3>1. \A x \in {e} : emitting'[x] = "done" /\ (emitting[x] # "done" \/ x \in Held)
      BY <1>1
    <3>2. \A x \in Events \ {e} : emitting'[x] = emitting[x]
      BY <1>1
    <3>3. Held' = Held \ {e}
      BY <1>1, <1>2, <2>1 DEF Held
    <3>4. QED
      BY <1>0, <1>1, <1>2, <2>1, <3>1, <3>2, <3>3, ToldReport
  <2>5. Recorded'
    <3>1. ~OnFile(logger.kind, "dropped")
      BY DEF OnFile
    <3>2. Lines(file') = Lines(file) \cup {x \in {e} : OnFile(logger.kind, "dropped")}
      BY <1>1, <3>1
    <3>3. QED
      BY <1>0, <1>1, <2>1, <3>2, RecordedReport
  <2>6. QED
    BY <2>3, <2>4, <2>5 DEF AuditInv
<1>5. CASE Len(ch) = BufferSize /\ logger.kind = "otlp"
  <2>0. ch # <<>>
    BY <1>1, <1>5, AuditAssumption
  <2>1. PICK h \in Events : h = Head(ch)
    BY <1>1, <2>0, TailIs
  <2>2. PICK t \in Seq(Events) : t = Tail(ch)
    BY <1>1, <2>0, TailIs
  <2>3. ToSet(ch) = {h} \cup ToSet(t) /\ Distinct(t) /\ h \notin ToSet(t) /\ Len(t) = Len(ch) - 1
    BY <1>0, <1>1, <2>0, <2>1, <2>2, TailIs DEF Queued
  <2>4. PICK c : c = Append(t, e)
    OBVIOUS
  <2>5. /\ c \in Seq(Events) /\ Len(c) = Len(t) + 1 /\ ToSet(c) = ToSet(t) \cup {e}
        /\ Distinct(t) /\ e \notin ToSet(t) => Distinct(c)
    BY <2>4, AppendIs
  <2>6. fate' = Report({h}, "unseen") /\ ch' = c /\ "unseen" \in Outcomes /\ {h} \in SUBSET Events
        /\ tardy' = IF Deaf \/ worker.draining = "last" THEN tardy \cup {e} ELSE tardy
    <3>1. ~(Len(ch) < BufferSize)
      BY <1>1, <1>5
    <3>2. fate' = Report({Head(ch)}, "unseen") /\ ch' = Append(Tail(ch), e)
      BY <1>5, <3>1 DEF Send
    <3>3. "unseen" \in Outcomes
      BY DEF Outcomes
    <3>4. tardy' = IF Deaf \/ worker.draining = "last" THEN tardy \cup {e} ELSE tardy
      BY Zenon DEF Send
    <3>5. QED
      BY <2>1, <2>2, <2>4, <3>2, <3>3, <3>4
  <2>7. e \notin ToSet(ch) /\ e \notin ToSet(worker.batch) /\ e # h
    BY <1>2, <2>3 DEF Held
  <2>8. /\ fate' \in [Events -> Seq(Outcomes)] /\ fate'[h] = Append(fate[h], "unseen")
        /\ \A x \in Events \ {h} : fate'[x] = fate[x]
    <3>1. \A x \in Events : fate[x] \in Seq(Outcomes)
      BY <1>1
    <3>2. fate' = [x \in Events |-> IF x \in {h} THEN Append(fate[x], "unseen") ELSE fate[x]]
      BY <2>6 DEF Report
    <3>3. \A x \in Events : Append(fate[x], "unseen") \in Seq(Outcomes)
      BY <2>6, <3>1
    <3>4. QED
      BY <3>1, <3>2, <3>3
  <2>9. AuditTypeOK'
    <3>1. Len(c) <= BufferSize /\ tardy' \subseteq Events
      BY <1>0, <1>1, <1>5, <2>3, <2>5, <2>6, AuditAssumption DEF AuditTypeOK
    <3>2. QED
      BY <1>0, <1>1, <2>5, <2>6, <2>8, <3>1 DEF AuditTypeOK
  <2>10. Working' /\ Queued' /\ Disk' /\ Sinks'
    <3>1. Deaf' = Deaf
      BY <1>1 DEF Deaf
    <3>2. Queued'
      BY <1>0, <1>1, <2>3, <2>5, <2>6, <2>7 DEF Queued
    <3>3. QED
      BY <1>0, <1>1, <2>3, <2>5, <2>6, <3>1, <3>2 DEF Working, Disk, Sinks
  <2>11. Held' = (Held \ {h}) \cup {e} /\ Extra = 0 /\ h \in Held
    BY <1>0, <1>1, <1>5, <2>3, <2>5, <2>6, <2>7 DEF Held, Queued, Extra, Late
  <2>12. ASSUME NEW x \in Events PROVE Fit(x, emitting'[x], Held', fate'[x], Extra')
    <3>1. Fit(x, emitting[x], Held, fate[x], 0)
      BY <1>0, <2>11 DEF Told
    <3>2. CASE x = e
      <4>1. fate[x] = <<>> /\ Len(<<>>) = 0 /\ emitting'[x] = "done"
        BY <1>1, <3>1, <3>2 DEF Fit
      <4>2. Fit(x, "done", Held', <<>>, 0)
        BY <2>11, <3>2, <4>1 DEF Fit
      <4>3. QED
        BY <1>2, <2>7, <2>8, <2>11, <3>2, <4>1, <4>2
    <3>3. CASE x = h
      <4>1. PICK f \in Seq(Outcomes) : f = fate[h]
        BY <1>1
      <4>2. PICK g : g = Append(f, "unseen")
        OBVIOUS
      <4>3. Len(f) <= 0 /\ Len(f) \in Nat /\ emitting'[x] = "done" /\ x \notin Held'
        BY <1>1, <2>7, <2>11, <3>1, <3>3, <4>1 DEF Fit
      <4>4. Len(g) = Len(f) + 1 /\ g # <<>>
        BY <2>6, <4>1, <4>2
      <4>5. Fit(x, "done", Held', g, 0)
        BY <4>3, <4>4 DEF Fit
      <4>6. QED
        BY <1>2, <2>8, <2>11, <3>3, <4>1, <4>2, <4>3, <4>5
    <3>4. CASE x # e /\ x # h
      <4>1. emitting'[x] = emitting[x] /\ fate'[x] = fate[x] /\ (x \in Held' <=> x \in Held)
        BY <1>1, <2>8, <2>11, <3>4
      <4>2. QED
        BY <1>2, <2>11, <3>1, <4>1 DEF Fit
    <3>5. QED
      BY <3>2, <3>3, <3>4
  <2>13. Recorded'
    <3>1. ~OnFile(logger.kind, "unseen")
      BY DEF OnFile
    <3>2. Lines(file') = Lines(file) \cup {x \in {h} : OnFile(logger.kind, "unseen")}
      BY <1>1, <3>1
    <3>3. QED
      BY <1>0, <1>1, <1>5, <2>6, <3>2, RecordedReport
  <2>14. QED
    BY <2>9, <2>10, <2>12, <2>13 DEF AuditInv, Told
<1>6. QED
  BY <1>0, <1>1, <1>3, <1>4, <1>5, AuditAssumption DEF AuditTypeOK

\* A new logger satisfies AuditInv.
LEMMA AuditStarts == AuditInit => AuditInv
<1>. SUFFICES ASSUME AuditInit PROVE AuditInv
  OBVIOUS
<1>1. logger \in Loggers /\ worker \in Workers
  <2>1. logger \in Loggers
    <3>1. logger \in [kind : Kinds, deadPath : BOOLEAN, requireDurable : BOOLEAN,
                     dead : {FALSE}, state : {"new"}, spent : {FALSE}]
      BY DEF AuditInit
    <3>2. QED
      BY <3>1 DEF Loggers
  <2>2. 0 \in 0..MaxAttempts /\ <<>> \in Seq(Events)
    BY AuditAssumption
  <2>3. worker = [at |-> "idle", batch |-> <<>>, attempt |-> 0, draining |-> "no"]
    BY DEF AuditInit
  <2>4. worker \in Workers
    BY <2>2, <2>3 DEF Workers
  <2>5. QED
    BY <2>1, <2>4
<1>2. /\ fate = [e \in Events |-> <<>>] /\ emitting = [e \in Events |-> "new"] /\ ch = <<>> /\ tardy = {}
      /\ worker.batch = <<>> /\ worker.at = "idle" /\ worker.draining = "no" /\ ~logger.spent
      /\ logger.state = "new"
  BY DEF AuditInit
<1>3. /\ file = [f |-> "none", files |-> [k \in 0..MaxFiles |-> {}], turn |-> 1,
                 born |-> [e \in Events |-> 0], lost |-> {}]
  BY DEF AuditInit
<1>4. file \in FileStates /\ file.turn = 1
  BY <1>3 DEF FileStates
<1>5. (\A k \in 0..MaxFiles : file.files[k] = {}) /\ (\A e \in Events : file.born[e] = 0)
  BY <1>3
<1>6. Held = {} /\ Extra = 0 /\ Len(<<>>) = 0
  BY <1>2, EmptyIs DEF Held, Extra, Late
<1>7. AuditTypeOK
  <2>1. emitting \in [Events -> {"new", "sending", "done"}] /\ fate \in [Events -> Seq(Outcomes)]
    BY <1>2
  <2>2. Len(ch) <= BufferSize /\ Len(worker.batch) <= BatchSize + BufferSize /\ ch \in Seq(Events)
    BY <1>2, <1>6, AuditAssumption
  <2>3. tardy \subseteq Events
    BY <1>2
  <2>4. QED
    BY <1>1, <1>4, <2>1, <2>2, <2>3 DEF AuditTypeOK
<1>8. Working /\ Queued /\ Recorded
  <2>1. Lines(file) = {} /\ \A e \in Events : ToSet(fate[e]) = {}
    BY <1>2, <1>5, EmptyIs DEF Lines
  <2>2. QED
    BY <1>2, <2>1, EmptyIs DEF Working, Queued, Recorded, Deaf
<1>9. Told
  BY <1>2, <1>6 DEF Told, Fit
<1>10. Disk
  BY <1>4, <1>5 DEF Disk, Sound, Aging, Kept, InOrder
<1>11. Sinks
  BY DEF AuditInit, Sinks
<1>12. QED
  BY <1>7, <1>8, <1>9, <1>10, <1>11 DEF AuditInv

\* Every step of the audit log keeps AuditInv.
LEMMA AuditNextKeeps == AuditInv /\ [AuditNext]_avars => AuditInv'
<1>. SUFFICES ASSUME AuditInv, [AuditNext]_avars PROVE AuditInv'
  OBVIOUS
<1>1. CASE UNCHANGED avars
  <2>1. Held' = Held /\ Extra' = Extra
    BY <1>1 DEF avars, Held, Extra, Late
  <2>2. QED
    BY <1>1, <2>1 DEF avars, AuditInv, AuditTypeOK, Working, Queued, Told, Recorded, Disk, Deaf, Sinks
<1>2. CASE \E opens, built \in BOOLEAN : Start(opens, built)
  BY <1>2, StartKeeps
<1>3. CASE \E e \in Events : Emit(e) \/ Send(e)
  BY <1>3, EmitKeeps, SendKeeps
<1>4. QED
  BY <1>1, <1>2, <1>3, WorkerKeeps, CloseLoggerKeeps, WindowSpentKeeps, CancelKeeps, CloseReturnsKeeps
     DEF AuditNext

\* Every event emitted is accounted for, for any number of events and any size
\* of the buffer, the batch, the files and the rotation: it is held or reported,
\* once but for what a wedged stdout's Close gave up on, or was let go by the
\* SDK of the otlp-logs sink; and the files hold, in order, the lines that were
\* reported as written, but for those that aged out and those of a file whose
\* rename failed (audit.go, otlp.go, file.go).
THEOREM TrailCompleteCorrect == AuditSpec => []TrailComplete
<1>1. AuditInv => TrailComplete
  <2>. SUFFICES ASSUME AuditInv PROVE TrailComplete
    OBVIOUS
  <2>0. AuditTypeOK /\ Working /\ Queued /\ Told /\ Recorded /\ Disk
    BY DEF AuditInv
  <2>1. \A e \in Events : Gone(e) => fate[e] # <<>>
    BY <2>0 DEF Gone, Told, Fit, Held
  <2>2. Deaf => ToSet(ch) \subseteq tardy
    BY <2>0 DEF Working
  <2>3. ASSUME NEW e \in Events, Len(fate[e]) > 1
        PROVE  logger.kind = "stdout" /\ logger.spent /\ Len(fate[e]) = 2
    <3>1. Len(fate[e]) \in Nat /\ Len(fate[e]) <= Extra + 1
      BY <2>0 DEF AuditTypeOK, Told, Fit
    <3>2. CASE Late
      <4>1. Extra = 1
        BY <3>2 DEF Extra
      <4>2. Len(fate[e]) = 2
        <5>1. PICK l \in Nat : l = Len(fate[e])
          BY <3>1
        <5>2. l > 1 /\ l <= 1 + 1
          BY <2>3, <3>1, <4>1, <5>1
        <5>3. l = 2
          BY ONLY l \in Nat, <5>2
        <5>4. QED
          BY ONLY <5>1, <5>3
      <4>3. QED
        BY <3>2, <4>2 DEF Late
    <3>3. CASE ~Late
      BY <2>3, <3>1, <3>3 DEF Extra
    <3>4. QED
      BY <3>2, <3>3
  <2>4. \A e \in Events :
           /\ file.born[e] # 0 <=>
                 "dead_lettered" \in ToSet(fate[e]) \/ (logger.kind = "file" /\ "delivered" \in ToSet(fate[e]))
           /\ "unseen" \in ToSet(fate[e]) => logger.kind = "otlp"
    BY <2>0 DEF Recorded, OnFile, Lines
  <2>5. Kept(file) /\ InOrder(file)
    BY <2>0 DEF Disk, Sound
  <2>6. QED
    BY <2>0, <2>1, <2>2, <2>3, <2>4, <2>5 DEF TrailComplete, Kept, InOrder
<1>2. QED
  BY <1>1, AuditStarts, AuditNextKeeps, PTL DEF AuditSpec
=============================================================================
