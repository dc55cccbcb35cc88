------------------------------- MODULE Paging -------------------------------
(***************************************************************************)
(* Federated lists (gateway/paginate.go, shaping.go and the tail of the    *)
(* list handlers in router.go): the merged lists of the upstreams, cut to  *)
(* what policy shows a caller and to the cap of the rule that shows it,    *)
(* handed out in pages.  A cursor is the record it encodes; a fingerprint  *)
(* is the snapshot it was taken of.                                        *)
(***************************************************************************)
EXTENDS Integers, Sequences, FiniteSets, SequencesExt

CONSTANTS
    Listers,      \* the callers that walk a list
    Rule(_, _),   \* the rule that shows an item to a caller, or Hidden
    Hidden,
    MaxItems(_),  \* the cap of a rule, 0 for none
    Merges,       \* the merged lists the upstreams may return
    PageSize      \* 0 disables pagination

ASSUME PagingAssumption ==
    /\ PageSize \in Int
    /\ \A m \in Merges : Len(m) \in Nat /\ DOMAIN m = 1..Len(m)

VARIABLES
    merged,       \* what the upstreams list now, in merge order
    walk          \* each caller's walk: its cursor, the items it holds, and how
                  \* the last request was answered

gvars == <<merged, walk>>
-----------------------------------------------------------------------------
\* The positions of the merged list that policy shows the caller ...
Shown(c) == {i \in DOMAIN merged : Rule(c, merged[i]) # Hidden}

\* ... and of those, listFilter.decide: the first MaxItems of every rule.
Admitted(c) ==
    {i \in Shown(c) :
        LET r == Rule(c, merged[i])
        IN  \/ MaxItems(r) = 0
            \/ Cardinality({j \in Shown(c) : j < i /\ Rule(c, merged[j]) = r}) < MaxItems(r)}

Nth(S, k) == CHOOSE i \in S : Cardinality({j \in S : j < i}) = k - 1

Filtered(c) ==
    [items |-> [k \in 1..Cardinality(Admitted(c)) |-> merged[Nth(Admitted(c), k)]],
     capped |-> Cardinality(Shown(c)) - Cardinality(Admitted(c))]

\* The empty string in place of a cursor.
NoCursor == <<>>
Cursor(offset, items, c) == [offset |-> offset, gen |-> items, caller |-> c]

Answer(items, cursor) == [ok |-> TRUE, page |-> items, next |-> cursor]
errBadCursor == [ok |-> FALSE, page |-> <<>>, next |-> NoCursor]

\* Mutant of Accepts: the snapshot a cursor was minted against is not compared.
AcceptsAnySnapshot(cur, items, c) == cur.caller = c /\ cur.offset \in 1..Len(items)

Accepts(cur, items, c) ==
    /\ cur.gen = items /\ cur.caller = c
    /\ cur.offset \in 1..Len(items)

paginate(items, cursor, c) ==
    LET from == IF cursor = NoCursor THEN 0 ELSE cursor.offset
        end == IF from + PageSize < Len(items) THEN from + PageSize ELSE Len(items)
        next == IF end < Len(items) THEN Cursor(end, items, c) ELSE NoCursor
    IN  IF PageSize <= 0
        THEN IF cursor = NoCursor THEN Answer(items, NoCursor) ELSE errBadCursor
        ELSE IF cursor = NoCursor /\ Len(items) <= PageSize THEN Answer(items, NoCursor)
        ELSE IF cursor # NoCursor /\ ~Accepts(cursor, items, c) THEN errBadCursor
        ELSE Answer(SubSeq(items, from + 1, end), next)
-----------------------------------------------------------------------------
NewWalk == [cursor |-> NoCursor, got |-> <<>>, seen |-> "none"]

PagingInit == merged \in Merges /\ walk = [c \in Listers |-> NewWalk]

\* An upstream's list changed, or a reload changed the federation.
Relist(m) == merged' = m /\ UNCHANGED walk

\* One list request, with the cursor of caller d's walk, or from the start.
List(c, d) ==
    LET cursor == walk[d].cursor
        a == paginate(Filtered(c).items, cursor, c)
        held == IF cursor = NoCursor THEN <<>> ELSE walk[c].got
    IN  /\ c = d \/ cursor # NoCursor
        /\ walk' = [walk EXCEPT ![c] =
                IF ~a.ok THEN [cursor |-> NoCursor, got |-> <<>>, seen |-> "restart"]
                ELSE [cursor |-> a.next, got |-> held \o a.page,
                      seen |-> IF a.next = NoCursor THEN "whole" ELSE "more"]]
        /\ UNCHANGED merged

PagingNext ==
    \/ \E m \in Merges : Relist(m)
    \/ \E c, d \in Listers : List(c, d)

PagingSpec == PagingInit /\ [][PagingNext]_gvars
-----------------------------------------------------------------------------
PagingTypeOK ==
    /\ merged \in Merges
    /\ DOMAIN walk = Listers
    /\ \A c \in Listers : walk[c].seen \in {"none", "more", "whole", "restart"}

\* A walk that was not told to restart is the caller's list: when its last page
\* is served the pages together are the filtered snapshot, nothing skipped and
\* nothing repeated, whatever changed in between.
WalkIsWhole ==
    /\ []PagingTypeOK
    /\ [][\A c \in Listers : walk'[c] # walk[c] /\ walk'[c].seen = "whole" =>
              walk'[c].got = Filtered(c).items]_gvars
=============================================================================
