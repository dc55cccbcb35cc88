------------------------------- MODULE LossyMap -------------------------------
(***************************************************************************)
(* What internal/bounded promises its callers: a map that may forget.      *)
(* Any key may vanish at any time (eviction, expiry), but a key that is    *)
(* found carries the value most recently stored under it, and a deleted    *)
(* key stays absent until it is stored again.                              *)
(***************************************************************************)
CONSTANTS Keys, Vals, None

VARIABLES content,  \* the value held for each key, or None
          ret       \* the result of the last read

vars == <<content, ret>>

Init ==
    /\ content = [k \in Keys |-> None]
    /\ ret = None

Load(k) ==
    /\ ret' = content[k]
    /\ UNCHANGED content

\* k is bound to v; any of the other keys may be lost on the way.
Bind(k, v) ==
    /\ content' \in [Keys -> Vals \cup {None}]
    /\ content'[k] = v
    /\ \A j \in Keys \ {k} : content'[j] \in {content[j], None}

Store(k, v) == Bind(k, v) /\ UNCHANGED ret

LoadOrStore(k, v) ==
    \/ content[k] # None /\ Load(k)
    \/ content[k] = None /\ Bind(k, v) /\ ret' = v

\* Delete, and equally the loss of one key.
Drop(k) ==
    /\ content' = [content EXCEPT ![k] = None]
    /\ UNCHANGED ret

Next ==
    \E k \in Keys :
        \/ Load(k) \/ Drop(k)
        \/ \E v \in Vals : Store(k, v) \/ LoadOrStore(k, v)

Spec == Init /\ [][Next]_vars
=============================================================================
