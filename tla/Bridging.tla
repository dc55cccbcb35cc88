------------------------------ MODULE Bridging ------------------------------
(***************************************************************************)
(* Server-initiated traffic (gateway/gateway.go 1244-1436, router.go       *)
(* authorizeServerInitiated): while a call of a downstream session is in   *)
(* flight an upstream may log, report progress, sample or elicit.  What it *)
(* sends rides the context of the call, which the gateway finds in a stack *)
(* of invocation contexts per session: created by the first call,          *)
(* discarded by the last.  One session is modelled; its stacks are told    *)
(* apart by the order they are made in.                                    *)
(***************************************************************************)
EXTENDS Integers, Sequences, FiniteSets, SequencesExt

CONSTANTS
    Invocations,   \* calls of the session, each with a context of its own
    MayAsk,        \* what policy and hook decide of sampling, per reload
    NoStack, Fallback,
    StackCap, ActivityCap

ASSUME BridgingAssumption ==
    /\ NoStack \notin Nat /\ StackCap \in Nat /\ ActivityCap \in Nat
    /\ MayAsk \subseteq BOOLEAN

VARIABLES
    callCtx,       \* the stack on record for the session, or none
    stacks,        \* every stack made: its live contexts and its activity
    call,          \* each call: its progress and the stack it pushed on
    dead,          \* calls whose context is cancelled
    allowed,       \* whether policy lets the upstream ask, now
    forwarded      \* the last request of the upstream: the context it rode,
                   \* the live calls then in flight, how it ended

bgvars == <<callCtx, stacks, call, dead, allowed, forwarded>>

Fresh == [ctxs |-> <<>>, activity |-> 0]
Silent == [rode |-> Fallback, inflight |-> {}, end |-> "none"]

BridgingInit ==
    /\ callCtx = NoStack
    /\ stacks = <<>>
    /\ call = [i \in Invocations |-> [pc |-> "new", on |-> NoStack]]
    /\ dead = {}
    /\ allowed \in MayAsk
    /\ forwarded = Silent

Pc(i, pc) == call[i].pc = pc
Becomes(i, pc) == call' = [call EXCEPT ![i].pc = pc]
-----------------------------------------------------------------------------
(* pushCallCtx, in the steps other calls interleave with.                  *)

\* LoadOrStore, of a call with a context of its own: the stack on record, or a
\* new one put there.
Find(i) ==
    /\ Pc(i, "new")
    /\ IF callCtx # NoStack
       THEN /\ call' = [call EXCEPT ![i] = [pc |-> "found", on |-> callCtx]]
            /\ UNCHANGED <<callCtx, stacks>>
       ELSE /\ Len(stacks) < StackCap
            /\ stacks' = Append(stacks, Fresh)
            /\ callCtx' = Len(stacks) + 1
            /\ call' = [call EXCEPT ![i] = [pc |-> "found", on |-> Len(stacks) + 1]]
    /\ dead' = dead \ {i}
    /\ UNCHANGED <<allowed, forwarded>>

\* The context is on the stack and the call goes upstream.
PushCtx(i) ==
    /\ Pc(i, "found")
    /\ stacks' = [stacks EXCEPT ![call[i].on].ctxs = Append(@, i)]
    /\ Becomes(i, "inflight")
    /\ UNCHANGED <<callCtx, dead, allowed, forwarded>>

\* Mutant of PopCtx: the latest context comes off, whoever has answered.
PopCtxLatest(i) ==
    /\ Pc(i, "inflight")
    /\ stacks' = [stacks EXCEPT ![call[i].on].ctxs = Front(@)]
    /\ Becomes(i, IF Len(stacks[call[i].on].ctxs) = 1 THEN "discard" ELSE "new")
    /\ UNCHANGED <<callCtx, dead, allowed, forwarded>>

\* The stack without the last occurrence of a context; itself if it has none.
Without(s, i) ==
    IF i \notin ToSet(s) THEN s
    ELSE RemoveAt(s, CHOOSE k \in DOMAIN s : s[k] = i /\ \A l \in DOMAIN s : s[l] = i => l <= k)

\* drainBridge waits, bounded, when bridged traffic was seen, then the call
\* answers and its context comes off the stack.
PopCtx(i) ==
    /\ Pc(i, "inflight")
    /\ stacks' = [stacks EXCEPT ![call[i].on].ctxs = Without(@, i)]
    /\ Becomes(i, IF Without(stacks[call[i].on].ctxs, i) = <<>> THEN "discard" ELSE "new")
    /\ UNCHANGED <<callCtx, dead, allowed, forwarded>>

\* The stack was empty when it was unlocked: forget it.
Discard(i) ==
    /\ Pc(i, "discard")
    /\ callCtx' = NoStack
    /\ Becomes(i, "new")
    /\ UNCHANGED <<stacks, dead, allowed, forwarded>>

\* The client hangs up or a deadline passes; the context stays on its stack
\* until the call has unwound.
CancelCall(i) ==
    /\ ~Pc(i, "new") /\ i \notin dead
    /\ dead' = dead \cup {i}
    /\ UNCHANGED <<callCtx, stacks, call, allowed, forwarded>>
-----------------------------------------------------------------------------
(* What upstreams send.                                                    *)

\* Mutant of invocationCtx: the most recent context, cancelled or not.
invocationCtxAny ==
    IF callCtx = NoStack \/ stacks[callCtx].ctxs = <<>> THEN Fallback
    ELSE Last(stacks[callCtx].ctxs)

\* The most recent live context on record, the session's own if there is none.
invocationCtx ==
    IF callCtx = NoStack THEN Fallback
    ELSE LET s == stacks[callCtx].ctxs
             live == {k \in DOMAIN s : s[k] \notin dead}
         IN  IF live = {} THEN Fallback ELSE s[Max(live)]

InFlight == {i \in Invocations : Pc(i, "inflight") /\ i \notin dead}

\* A log or progress notification: forwarded, and counted for drainBridge.
Notify ==
    /\ callCtx # NoStack /\ stacks[callCtx].activity < ActivityCap
    /\ stacks' = [stacks EXCEPT ![callCtx].activity = @ + 1]
    /\ UNCHANGED <<callCtx, call, dead, allowed, forwarded>>

\* What policy and hook make of a request: of the principal of the context it
\* rides, with the document now in force.
authorizeServerInitiated == IF allowed THEN "asking" ELSE "refused"

\* A sampling or elicitation request.  Refusals are audited at once, the others
\* when the client has answered.
Ask ==
    /\ forwarded.end # "asking"
    /\ forwarded' = [rode |-> invocationCtx, inflight |-> InFlight,
                     end |-> authorizeServerInitiated]
    /\ UNCHANGED <<callCtx, stacks, call, dead, allowed>>

Answered ==
    /\ forwarded.end = "asking"
    /\ forwarded' = [forwarded EXCEPT !.end = "answered"]
    /\ UNCHANGED <<callCtx, stacks, call, dead, allowed>>

ReloadPolicy ==
    /\ \E a \in MayAsk : a # allowed /\ allowed' = a
    /\ UNCHANGED <<callCtx, stacks, call, dead, forwarded>>

BridgingNext ==
    \/ \E i \in Invocations : Find(i) \/ PushCtx(i) \/ PopCtx(i) \/ Discard(i) \/ CancelCall(i)
    \/ Notify \/ Ask \/ Answered \/ ReloadPolicy

BridgingSpec == BridgingInit /\ [][BridgingNext]_bgvars
-----------------------------------------------------------------------------
\* A call that has found its stack has one on record.
BridgingTypeOK ==
    /\ stacks \in Seq([ctxs : Seq(Invocations), activity : Nat])
    /\ callCtx \in {NoStack} \cup DOMAIN stacks
    /\ call \in [Invocations -> [pc : {"new", "found", "inflight", "discard"},
                                 on : {NoStack} \cup DOMAIN stacks]]
    /\ \A i \in Invocations : ~Pc(i, "new") => call[i].on # NoStack
    /\ dead \subseteq Invocations
    /\ allowed \in MayAsk
    /\ forwarded \in [rode : Invocations \cup {Fallback}, inflight : SUBSET Invocations,
                      end : {"none", "asking", "answered", "refused"}]

\* "Forwarded traffic uses the in-flight invocation's context": what an
\* upstream asks while a live call of the session is in flight rides the context
\* of such a call, never the session's own, which carries no caller.
RidesACall ==
    forwarded.end # "none" /\ forwarded.inflight # {} => forwarded.rode \in forwarded.inflight

\* pushCallCtx, its pop and invocationCtx: whichever calls of a session overlap,
\* are cancelled and in whatever order they end, a call's context is on a stack
\* exactly while it is in flight; so traffic never rides the context of a call
\* that is over or cancelled, and what it rides instead, if it finds no live
\* call, is the session's own.
NoDeadContext ==
    /\ BridgingTypeOK
    /\ \A i \in Invocations, n \in DOMAIN stacks :
           i \in ToSet(stacks[n].ctxs) <=> Pc(i, "inflight") /\ call[i].on = n
    /\ forwarded.end # "none" => forwarded.rode \in forwarded.inflight \cup {Fallback}
=============================================================================
