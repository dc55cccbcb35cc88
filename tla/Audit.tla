------------------------------- MODULE Audit -------------------------------
(***************************************************************************)
(* The audit log of a gateway (src/audit): one logger with one sink, which *)
(* is of any of the configured types.                                      *)
(*                                                                         *)
(* Request goroutines Emit events.  The stdout and webhook sinks only put  *)
(* them in a bounded buffer; a worker takes them out in batches, writes or *)
(* posts them with retries, and hands what it gives up to the dead-letter  *)
(* file.  The file sink writes in the caller's goroutine.  The otlp-logs   *)
(* sink's buffer, retries and worker belong to the OpenTelemetry SDK: a    *)
(* full buffer lets its oldest record go, and one handed over after        *)
(* Shutdown is ignored, neither of which fold hears of; fold's part is     *)
(* countingExporter.Export.  Close may come at any time and waits a        *)
(* bounded time for the worker.                                            *)
(*                                                                         *)
(* Time is not counted: spent says that drainTimeout has passed since      *)
(* Close, and the last second Close grants may end at any moment after.    *)
(* What an event carries, the scrubbing of it and its encoding are left    *)
(* out, except that encoding may fail.                                     *)
(***************************************************************************)
EXTENDS Integers, Sequences, FiniteSets, SequencesExt

CONSTANTS Events,       \* the events, each emitted by a request of its own
          BufferSize,   \* capacity of the channel (1024 in the code)
          BatchSize,    \* the most events collect takes (100 in the code)
          MaxAttempts,  \* retryPolicy.maxAttempts
          MaxLines,     \* lines that fit in one file of the rotation
          MaxFiles      \* numbered files kept beside the live one

ASSUME AuditAssumption ==
    /\ BufferSize \in Nat \ {0} /\ BatchSize \in Nat \ {0}
    /\ MaxAttempts \in Nat \ {0} /\ MaxLines \in Nat \ {0} /\ MaxFiles \in Nat \ {0}

Kinds == {"stdout", "webhook", "otlp", "file"}

\* What the observer is told of an event; "unseen" when the SDK let it go and
\* nobody was told.
Outcomes == {"delivered", "dead_lettered", "dropped", "unseen"}

VARIABLES
    logger,   \* the configured sink, what New made of it, and how far Close is
    emitting, \* where the Emit of each event stands
    ch,       \* the buffer of the sink
    worker,   \* the goroutine that empties it
    file,     \* the rotating file: dead letters, or the file sink's own
    fate,     \* what became of each event, in order
    tardy     \* history: events enqueued after the worker's last look

avars == <<logger, emitting, ch, worker, file, fate, tardy>>

AuditInit ==
    /\ logger \in [kind : Kinds, deadPath : BOOLEAN, requireDurable : BOOLEAN,
                   dead : {FALSE}, state : {"new"}, spent : {FALSE}]
    /\ logger.deadPath => logger.kind \in {"webhook", "otlp"}
    /\ emitting = [e \in Events |-> "new"]
    /\ ch = <<>>
    /\ worker = [at |-> "idle", batch |-> <<>>, attempt |-> 0, draining |-> "no"]
    /\ file = [f |-> "none", files |-> [k \in 0..MaxFiles |-> {}], turn |-> 1,
               born |-> [e \in Events |-> 0], lost |-> {}]
    /\ fate = [e \in Events |-> <<>>]
    /\ tardy = {}

Report(es, outcome) == [e \in Events |-> IF e \in es THEN Append(fate[e], outcome) ELSE fate[e]]
-----------------------------------------------------------------------------
\* What the document promises of the sink: what it cannot deliver is kept.
Durable == logger.kind = "file" \/ logger.deadPath

DurabilityError(durable) == logger.requireDurable /\ ~durable

(***************************************************************************)
(* New builds the sink, or skips it: a file that will not open, a webhook  *)
(* whose token is empty.  A dead-letter file that will not open is left    *)
(* out.  The gateway then asks DurabilityError whether to start.           *)
(***************************************************************************)
Start(opens, built) ==
    /\ logger.state = "new"
    /\ logger.kind = "file" => built = opens
    /\ logger.kind = "stdout" => built
    /\ logger' = [logger EXCEPT !.dead = built /\ opens /\ logger.deadPath,
                      !.state = IF DurabilityError(built /\ Durable) THEN "refused"
                                ELSE IF built THEN "serving" ELSE "silent"]
    /\ file' = [file EXCEPT !.f = IF built /\ opens /\ Durable THEN "open" ELSE "none"]
    /\ UNCHANGED <<emitting, ch, worker, fate, tardy>>

(***************************************************************************)
(* The rotating file.  files holds the lines of the live file, number 0,   *)
(* and of the numbered ones; a file without lines does not exist.  f is    *)
(* the handle: "none" before open and after Close, "stale" once rotate has *)
(* closed it and could not reopen the name.  History: turn counts the      *)
(* rotations begun, born says in which of them a line was written (0 if it *)
(* was not), and lost are the lines of a file whose rename failed and      *)
(* which was then overwritten.                                             *)
(***************************************************************************)
OnDisk(files) == UNION {files[k] : k \in 0..MaxFiles}

ShiftsOn(files, failed, k) == k \in 1..(MaxFiles - 1) \ failed /\ files[k] # {}

\* Mutant of Shifted: the walk over the numbered files stops at .2.
ShiftedShort(files, failed) ==
    [k \in 0..MaxFiles |->
        IF k > 2 /\ ShiftsOn(files, failed, k - 1) THEN files[k - 1]
        ELSE IF k > 1 /\ (ShiftsOn(files, failed, k) \/ (k = MaxFiles /\ k \notin failed)) THEN {}
        ELSE files[k]]

\* The oldest file is removed and the others renamed, .1 last.  Of a Remove or
\* Rename that fails nothing is said.
Shifted(files, failed) ==
    [k \in 0..MaxFiles |->
        IF ShiftsOn(files, failed, k - 1) THEN files[k - 1]
        ELSE IF ShiftsOn(files, failed, k) \/ (k = MaxFiles /\ k \notin failed) THEN {}
        ELSE files[k]]

\* ... and the live file becomes .1, whatever is there.
Rotated(files, failed) == [Shifted(files, failed) EXCEPT ![0] = {}, ![1] = files[0]]

Turned(files, failed) ==
    [file EXCEPT !.files = files, !.turn = @ + 1,
        !.lost = @ \cup ((UNION {file.files[k] : k \in failed \ {MaxFiles}}) \ OnDisk(files))]

Extended(d, e) == [d EXCEPT !.files[0] = @ \cup {e}, !.born[e] = d.turn]

Full == Cardinality(file.files[0]) = MaxLines

WriteLine(e) ==
    /\ file.f = "open"
    /\ \/ ~Full /\ file' = Extended(file, e)
       \/ /\ Full
          /\ \E failed \in SUBSET (1..MaxFiles) :
                file' = Extended(Turned(Rotated(file.files, failed), failed), e)

\* The write fails, or rotate does: closing the file, renaming it (the numbered
\* ones have shifted by then) or reopening the name.
WriteFails ==
    \/ UNCHANGED file
    \/ /\ file.f = "open" /\ Full
       /\ \/ file' = [file EXCEPT !.f = "stale"]
          \/ \E failed \in SUBSET (1..MaxFiles), f \in {"open", "stale"} :
                \E fs \in {Shifted(file.files, failed), Rotated(file.files, failed)} :
                   file' = [Turned(fs, failed) EXCEPT !.f = f]
-----------------------------------------------------------------------------
\* Emit of the file sink writes at once; the others look at closed first.
Emit(e) ==
    /\ emitting[e] = "new" /\ logger.state \notin {"new", "refused", "silent"}
    /\ \/ /\ logger.kind = "file"
          /\ \/ WriteLine(e) /\ fate' = Report({e}, "delivered")
             \/ WriteFails /\ fate' = Report({e}, "dropped")
          /\ emitting' = [emitting EXCEPT ![e] = "done"]
       \/ /\ logger.kind # "file" /\ logger.state # "serving"
          /\ fate' = Report({e}, IF logger.kind = "otlp" THEN "unseen" ELSE "dropped")
          /\ emitting' = [emitting EXCEPT ![e] = "done"] /\ UNCHANGED file
       \/ /\ logger.kind # "file" /\ logger.state = "serving"
          /\ emitting' = [emitting EXCEPT ![e] = "sending"] /\ UNCHANGED <<file, fate>>
    /\ UNCHANGED <<logger, ch, worker, tardy>>

\* Nobody will look into the buffer again: the worker has left, or the SDK's
\* Shutdown has run out of time.
Deaf == worker.at = "exited" \/ (logger.kind = "otlp" /\ logger.state = "closed")

\* ... and then send without blocking.  A full buffer refuses the event; the
\* SDK's makes room.
Send(e) ==
    /\ emitting[e] = "sending" /\ emitting' = [emitting EXCEPT ![e] = "done"]
    /\ \/ Len(ch) < BufferSize /\ ch' = Append(ch, e) /\ UNCHANGED fate
       \/ /\ Len(ch) = BufferSize /\ logger.kind # "otlp"
          /\ fate' = Report({e}, "dropped") /\ UNCHANGED ch
       \/ /\ Len(ch) = BufferSize /\ logger.kind = "otlp"
          /\ fate' = Report({Head(ch)}, "unseen") /\ ch' = Append(Tail(ch), e)
    /\ tardy' = IF Deaf \/ worker.draining = "last" THEN tardy \cup {e} ELSE tardy
    /\ UNCHANGED <<logger, worker, file>>
-----------------------------------------------------------------------------
Closing == logger.state \in {"closing", "cancelled", "closed"}

\* The context of a post has ended: Close cancelled it, or the drain is over.
CtxDone == logger.state \in {"cancelled", "closed"} \/ (worker.draining = "yes" /\ logger.spent)

Goes(at) == worker' = [worker EXCEPT !.at = at]
Drops(es) == fate' = Report(es, "dropped")

\* Back to the loop; after abandon(rest) there is no loop to go back to.
Done == worker' = [worker EXCEPT !.at = IF worker.draining = "last" THEN "exited" ELSE "idle",
                                 !.batch = <<>>, !.attempt = 0]

\* run, drain: the worker receives an event and collects what is buffered.
Receive ==
    /\ worker.at = "idle" /\ ch # <<>>
    /\ logger.kind = "webhook" /\ worker.draining = "yes" => ~CtxDone
    /\ ~Deaf
    /\ LET n == IF logger.kind = "stdout" \/ Len(ch) = 1 THEN 1
                ELSE IF Len(ch) < BatchSize THEN Len(ch) ELSE BatchSize
       IN  /\ worker' = [worker EXCEPT !.at = "deliver", !.batch = SubSeq(ch, 1, n), !.attempt = 1]
           /\ ch' = SubSeq(ch, n + 1, Len(ch))
    /\ UNCHANGED <<logger, emitting, file, fate, tardy>>

\* done is closed: drain; with an empty buffer, leave; when the window is
\* spent, give up the rest in one batch.
BeginDrain ==
    /\ worker.at = "idle" /\ worker.draining = "no" /\ Closing
    /\ worker' = [worker EXCEPT !.draining = "yes"]
    /\ UNCHANGED <<logger, emitting, ch, file, fate, tardy>>

Leave ==
    /\ worker.at = "idle" /\ worker.draining = "yes" /\ ch = <<>>
    /\ Goes("exited")
    /\ UNCHANGED <<logger, emitting, ch, file, fate, tardy>>

AbandonRest ==
    /\ worker.at = "idle" /\ worker.draining = "yes" /\ logger.kind = "webhook" /\ CtxDone
    /\ worker' = [worker EXCEPT !.at = "abandon", !.batch = ch, !.draining = "last"]
    /\ ch' = <<>>
    /\ UNCHANGED <<logger, emitting, file, fate, tardy>>

\* write of the stdout sink; a post of the webhook sink, or an export of the
\* SDK, that succeeds.
Deliver ==
    /\ worker.at = "deliver"
    /\ logger.kind = "webhook" => ~CtxDone
    /\ fate' = Report(ToSet(worker.batch), "delivered") /\ Done
    /\ UNCHANGED <<logger, emitting, ch, file, tardy>>

\* Encoding fails, a panic is recovered in deliverSafe, stdout refuses a write.
DropBatch ==
    /\ worker.at = "deliver" /\ logger.kind # "otlp" /\ Drops(ToSet(worker.batch)) /\ Done
    /\ UNCHANGED <<logger, emitting, ch, file, tardy>>

\* A post fails: for good, for the last time, or to be tried again, which an
\* export has been by then.
PostFails ==
    /\ worker.at = "deliver" /\ logger.kind # "stdout"
    /\ \/ Goes("abandon")
       \/ logger.kind = "webhook" /\ worker.attempt < MaxAttempts /\ Goes("backoff")
    /\ UNCHANGED <<logger, emitting, ch, file, fate, tardy>>

\* Mutant of Backoff: a batch whose backoff Close cuts short is forgotten.
BackoffForgets ==
    /\ worker.at = "backoff"
    /\ \/ worker' = [worker EXCEPT !.at = "deliver", !.attempt = @ + 1]
       \/ Closing /\ Done
    /\ UNCHANGED <<logger, emitting, ch, file, fate, tardy>>

\* The backoff ends, or is cut short by Close.
Backoff ==
    /\ worker.at = "backoff"
    /\ \/ worker' = [worker EXCEPT !.at = "deliver", !.attempt = @ + 1]
       \/ Closing /\ Goes("abandon")
    /\ UNCHANGED <<logger, emitting, ch, file, fate, tardy>>

\* abandon: each event to the dead-letter file, or all of them dropped.
Abandon ==
    /\ worker.at = "abandon"
    /\ \/ worker.batch = <<>> /\ Done /\ UNCHANGED <<file, fate>>
       \/ worker.batch # <<>> /\ ~logger.dead /\ Drops(ToSet(worker.batch)) /\ Done /\ UNCHANGED file
       \/ /\ worker.batch # <<>> /\ logger.dead
          /\ \/ WriteLine(Head(worker.batch)) /\ fate' = Report({Head(worker.batch)}, "dead_lettered")
             \/ WriteFails /\ Drops({Head(worker.batch)})
          /\ worker' = [worker EXCEPT !.batch = Tail(@)]
    /\ UNCHANGED <<logger, emitting, ch, tardy>>
-----------------------------------------------------------------------------
\* Logger.Close, of the one sink.  The file sink only closes its file.
CloseLogger ==
    /\ logger.state = "serving"
    /\ IF logger.kind = "file"
       THEN logger' = [logger EXCEPT !.state = "closed"] /\ file' = [file EXCEPT !.f = "none"]
       ELSE logger' = [logger EXCEPT !.state = "closing"] /\ UNCHANGED file
    /\ UNCHANGED <<emitting, ch, worker, fate, tardy>>

WindowSpent ==
    /\ logger.state = "closing" /\ ~logger.spent
    /\ logger' = [logger EXCEPT !.spent = TRUE]
    /\ UNCHANGED <<emitting, ch, worker, file, fate, tardy>>

\* Close cancels the posts of a webhook worker that did not leave in time ...
Cancel ==
    /\ logger.state = "closing" /\ logger.spent /\ logger.kind = "webhook"
    /\ logger' = [logger EXCEPT !.state = "cancelled"]
    /\ UNCHANGED <<emitting, ch, worker, file, fate, tardy>>

\* ... and returns when the worker has left, or a second later.  The stdout
\* sink's Close counts what a wedged writer has left behind; the SDK's Shutdown
\* leaves what is queued when its three seconds are over.
CloseReturns ==
    /\ \/ logger.state = "closing" /\ worker.at = "exited" /\ UNCHANGED <<ch, fate>>
       \/ logger.state = "cancelled" /\ UNCHANGED <<ch, fate>>
       \/ /\ logger.state = "closing" /\ logger.spent /\ logger.kind = "stdout" /\ worker.at # "exited"
          /\ Drops(ToSet(ch) \cup ToSet(worker.batch)) /\ UNCHANGED ch
       \/ /\ logger.state = "closing" /\ logger.spent /\ logger.kind = "otlp" /\ worker.at # "exited"
          /\ fate' = Report(ToSet(ch), "unseen") /\ ch' = <<>>
    /\ logger' = [logger EXCEPT !.state = "closed"]
    /\ file' = [file EXCEPT !.f = "none"]
    /\ UNCHANGED <<emitting, worker, tardy>>

WorkerStep == \/ Receive \/ BeginDrain \/ Leave \/ AbandonRest \/ Deliver \/ DropBatch
              \/ PostFails \/ Backoff \/ Abandon

AuditNext ==
    \/ \E opens, built \in BOOLEAN : Start(opens, built)
    \/ \E e \in Events : Emit(e) \/ Send(e)
    \/ logger.kind # "file" /\ logger.state \notin {"new", "refused", "silent"} /\ WorkerStep
    \/ CloseLogger \/ WindowSpent \/ Cancel \/ CloseReturns

AuditSpec == AuditInit /\ [][AuditNext]_avars
-----------------------------------------------------------------------------
Loggers ==
    [kind : Kinds, deadPath : BOOLEAN, requireDurable : BOOLEAN, dead : BOOLEAN, spent : BOOLEAN,
     state : {"new", "refused", "silent", "serving", "closing", "cancelled", "closed"}]
Workers ==
    [at : {"idle", "deliver", "backoff", "abandon", "exited"}, batch : Seq(Events),
     attempt : 0..MaxAttempts, draining : {"no", "yes", "last"}]
FileStates == [f : {"none", "open", "stale"}, files : [0..MaxFiles -> SUBSET Events], turn : Nat,
               born : [Events -> Nat], lost : SUBSET Events]

AuditTypeOK ==
    /\ logger \in Loggers /\ worker \in Workers /\ file \in FileStates
    /\ emitting \in [Events -> {"new", "sending", "done"}]
    /\ ch \in Seq(Events) /\ Len(ch) <= BufferSize /\ Len(worker.batch) <= BatchSize + BufferSize
    /\ fate \in [Events -> Seq(Outcomes)] /\ tardy \subseteq Events

Gone(e) == emitting[e] = "done" /\ e \notin ToSet(ch) \cup ToSet(worker.batch)

\* Every event whose Emit has returned is buffered, in the worker's hands or
\* reported, and reported once: only an event sent after the worker's last look
\* stays behind in the buffer, only one that the stdout sink's Close gave up on
\* is reported twice, and only what the SDK of the otlp-logs sink lets go is
\* lost to sight (audit.go, Emit, Close, run, drain, abandon; otlp.go).  What is
\* said to be on disk is there, older lines in higher-numbered files, until more
\* than MaxFiles rotations have pushed it out or the rename of its file has
\* failed and the next one has come over it (file.go, rotate).
TrailComplete ==
    /\ AuditTypeOK
    /\ \A e \in Events : Gone(e) => fate[e] # <<>>
    /\ Deaf => ToSet(ch) \subseteq tardy
    /\ \A e \in Events : Len(fate[e]) > 1 => logger.kind = "stdout" /\ logger.spent /\ Len(fate[e]) = 2
    /\ \A e \in Events : "unseen" \in ToSet(fate[e]) => logger.kind = "otlp"
    /\ \A e \in Events : file.born[e] # 0 <=>
           "dead_lettered" \in ToSet(fate[e]) \/ (logger.kind = "file" /\ "delivered" \in ToSet(fate[e]))
    /\ \A e \in Events : file.born[e] # 0 =>
           e \in OnDisk(file.files) \/ file.turn - file.born[e] > MaxFiles \/ e \in file.lost
    /\ \A j, k \in 0..MaxFiles : j < k =>
           \A d \in file.files[j], e \in file.files[k] : file.born[d] > file.born[e]

\* DurabilityError: with requireDurable set the gateway does not serve without
\* a sink "that keeps what it could not deliver".
ServesDurably ==
    logger.state = "serving" /\ logger.requireDurable => logger.kind = "file" \/ logger.dead
=============================================================================
