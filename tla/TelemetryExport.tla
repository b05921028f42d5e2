--------------------------- MODULE TelemetryExport ---------------------------
(***************************************************************************)
(* The optional export of telemetry records (service.telemetry): requests   *)
(* put records into one bounded queue per channel and never wait; one       *)
(* worker task per channel takes batches and hands them to an injected      *)
(* exporter, with bounded retries; stop flushes, cancels and accounts under *)
(* two deadlines.  Everything runs on one event loop, so a step is what     *)
(* happens between two awaits.  The exporter is outside: it may succeed,    *)
(* raise, hang, swallow a cancellation, or cancel the task that calls it.   *)
(* Left out: the process-local ring, which every record enters as well and  *)
(* nothing reads back, and the contents of records.                         *)
(***************************************************************************)
EXTENDS Naturals, Sequences, FiniteSets

CONSTANTS
    Channels,       \* log and trace
    MaxRecords,     \* bound: requests that finish
    QueueCapacity,  \* ExporterConfig.queue_capacity
    BatchSize,      \* ExporterConfig.batch_size
    MaxRetries      \* ExporterConfig.max_retries

\* ExporterConfig.__post_init__
ASSUME ExporterConfigAssumption ==
    /\ MaxRecords \in Nat /\ MaxRetries \in 0..2
    /\ QueueCapacity \in Nat \ {0} /\ BatchSize \in 1..QueueCapacity

VARIABLES
    phase,    \* of the runtime, from its start on
    emitted,  \* requests finished so far; each leaves one record on every channel
    queue,    \* [Channels -> sequence of records waiting]
    worker,   \* [Channels -> the worker task]
    fate,     \* [Channels -> [record -> what the counters say of it]]
    flushed   \* ShutdownReport.flushed

vars == <<phase, emitted, queue, worker, fate, flushed>>

Record == 1..MaxRecords
Reasons == {"queue_full", "export_failed", "shutdown_timeout", "not_running"}
Fates == Reasons \cup {"delivered", "indeterminate"}
Waiting == [pc |-> "waiting", batch |-> {}, attempts |-> 0, told |-> FALSE, cancel |-> FALSE]

\* told: the task is among _shutdown_cancellations; cancel: a cancellation of it by stop
\* is not delivered yet.
TypeOK ==
    /\ phase \in {"running", "flushing", "terminating", "closed", "degraded"}
    /\ emitted \in 0..MaxRecords
    /\ \A c \in Channels : queue[c] \in Seq(Record) /\ Len(queue[c]) <= QueueCapacity
    /\ worker \in [Channels -> [pc : {"waiting", "exporting", "ended"}, batch : SUBSET Record,
                                attempts : 0..MaxRetries, told : BOOLEAN, cancel : BOOLEAN]]
    /\ fate \in [Channels -> [Record -> SUBSET Fates]]
    /\ flushed \in BOOLEAN

Init ==
    /\ phase = "running" /\ emitted = 0
    /\ queue = [c \in Channels |-> <<>>]
    /\ worker = [c \in Channels |-> Waiting]
    /\ fate = [c \in Channels |-> [r \in Record |-> {}]]
    /\ flushed = FALSE

Queued(c) == {queue[c][i] : i \in DOMAIN queue[c]}

\* The counters of channel c add reason for every record of a set.
Counted(c, records, reason) ==
    [r \in Record |-> IF r \in records THEN fate[c][r] \cup {reason} ELSE fate[c][r]]

-----------------------------------------------------------------------------
\* Request tasks.

\* Mutant: the capacity is compared inclusively.
RoomInclusive(c) == Len(queue[c]) <= QueueCapacity

RoomIn(c) == Len(queue[c]) < QueueCapacity

\* finish_request emits a log and a trace record without waiting, whatever the phase.
FinishRequest ==
    LET r == emitted + 1
    IN  /\ emitted < MaxRecords
        /\ emitted' = r
        /\ queue' = [c \in Channels |-> IF phase = "running" /\ RoomIn(c)
                                        THEN Append(queue[c], r) ELSE queue[c]]
        /\ fate' = [c \in Channels |->
             IF phase # "running" THEN Counted(c, {r}, "not_running")
             ELSE IF ~RoomIn(c) THEN Counted(c, {r}, "queue_full") ELSE fate[c]]
        /\ UNCHANGED <<phase, worker, flushed>>

-----------------------------------------------------------------------------
\* The worker task of a channel.

Least(m, n) == IF m < n THEN m ELSE n

\* Mutant: leaves the records in the queue until they are delivered.
TakeBatchPeeking(c) ==
    LET n == Least(BatchSize, Len(queue[c]))
    IN  /\ worker[c].pc = "waiting" /\ ~worker[c].cancel
        /\ n > 0
        /\ worker' = [worker EXCEPT ![c].pc = "exporting", ![c].attempts = 0,
                                    ![c].batch = {queue[c][i] : i \in 1..n}]
        /\ UNCHANGED <<phase, emitted, queue, fate, flushed>>

TakeBatch(c) ==
    LET n == Least(BatchSize, Len(queue[c]))
    IN  /\ worker[c].pc = "waiting" /\ ~worker[c].cancel
        /\ n > 0
        /\ worker' = [worker EXCEPT ![c].pc = "exporting", ![c].attempts = 0,
                                    ![c].batch = {queue[c][i] : i \in 1..n}]
        /\ queue' = [queue EXCEPT ![c] = SubSeq(queue[c], n + 1, Len(queue[c]))]
        /\ UNCHANGED <<phase, emitted, fate, flushed>>

\* Mutant: goes on after a batch although stop asked it to end.
FinishedUnasked(c) == [worker[c] EXCEPT !.pc = "waiting", !.batch = {}]

\* After a batch the worker returns if stop asked it to, and waits for the next if not.
Finished(c) == [worker[c] EXCEPT !.pc = IF worker[c].told THEN "ended" ELSE "waiting",
                                 !.batch = {}]

Exporting(c) == worker[c].pc = "exporting" /\ ~worker[c].cancel

ExportSucceeds(c) ==
    /\ Exporting(c)
    /\ fate' = [fate EXCEPT ![c] = Counted(c, worker[c].batch, "delivered")]
    /\ worker' = [worker EXCEPT ![c] = Finished(c)]
    /\ UNCHANGED <<phase, emitted, queue, flushed>>

\* The attempt raises, is cancelled by the exporter itself, or times out.
ExportFails(c) ==
    /\ Exporting(c)
    /\ IF worker[c].attempts < MaxRetries
       THEN /\ worker' = [worker EXCEPT ![c].attempts = @ + 1]
            /\ UNCHANGED fate
       ELSE /\ worker' = [worker EXCEPT ![c] = Finished(c)]
            /\ fate' = [fate EXCEPT ![c] = Counted(c, worker[c].batch, "export_failed")]
    /\ UNCHANGED <<phase, emitted, queue, flushed>>

\* The exporter schedules a cancellation of its task and returns: nothing is left to
\* export, so it reaches the worker in queue.get(), which does not expect it.
ExportLeavesCancellation(c) ==
    /\ Exporting(c) /\ ~worker[c].told
    /\ queue[c] = <<>>
    /\ fate' = [fate EXCEPT ![c] = Counted(c, worker[c].batch, "delivered")]
    /\ worker' = [worker EXCEPT ![c].pc = "ended", ![c].batch = {}]
    /\ UNCHANGED <<phase, emitted, queue, flushed>>

\* The cancellation of stop ends the worker: where it waits, or in an export that lets it
\* through (or raises CancelledError later of its own).
WorkerCancelled(c) ==
    /\ worker[c].pc # "ended"
    /\ worker[c].cancel \/ (worker[c].told /\ worker[c].pc = "exporting")
    /\ worker' = [worker EXCEPT ![c].pc = "ended", ![c].batch = {}, ![c].cancel = FALSE]
    /\ UNCHANGED <<phase, emitted, queue, fate, flushed>>

\* The exporter swallows it.
CancellationSuppressed(c) ==
    /\ worker[c].pc = "exporting" /\ worker[c].cancel
    /\ worker' = [worker EXCEPT ![c].cancel = FALSE]
    /\ UNCHANGED <<phase, emitted, queue, fate, flushed>>

-----------------------------------------------------------------------------
\* stop(), called once by the lifespan after begin_draining.

BeginStop ==
    /\ phase = "running"
    /\ phase' = "flushing"
    /\ UNCHANGED <<emitted, queue, worker, fate, flushed>>

\* Mutant: the queues are empty, but batches are out.
JoinedWhenEmpty == \A c \in Channels : queue[c] = <<>>

\* queue.join() of both channels.
Joined == \A c \in Channels : queue[c] = <<>> /\ worker[c].batch = {}

CancelWorkers ==
    worker' = [c \in Channels |-> [worker[c] EXCEPT !.told = TRUE,
                                                    !.cancel = worker[c].pc # "ended"]]

\* Mutant: batches in flight are not counted.
EndFlushUncounted ==
    /\ phase = "flushing"
    /\ \/ Joined /\ flushed' = TRUE
       \/ flushed' = FALSE
    /\ phase' = "terminating"
    /\ CancelWorkers
    /\ UNCHANGED <<emitted, queue, fate>>

\* The flush is complete, or its deadline passes: what is in flight is indeterminate.
EndFlush ==
    /\ phase = "flushing"
    /\ \/ Joined /\ flushed' = TRUE /\ UNCHANGED fate
       \/ /\ flushed' = FALSE
          /\ fate' = [c \in Channels |-> Counted(c, worker[c].batch, "indeterminate")]
    /\ phase' = "terminating"
    /\ CancelWorkers
    /\ UNCHANGED <<emitted, queue>>

AllEnded == \A c \in Channels : worker[c].pc = "ended"

\* Mutant: no deadline for the workers.
EndStopWaiting ==
    /\ phase = "terminating" /\ AllEnded
    /\ queue' = [c \in Channels |-> <<>>]
    /\ fate' = [c \in Channels |-> Counted(c, Queued(c), "shutdown_timeout")]
    /\ phase' = "closed"
    /\ UNCHANGED <<emitted, worker, flushed>>

\* The workers have ended, or their deadline passes and they are cancelled once more; what
\* is left in the queues is dropped.
EndStop ==
    /\ phase = "terminating"
    /\ queue' = [c \in Channels |-> <<>>]
    /\ fate' = [c \in Channels |-> Counted(c, Queued(c), "shutdown_timeout")]
    /\ phase' = IF AllEnded THEN "closed" ELSE "degraded"
    /\ CancelWorkers
    /\ UNCHANGED <<emitted, flushed>>

-----------------------------------------------------------------------------
Worker(c) ==
    \/ TakeBatch(c)
    \/ ExportSucceeds(c) \/ ExportFails(c) \/ ExportLeavesCancellation(c)
    \/ WorkerCancelled(c) \/ CancellationSuppressed(c)

Next ==
    \/ FinishRequest
    \/ \E c \in Channels : Worker(c)
    \/ BeginStop \/ EndFlush \/ EndStop

Spec == Init /\ [][Next]_vars

\* Deadlines pass; the exporter owes nothing, not even an end of its attempts.
FairSpec == Spec /\ WF_vars(EndFlush) /\ WF_vars(EndStop)

-----------------------------------------------------------------------------
\* No record disappears without a reason: it waits, is in flight, was delivered, or some
\* counter has it (docs/service_operations.md asks for zero unexplained drops), through
\* every cancellation and both deadlines.
EveryRecordIsAccounted ==
    \A c \in Channels, r \in 1..emitted :
        r \in Queued(c) \cup worker[c].batch \/ fate[c][r] # {}

\* A drop is definite: a record counted as dropped is nowhere else, was not delivered and
\* has one reason only, also when a worker outlives stop.
DropsAreDefinite ==
    \A c \in Channels, r \in 1..emitted :
        /\ Cardinality(fate[c][r] \ {"indeterminate"}) <= 1
        /\ fate[c][r] \cap Reasons # {} => r \notin Queued(c) \cup worker[c].batch

\* A report that says flushed is right: the exporter has answered for every record that
\* was accepted, and none was lost to the shutdown.
FlushTellsTheTruth ==
    flushed => \A c \in Channels, r \in 1..emitted :
        fate[c][r] # {} /\ fate[c][r] \cap {"shutdown_timeout", "indeterminate"} = {}

\* A worker that stop asked to end never takes another batch, although its exporter
\* swallowed the cancellation (docs/service_operations.md, "without taking another batch").
NoBatchAfterStop ==
    [][\A c \in Channels : worker[c].told => worker'[c].batch \subseteq worker[c].batch]_vars

\* stop ends under its two deadlines, whatever the exporter does.
StopIsBounded == (phase = "flushing") ~> (phase \in {"closed", "degraded"})

\* The exporter cannot kill a channel's worker (the comment in _deliver).
WorkerOutlivesExporter ==
    phase = "running" => \A c \in Channels : worker[c].pc # "ended"

\* In-flight records are counted as indeterminate instead of dropped
\* (docs/service_operations.md): never as both.
IndeterminateIsNotDropped ==
    \A c \in Channels, r \in Record : ~({"indeterminate", "export_failed"} \subseteq fate[c][r])
=============================================================================
