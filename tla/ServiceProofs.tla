---------------------------- MODULE ServiceProofs ----------------------------
(***************************************************************************)
(* What holds of the service for every number of requests, channels and     *)
(* exchanges and every limit: no telemetry record is lost without a reason, *)
(* and the admission counters are the exchanges that hold a place.  The two *)
(* parts are proved apart; every step of the service is one of theirs.      *)
(***************************************************************************)
EXTENDS MCService, FiniteSetTheorems, SequenceTheorems, TLAPS

-----------------------------------------------------------------------------
\* The export: one channel after n requests, with queue q, worker task w and counters f.

Worker0 == [pc : {"waiting", "exporting", "ended"}, batch : SUBSET Record,
            attempts : 0..MaxRetries, told : BOOLEAN, cancel : BOOLEAN]

QueueHolds(n, q, w, f) ==
    /\ q \in Seq(Record) /\ Len(q) <= QueueCapacity
    /\ \A i \in 1..Len(q) : q[i] <= n /\ f[q[i]] = {} /\ q[i] \notin w.batch
    /\ \A i, k \in 1..Len(q) : q[i] = q[k] => i = k

FateHolds(n, q, w, f) ==
    \A r \in Record :
        /\ r > n => f[r] = {}
        /\ r <= n /\ f[r] = {} => r \in w.batch \/ \E i \in 1..Len(q) : q[i] = r
        /\ \E x \in Fates : f[r] \subseteq {"indeterminate", x}

\* A batch may only be abandoned once it was counted.
WorkerHolds(n, w, f) ==
    /\ \A r \in w.batch : r <= n /\ f[r] \subseteq {"indeterminate"}
    /\ w.told => \A r \in w.batch : "indeterminate" \in f[r]
    /\ w.cancel => w.told
    /\ w.pc # "exporting" => w.batch = {}
    /\ w.told /\ w.pc = "waiting" => w.cancel

ChannelHolds(n, q, w, f) ==
    /\ w \in Worker0 /\ f \in [Record -> SUBSET Fates]
    /\ QueueHolds(n, q, w, f) /\ FateHolds(n, q, w, f) /\ WorkerHolds(n, w, f)

\* Nothing was lost to the shutdown.
Unharmed(f) == \A r \in Record : f[r] \cap {"shutdown_timeout", "indeterminate"} = {}

\* What the phase says of the channel.
PhaseHolds(p, done, q, w, f) ==
    /\ p \in {"running", "flushing"} => ~w.told /\ ~done /\ Unharmed(f)
    /\ p \notin {"running", "flushing"} => w.told
    /\ done => q = <<>> /\ w.batch = {} /\ Unharmed(f)

Tabled ==
    /\ phase \in {"running", "flushing", "terminating", "closed", "degraded"}
    /\ emitted \in 0..MaxRecords
    /\ queue \in [Channels -> Seq(Record)]
    /\ worker \in [Channels -> Worker0]
    /\ fate \in [Channels -> [Record -> SUBSET Fates]]
    /\ flushed \in BOOLEAN

ExportInv ==
    /\ Tabled
    /\ \A c \in Channels : /\ ChannelHolds(emitted, queue[c], worker[c], fate[c])
                           /\ PhaseHolds(phase, flushed, queue[c], worker[c], fate[c])
-----------------------------------------------------------------------------
LEMMA ExportInit == Init => ExportInv
  <1> SUFFICES ASSUME Init PROVE ExportInv
    OBVIOUS
  <1> DEFINE none == [r \in Record |-> {}]
  <1>1. /\ phase = "running" /\ emitted = 0 /\ queue = [c \in Channels |-> <<>>]
        /\ worker = [c \in Channels |-> Waiting] /\ fate = [c \in Channels |-> none] /\ flushed = FALSE
    BY DEF Init
  <1>2. /\ Waiting \in Worker0 /\ Waiting.batch = {} /\ ~Waiting.told /\ ~Waiting.cancel
        /\ Waiting.pc = "waiting"
    BY ExporterConfigAssumption DEF Waiting, Worker0
  <1>3. none \in [Record -> SUBSET Fates] /\ \A r \in Record : none[r] = {}
    OBVIOUS
  <1>4. <<>> \in Seq(Record) /\ Len(<<>>) = 0
    OBVIOUS
  <1> HIDE DEF none
  <1>5. QueueHolds(0, <<>>, Waiting, none)
    BY <1>4, ExporterConfigAssumption DEF QueueHolds
  <1>6. FateHolds(0, <<>>, Waiting, none)
    BY <1>3, ExporterConfigAssumption DEF FateHolds, Record, Fates
  <1>7. ChannelHolds(0, <<>>, Waiting, none)
    BY <1>2, <1>3, <1>5, <1>6 DEF ChannelHolds, WorkerHolds
  <1>8. PhaseHolds("running", FALSE, <<>>, Waiting, none)
    BY <1>2, <1>3 DEF PhaseHolds, Unharmed
  <1>9. Tabled
    <2>1. 0 \in 0..MaxRecords
      BY ExporterConfigAssumption
    <2>2. queue \in [Channels -> Seq(Record)] /\ worker \in [Channels -> Worker0]
          /\ fate \in [Channels -> [Record -> SUBSET Fates]]
      BY <1>1, <1>2, <1>3, <1>4
    <2> QED
      BY <1>1, <2>1, <2>2 DEF Tabled
  <1> QED
    BY <1>1, <1>7, <1>8, <1>9 DEF ExportInv

\* A step of one worker.
LEMMA OneChannel ==
    ASSUME ExportInv, NEW c \in Channels, NEW q, NEW w, NEW f,
           queue' = [queue EXCEPT ![c] = q], worker' = [worker EXCEPT ![c] = w],
           fate' = [fate EXCEPT ![c] = f],
           phase' = phase, emitted' = emitted, flushed' = flushed,
           ChannelHolds(emitted, q, w, f), PhaseHolds(phase, flushed, q, w, f)
    PROVE  ExportInv'
  <1>1. q \in Seq(Record) /\ w \in Worker0 /\ f \in [Record -> SUBSET Fates]
    BY DEF ChannelHolds, QueueHolds
  <1>2. Tabled'
    BY <1>1 DEF ExportInv, Tabled
  <1>3. ASSUME NEW d \in Channels
        PROVE  /\ ChannelHolds(emitted, queue'[d], worker'[d], fate'[d])
               /\ PhaseHolds(phase, flushed, queue'[d], worker'[d], fate'[d])
    <2>1. CASE d = c
      BY <2>1 DEF ExportInv, Tabled
    <2>2. CASE d # c
      BY <2>2 DEF ExportInv, Tabled
    <2> QED
      BY <2>1, <2>2
  <1> QED
    BY <1>2, <1>3 DEF ExportInv, ChannelHolds, QueueHolds, FateHolds, WorkerHolds, PhaseHolds, Unharmed

\* What the invariant says of a channel, for the lemmas below.
LEMMA ChannelFacts ==
    ASSUME ExportInv, NEW c \in Channels
    PROVE  /\ ChannelHolds(emitted, queue[c], worker[c], fate[c])
           /\ PhaseHolds(phase, flushed, queue[c], worker[c], fate[c])
           /\ emitted \in Nat /\ queue[c] \in Seq(Record) /\ worker[c] \in Worker0
           /\ fate[c] \in [Record -> SUBSET Fates] /\ Len(queue[c]) \in Nat
           /\ queue = [queue EXCEPT ![c] = queue[c]] /\ fate = [fate EXCEPT ![c] = fate[c]]
  BY ExporterConfigAssumption DEF ExportInv, Tabled

LEMMA TakeBatchKeeps ==
    ASSUME ExportInv, NEW c \in Channels, TakeBatch(c)
    PROVE  ExportInv'
  <1> DEFINE q == queue[c]
             f == fate[c]
             n == Least(BatchSize, Len(q))
             rest == SubSeq(q, n + 1, Len(q))
             w == [worker[c] EXCEPT !.pc = "exporting", !.attempts = 0, !.batch = {q[i] : i \in 1..n}]
  <1>1. /\ worker[c].pc = "waiting" /\ ~worker[c].cancel /\ n > 0
        /\ queue' = [queue EXCEPT ![c] = rest]
        /\ phase' = phase /\ emitted' = emitted /\ flushed' = flushed /\ fate' = [fate EXCEPT ![c] = f]
    BY ChannelFacts DEF TakeBatch
  <1>2. worker' = [worker EXCEPT ![c] = w]
    BY DEF TakeBatch
  <1>3. /\ ChannelHolds(emitted, q, worker[c], f) /\ PhaseHolds(phase, flushed, q, worker[c], f)
        /\ emitted \in Nat /\ q \in Seq(Record) /\ Len(q) \in Nat /\ worker[c] \in Worker0
        /\ f \in [Record -> SUBSET Fates]
    BY ChannelFacts
  <1>4. n \in 1..Len(q)
    BY <1>1, <1>3, ExporterConfigAssumption DEF Least
  <1> HIDE DEF n
  <1>5. \A i \in 1..Len(q) : q[i] \in Record
    BY <1>3
  <1>6. /\ rest \in Seq(Record) /\ Len(rest) = Len(q) - n
        /\ \A i \in 1..Len(rest) : rest[i] = q[n + i] /\ n + i \in 1..Len(q)
    <2>1. n + 1 \in Int /\ Len(q) \in Int /\ \A i \in (n + 1)..Len(q) : q[i] \in Record
      BY <1>3, <1>4, <1>5
    <2>2. /\ rest \in Seq(Record)
          /\ Len(rest) = IF n + 1 <= Len(q) THEN Len(q) - (n + 1) + 1 ELSE 0
          /\ \A i \in 1..(Len(q) - (n + 1) + 1) : rest[i] = q[(n + 1) + i - 1]
      BY <2>1, SubSeqProperties
    <2>3. Len(rest) = Len(q) - n
      BY <1>3, <1>4, <2>2
    <2>4. \A i \in 1..(Len(q) - n) : (n + 1) + i - 1 = n + i /\ n + i \in 1..Len(q)
      BY <1>3, <1>4
    <2>5. Len(q) - (n + 1) + 1 = Len(q) - n
      BY <1>3, <1>4
    <2> QED
      BY <2>2, <2>3, <2>4, <2>5
  <1> HIDE DEF rest
  <1>7. /\ w \in Worker0 /\ w.batch = {q[i] : i \in 1..n} /\ w.pc = "exporting"
        /\ w.told = worker[c].told /\ w.cancel = worker[c].cancel
    <2> DEFINE taken == {q[i] : i \in 1..n}
    <2>1. \A i \in 1..n : q[i] \in Record
      BY <1>3, <1>4, <1>5
    <2>2. taken \in SUBSET Record /\ 0 \in 0..MaxRetries
      BY <2>1, ExporterConfigAssumption
    <2>3. w = [worker[c] EXCEPT !.pc = "exporting", !.attempts = 0, !.batch = taken]
      OBVIOUS
    <2> HIDE DEF w, taken
    <2>4. w \in Worker0 /\ w.batch = taken /\ w.pc = "exporting" /\ w.told = worker[c].told /\ w.cancel = worker[c].cancel
      BY <1>3, <2>2, <2>3 DEF Worker0
    <2> QED
      BY <2>4 DEF taken
  <1>8. ~worker[c].told /\ ~flushed /\ worker[c].batch = {}
    BY <1>1, <1>3, <1>4 DEF ChannelHolds, WorkerHolds, PhaseHolds
  <1> HIDE DEF w, q, f
  <1>9. /\ QueueHolds(emitted, q, worker[c], f) /\ FateHolds(emitted, q, worker[c], f)
    BY <1>3 DEF ChannelHolds
  <1>10. QueueHolds(emitted, rest, w, f)
    <2>1. Len(rest) <= QueueCapacity
      BY <1>3, <1>4, <1>6, <1>9, ExporterConfigAssumption DEF QueueHolds
    <2>2. ASSUME NEW i \in 1..Len(rest)
          PROVE  rest[i] <= emitted /\ f[rest[i]] = {} /\ rest[i] \notin w.batch
      <3>1. n + i \in 1..Len(q) /\ rest[i] = q[n + i]
        BY <1>6
      <3>2. \A k \in 1..n : k \in 1..Len(q) /\ k # n + i
        BY <1>3, <1>4, <1>6
      <3> QED
        BY <1>7, <1>9, <3>1, <3>2 DEF QueueHolds
    <2>3. ASSUME NEW i \in 1..Len(rest), NEW k \in 1..Len(rest), rest[i] = rest[k] PROVE i = k
      <3>1. n + i = n + k
        BY <1>6, <1>9, <2>3 DEF QueueHolds
      <3> QED
        BY <1>4, <3>1
    <2> QED
      BY <1>6, <2>1, <2>2, <2>3 DEF QueueHolds
  <1>11. FateHolds(emitted, rest, w, f)
    <2>1. ASSUME NEW r \in Record, r <= emitted, f[r] = {}
          PROVE  r \in w.batch \/ \E i \in 1..Len(rest) : rest[i] = r
      <3>1. PICK i \in 1..Len(q) : q[i] = r
        BY <1>8, <1>9, <2>1 DEF FateHolds
      <3>2. CASE i <= n
        BY <1>3, <1>4, <1>7, <3>1, <3>2
      <3>3. CASE i > n
        <4>1. i - n \in 1..Len(rest) /\ n + (i - n) = i
          BY <1>3, <1>4, <1>6, <3>1, <3>3
        <4> QED
          BY <1>6, <3>1, <4>1
      <3> QED
        BY <1>4, <3>1, <3>2, <3>3
    <2> QED
      BY <1>9, <2>1 DEF FateHolds
  <1>12. \A r \in w.batch : r <= emitted /\ f[r] = {}
    <2>1. \A i \in 1..n : i \in 1..Len(q)
      BY <1>3, <1>4
    <2> QED
      BY <1>7, <1>9, <2>1, SMTT(30) DEF QueueHolds
  <1>13. WorkerHolds(emitted, w, f)
    BY <1>1, <1>7, <1>8, <1>12 DEF WorkerHolds
  <1>14. ChannelHolds(emitted, rest, w, f)
    BY <1>3, <1>7, <1>10, <1>11, <1>13 DEF ChannelHolds
  <1>15. PhaseHolds(phase, flushed, rest, w, f)
    BY <1>3, <1>7, <1>8 DEF PhaseHolds
  <1> QED
    BY <1>1, <1>2, <1>14, <1>15, OneChannel

\* Counting a batch of records the queue does not hold, with one more reason.
LEMMA CountedFacts ==
    ASSUME ExportInv, NEW c \in Channels, NEW reason \in Fates, NEW records
    PROVE  /\ Counted(c, records, reason) \in [Record -> SUBSET Fates]
           /\ \A r \in Record : Counted(c, records, reason)[r] =
                                  IF r \in records THEN fate[c][r] \cup {reason} ELSE fate[c][r]
  BY ChannelFacts DEF Counted

\* The worker is done with its batch, which is counted with its outcome.
LEMMA BatchEnds ==
    ASSUME ExportInv, NEW c \in Channels, NEW reason \in {"delivered", "export_failed"}, NEW w \in Worker0,
           w.batch = {}, w.told = worker[c].told, w.pc = "waiting" => ~w.told,
           w.cancel => w.told
    PROVE  /\ ChannelHolds(emitted, queue[c], w, Counted(c, worker[c].batch, reason))
           /\ PhaseHolds(phase, flushed, queue[c], w, Counted(c, worker[c].batch, reason))
  <1> DEFINE q == queue[c]
             f == Counted(c, worker[c].batch, reason)
  <1>1. /\ ChannelHolds(emitted, q, worker[c], fate[c]) /\ PhaseHolds(phase, flushed, q, worker[c], fate[c])
        /\ emitted \in Nat /\ q \in Seq(Record) /\ Len(q) \in Nat
    BY ChannelFacts
  <1>2. reason \in Fates /\ reason \notin {"shutdown_timeout", "indeterminate"}
    BY DEF Fates, Reasons
  <1>3. /\ f \in [Record -> SUBSET Fates]
        /\ \A r \in Record : f[r] = IF r \in worker[c].batch THEN fate[c][r] \cup {reason} ELSE fate[c][r]
    BY <1>2, CountedFacts
  <1>4. worker[c].batch \subseteq Record
    BY ChannelFacts DEF Worker0
  <1> HIDE DEF f, q
  <1>5. /\ QueueHolds(emitted, q, worker[c], fate[c]) /\ FateHolds(emitted, q, worker[c], fate[c])
        /\ WorkerHolds(emitted, worker[c], fate[c])
    BY <1>1 DEF ChannelHolds
  <1>6. QueueHolds(emitted, q, w, f)
    <2>1. \A i \in 1..Len(q) : q[i] \in Record
      BY <1>1
    <2> QED
      BY <1>3, <1>5, <2>1 DEF QueueHolds
  <1>7. FateHolds(emitted, q, w, f)
    <2>1. ASSUME NEW r \in Record
          PROVE  /\ r > emitted => f[r] = {}
                 /\ r <= emitted /\ f[r] = {} => \E i \in 1..Len(q) : q[i] = r
                 /\ \E x \in Fates : f[r] \subseteq {"indeterminate", x}
      <3>1. CASE r \in worker[c].batch
        <4>1. r <= emitted /\ fate[c][r] \subseteq {"indeterminate"}
          BY <1>5, <3>1 DEF WorkerHolds
        <4>2. f[r] \subseteq {"indeterminate", reason} /\ f[r] # {}
          BY <1>3, <3>1, <4>1
        <4>3. ~(r > emitted)
          BY <1>1, <4>1 DEF Record
        <4> QED
          BY <1>2, <4>2, <4>3
      <3>2. CASE r \notin worker[c].batch
        BY <1>3, <1>5, <3>2 DEF FateHolds
      <3> QED
        BY <3>1, <3>2
    <2> QED
      BY <2>1 DEF FateHolds
  <1>8. WorkerHolds(emitted, w, f)
    BY DEF WorkerHolds
  <1>9. ChannelHolds(emitted, q, w, f)
    BY <1>1, <1>3, <1>6, <1>7, <1>8 DEF ChannelHolds
  <1>10. ASSUME Unharmed(fate[c]) PROVE Unharmed(f)
    BY <1>2, <1>3, <1>10 DEF Unharmed
  <1>11. PhaseHolds(phase, flushed, q, w, f)
    BY <1>1, <1>10 DEF PhaseHolds
  <1> QED
    BY <1>9, <1>11 DEF f, q

LEMMA FinishedType ==
    ASSUME ExportInv, NEW c \in Channels, Exporting(c)
    PROVE  LET w == Finished(c)
           IN  /\ w \in Worker0 /\ w.batch = {} /\ w.told = worker[c].told /\ (w.pc = "waiting" => ~w.told)
               /\ (w.cancel => w.told) /\ w.pc # "exporting"
  <1> DEFINE old == worker[c]
             pc == IF old.told THEN "ended" ELSE "waiting"
             w == [old EXCEPT !.pc = pc, !.batch = {}]
  <1>1. old \in Worker0 /\ ~old.cancel /\ Finished(c) = w
    BY ChannelFacts DEF Exporting, Finished
  <1>2. pc \in {"waiting", "ended"} /\ (pc = "waiting" => ~old.told)
    OBVIOUS
  <1> HIDE DEF old, pc
  <1>3. w \in Worker0 /\ w.batch = {} /\ w.told = old.told /\ w.pc = pc /\ w.cancel = old.cancel
    BY <1>1, <1>2 DEF Worker0
  <1> QED
    BY <1>1, <1>2, <1>3 DEF old

LEMMA ExportSucceedsKeeps ==
    ASSUME ExportInv, NEW c \in Channels, ExportSucceeds(c)
    PROVE  ExportInv'
  <1> DEFINE w == Finished(c)
             f == Counted(c, worker[c].batch, "delivered")
  <1>1. /\ Exporting(c) /\ worker' = [worker EXCEPT ![c] = w] /\ fate' = [fate EXCEPT ![c] = f]
        /\ queue' = [queue EXCEPT ![c] = queue[c]]
        /\ phase' = phase /\ emitted' = emitted /\ flushed' = flushed
    BY ChannelFacts DEF ExportSucceeds
  <1>2. ChannelHolds(emitted, queue[c], w, f) /\ PhaseHolds(phase, flushed, queue[c], w, f)
    BY <1>1, FinishedType, BatchEnds
  <1> QED
    BY <1>1, <1>2, OneChannel

LEMMA ExportFailsKeeps ==
    ASSUME ExportInv, NEW c \in Channels, ExportFails(c)
    PROVE  ExportInv'
  <1>1. /\ Exporting(c) /\ queue' = [queue EXCEPT ![c] = queue[c]]
        /\ phase' = phase /\ emitted' = emitted /\ flushed' = flushed
    BY ChannelFacts DEF ExportFails
  <1>2. CASE worker[c].attempts < MaxRetries
    <2> DEFINE old == worker[c]
               w == [old EXCEPT !.attempts = old.attempts + 1]
    <2>1. worker' = [worker EXCEPT ![c] = w] /\ fate' = [fate EXCEPT ![c] = fate[c]]
      BY <1>2, ChannelFacts DEF ExportFails
    <2>2. /\ ChannelHolds(emitted, queue[c], old, fate[c])
          /\ PhaseHolds(phase, flushed, queue[c], old, fate[c])
      BY ChannelFacts
    <2>3. old \in Worker0 /\ old.attempts + 1 \in 0..MaxRetries
      BY <1>2, ChannelFacts, ExporterConfigAssumption DEF Worker0
    <2> HIDE DEF old
    <2>4. w \in Worker0 /\ w.batch = old.batch /\ w.told = old.told /\ w.cancel = old.cancel /\ w.pc = old.pc
      BY <2>3 DEF Worker0
    <2> HIDE DEF w
    <2>5. ChannelHolds(emitted, queue[c], w, fate[c]) /\ PhaseHolds(phase, flushed, queue[c], w, fate[c])
      BY <2>2, <2>4 DEF ChannelHolds, QueueHolds, FateHolds, WorkerHolds, PhaseHolds
    <2> QED
      BY <1>1, <2>1, <2>5, OneChannel
  <1>3. CASE ~(worker[c].attempts < MaxRetries)
    <2> DEFINE w == Finished(c)
               f == Counted(c, worker[c].batch, "export_failed")
    <2>1. worker' = [worker EXCEPT ![c] = w] /\ fate' = [fate EXCEPT ![c] = f]
      BY <1>3 DEF ExportFails
    <2>2. ChannelHolds(emitted, queue[c], w, f) /\ PhaseHolds(phase, flushed, queue[c], w, f)
      BY <1>1, FinishedType, BatchEnds
    <2> QED
      BY <1>1, <2>1, <2>2, OneChannel
  <1> QED
    BY <1>2, <1>3

LEMMA ExportLeavesCancellationKeeps ==
    ASSUME ExportInv, NEW c \in Channels, ExportLeavesCancellation(c)
    PROVE  ExportInv'
  <1> DEFINE old == worker[c]
             w == [old EXCEPT !.pc = "ended", !.batch = {}]
             f == Counted(c, worker[c].batch, "delivered")
  <1>1. /\ Exporting(c) /\ ~old.told /\ worker' = [worker EXCEPT ![c] = w] /\ fate' = [fate EXCEPT ![c] = f]
        /\ queue' = [queue EXCEPT ![c] = queue[c]]
        /\ phase' = phase /\ emitted' = emitted /\ flushed' = flushed
    BY ChannelFacts DEF ExportLeavesCancellation
  <1>2. old \in Worker0 /\ ~old.cancel
    BY <1>1, ChannelFacts DEF Exporting
  <1>3. w \in Worker0 /\ w.batch = {} /\ w.told = old.told /\ w.cancel = old.cancel /\ w.pc = "ended"
    BY <1>2 DEF Worker0
  <1> HIDE DEF w
  <1>4. ChannelHolds(emitted, queue[c], w, f) /\ PhaseHolds(phase, flushed, queue[c], w, f)
    BY <1>1, <1>2, <1>3, BatchEnds
  <1> QED
    BY <1>1, <1>4, OneChannel

\* A worker that ends without an outcome was told to: its batch was counted when it was.
LEMMA CancellationKeeps ==
    ASSUME ExportInv, NEW c \in Channels, WorkerCancelled(c) \/ CancellationSuppressed(c)
    PROVE  ExportInv'
  <1> DEFINE old == worker[c]
             ended == [old EXCEPT !.pc = "ended", !.batch = {}, !.cancel = FALSE]
             kept == [old EXCEPT !.cancel = FALSE]
             q == queue[c]
             f == fate[c]
  <1>1. /\ queue' = [queue EXCEPT ![c] = q] /\ fate' = [fate EXCEPT ![c] = f]
        /\ phase' = phase /\ emitted' = emitted /\ flushed' = flushed
    BY ChannelFacts DEF WorkerCancelled, CancellationSuppressed
  <1>2. /\ ChannelHolds(emitted, q, old, f) /\ PhaseHolds(phase, flushed, q, old, f) /\ old \in Worker0
    BY ChannelFacts
  <1>3. CASE WorkerCancelled(c)
    <2>1. worker' = [worker EXCEPT ![c] = ended] /\ (old.cancel \/ old.told)
      BY <1>3 DEF WorkerCancelled
    <2> HIDE DEF old, q, f
    <2>2. /\ ended \in Worker0 /\ ended.batch = {} /\ ended.told = old.told /\ ended.cancel = FALSE
          /\ ended.pc = "ended"
      BY <1>2 DEF Worker0
    <2> HIDE DEF ended
    <2>3. old.told /\ \A r \in old.batch : f[r] # {}
      BY <1>2, <2>1 DEF ChannelHolds, WorkerHolds
    <2>4. ChannelHolds(emitted, q, ended, f) /\ PhaseHolds(phase, flushed, q, ended, f)
      BY <1>2, <2>2, <2>3 DEF ChannelHolds, QueueHolds, FateHolds, WorkerHolds, PhaseHolds
    <2> QED
      BY <1>1, <2>1, <2>4, OneChannel
  <1>4. CASE CancellationSuppressed(c)
    <2>1. worker' = [worker EXCEPT ![c] = kept] /\ old.pc = "exporting"
      BY <1>4 DEF CancellationSuppressed
    <2> HIDE DEF old, q, f
    <2>2. /\ kept \in Worker0 /\ kept.batch = old.batch /\ kept.told = old.told /\ kept.cancel = FALSE
          /\ kept.pc = "exporting"
      BY <1>2, <2>1 DEF Worker0
    <2> HIDE DEF kept
    <2>3. ChannelHolds(emitted, q, kept, f) /\ PhaseHolds(phase, flushed, q, kept, f)
      BY <1>2, <2>2 DEF ChannelHolds, QueueHolds, FateHolds, WorkerHolds, PhaseHolds
    <2> QED
      BY <1>1, <2>1, <2>3, OneChannel
  <1> QED
    BY <1>3, <1>4

-----------------------------------------------------------------------------
\* Steps of every channel at once.
LEMMA AllChannels ==
    ASSUME Tabled',
           \A c \in Channels : /\ ChannelHolds(emitted', queue'[c], worker'[c], fate'[c])
                               /\ PhaseHolds(phase', flushed', queue'[c], worker'[c], fate'[c])
    PROVE  ExportInv'
  BY DEF ExportInv, ChannelHolds, QueueHolds, FateHolds, WorkerHolds, PhaseHolds, Unharmed

LEMMA FinishRequestKeeps ==
    ASSUME ExportInv, FinishRequest
    PROVE  ExportInv'
  <1> DEFINE r == emitted + 1
             Q(c) == IF phase = "running" /\ RoomIn(c) THEN Append(queue[c], r) ELSE queue[c]
             F(c) == IF phase # "running" THEN Counted(c, {r}, "not_running")
                     ELSE IF ~RoomIn(c) THEN Counted(c, {r}, "queue_full") ELSE fate[c]
  <1>1. /\ emitted' = r /\ emitted < MaxRecords
        /\ queue' = [c \in Channels |-> Q(c)] /\ fate' = [c \in Channels |-> F(c)]
        /\ phase' = phase /\ worker' = worker /\ flushed' = flushed
    BY DEF FinishRequest
  <1>2. emitted \in Nat /\ r \in 0..MaxRecords /\ r \in Record /\ r \in Nat
    BY <1>1, ExporterConfigAssumption DEF ExportInv, Tabled, Record
  <1>3. ASSUME NEW c \in Channels
        PROVE  ChannelHolds(r, Q(c), worker[c], F(c)) /\ PhaseHolds(phase, flushed, Q(c), worker[c], F(c))
    <2> DEFINE q == queue[c]
               w == worker[c]
               f == fate[c]
    <2>1. /\ ChannelHolds(emitted, q, w, f) /\ PhaseHolds(phase, flushed, q, w, f)
          /\ q \in Seq(Record) /\ Len(q) \in Nat /\ w \in Worker0
          /\ f \in [Record -> SUBSET Fates]
      BY ChannelFacts
    <2>2. /\ f[r] = {} /\ r \notin w.batch /\ \A i \in 1..Len(q) : q[i] # r /\ q[i] \in Record
      <3>1. \A i \in 1..Len(q) : q[i] \in Record /\ q[i] <= emitted
        BY <2>1 DEF ChannelHolds, QueueHolds
      <3>2. \A x \in w.batch : x <= emitted
        BY <2>1 DEF ChannelHolds, WorkerHolds
      <3>3. f[r] = {}
        BY <1>2, <2>1 DEF ChannelHolds, FateHolds
      <3> QED
        BY <1>2, <3>1, <3>2, <3>3 DEF Record
    <2>3. \A x \in Record : (x <= r <=> x <= emitted \/ x = r) /\ (x > r => x > emitted)
      BY <1>2 DEF Record
    <2>4. /\ QueueHolds(emitted, q, w, f) /\ FateHolds(emitted, q, w, f) /\ WorkerHolds(emitted, w, f)
          /\ w.batch \subseteq Record
      BY <2>1 DEF ChannelHolds, Worker0
    <2>5. ASSUME NEW reason \in {"not_running", "queue_full"}
          PROVE  /\ ChannelHolds(r, q, w, Counted(c, {r}, reason))
                 /\ Unharmed(f) => Unharmed(Counted(c, {r}, reason))
      <3> DEFINE g == Counted(c, {r}, reason)
      <3>1. reason \in Fates /\ reason \notin {"shutdown_timeout", "indeterminate"}
        BY DEF Fates, Reasons
      <3>2. g \in [Record -> SUBSET Fates] /\ g[r] = {reason} /\ \A x \in Record : x # r => g[x] = f[x]
        <4> DEFINE one == {r}
        <4>1. g = Counted(c, one, reason) /\ \A x : x \in one <=> x = r
          OBVIOUS
        <4> HIDE DEF g, one, r, f
        <4>2. /\ g \in [Record -> SUBSET Fates]
              /\ \A x \in Record : g[x] = IF x \in one THEN f[x] \cup {reason} ELSE f[x]
          <5>1. reason \in Fates
            BY <3>1
          <5>2. /\ Counted(c, one, reason) \in [Record -> SUBSET Fates]
                /\ \A x \in Record : Counted(c, one, reason)[x] =
                                       IF x \in one THEN fate[c][x] \cup {reason} ELSE fate[c][x]
            BY ONLY ExportInv, <5>1, CountedFacts
          <5> QED
            BY <4>1, <5>2 DEF f
        <4> QED
          BY <1>2, <2>2, <4>1, <4>2
      <3> HIDE DEF g, q, w, f
      <3>3. QueueHolds(r, q, w, g)
        BY <2>2, <2>3, <2>4, <3>2 DEF QueueHolds
      <3>4. FateHolds(r, q, w, g)
        <4>1. ASSUME NEW x \in Record
              PROVE  /\ x > r => g[x] = {}
                     /\ x <= r /\ g[x] = {} => x \in w.batch \/ \E i \in 1..Len(q) : q[i] = x
                     /\ \E y \in Fates : g[x] \subseteq {"indeterminate", y}
          <5>1. CASE x = r
            BY <1>2, <3>1, <3>2, <5>1
          <5>2. CASE x # r
            BY <2>3, <2>4, <3>2, <5>2 DEF FateHolds
          <5> QED
            BY <5>1, <5>2
        <4> QED
          BY <4>1 DEF FateHolds
      <3>5. WorkerHolds(r, w, g)
        BY <2>2, <2>3, <2>4, <3>2 DEF WorkerHolds
      <3>6. Unharmed(f) => Unharmed(g)
        BY <3>1, <3>2 DEF Unharmed
      <3> QED
        BY <2>1, <3>2, <3>3, <3>4, <3>5, <3>6 DEF ChannelHolds, g
    <2>6. CASE phase # "running"
      BY <2>1, <2>5, <2>6 DEF PhaseHolds
    <2>7. CASE phase = "running" /\ ~RoomIn(c)
      BY <2>1, <2>5, <2>7 DEF PhaseHolds
    <2>8. CASE phase = "running" /\ RoomIn(c)
      <3> DEFINE L == Append(q, r)
      <3>1. Q(c) = L /\ F(c) = f
        BY <2>8
      <3>2. /\ L \in Seq(Record) /\ Len(L) = Len(q) + 1 /\ L[Len(q) + 1] = r
            /\ \A i \in 1..Len(q) : L[i] = q[i]
        BY <1>2, <2>1
      <3>3. Len(L) <= QueueCapacity
        BY <2>1, <2>8, <3>2, ExporterConfigAssumption DEF RoomIn
      <3> HIDE DEF L, q, w, f, Q, F
      <3>4. \A i \in 1..Len(L) : i \in 1..Len(q) \/ i = Len(q) + 1
        BY <2>1, <3>2
      <3>5. QueueHolds(r, L, w, f)
        <4>1. \A i \in 1..Len(L) : L[i] <= r /\ f[L[i]] = {} /\ L[i] \notin w.batch
          BY <1>2, <2>2, <2>3, <2>4, <3>2, <3>4, ZenonT(40) DEF QueueHolds
        <4>2. \A i, k \in 1..Len(L) : L[i] = L[k] => i = k
          BY <2>2, <2>4, <3>2, <3>4 DEF QueueHolds
        <4> QED
          BY <3>2, <3>3, <4>1, <4>2 DEF QueueHolds
      <3>6. FateHolds(r, L, w, f)
        <4>1. ASSUME NEW x \in Record, x <= r, f[x] = {}
              PROVE  x \in w.batch \/ \E i \in 1..Len(L) : L[i] = x
          <5>1. CASE x = r
            <6>1. Len(q) + 1 \in 1..Len(L)
              BY <2>1, <3>2
            <6> QED
              BY <3>2, <5>1, <6>1
          <5>2. CASE x # r
            <6>1. x \in w.batch \/ \E i \in 1..Len(q) : q[i] = x
              BY <2>3, <2>4, <4>1, <5>2 DEF FateHolds
            <6>2. \A i \in 1..Len(q) : i \in 1..Len(L)
              BY <2>1, <3>2
            <6> QED
              BY <3>2, <6>1, <6>2
          <5> QED
            BY <5>1, <5>2
        <4> QED
          BY <2>3, <2>4, <4>1 DEF FateHolds
      <3>7. WorkerHolds(r, w, f)
        BY <2>3, <2>4 DEF WorkerHolds
      <3>8. PhaseHolds(phase, flushed, L, w, f)
        BY <2>1, <2>8 DEF PhaseHolds
      <3>9. ChannelHolds(r, L, w, f)
        BY <2>1, <3>5, <3>6, <3>7 DEF ChannelHolds
      <3> QED
        BY <3>1, <3>8, <3>9 DEF w
    <2> QED
      BY <2>6, <2>7, <2>8
  <1> HIDE DEF Q, F, r
  <1>4. worker' = [c \in Channels |-> worker[c]] /\ phase \in {"running", "flushing", "terminating", "closed", "degraded"}
        /\ flushed \in BOOLEAN
    BY <1>1 DEF ExportInv, Tabled
  <1>5. ASSUME NEW c \in Channels
        PROVE  Q(c) \in Seq(Record) /\ F(c) \in [Record -> SUBSET Fates] /\ worker[c] \in Worker0
    BY <1>3 DEF ChannelHolds, QueueHolds
  <1>6. Tabled'
    BY <1>1, <1>2, <1>4, <1>5 DEF Tabled
  <1> QED
    BY <1>1, <1>3, <1>6 DEF ExportInv, ChannelHolds, QueueHolds, FateHolds, WorkerHolds, PhaseHolds, Unharmed

LEMMA BeginStopKeeps ==
    ASSUME ExportInv, BeginStop
    PROVE  ExportInv'
  <1>1. /\ phase = "running" /\ phase' = "flushing"
        /\ emitted' = emitted /\ queue' = queue /\ worker' = worker /\ fate' = fate /\ flushed' = flushed
    BY DEF BeginStop
  <1>2. Tabled'
    BY <1>1 DEF ExportInv, Tabled
  <1>3. ASSUME NEW c \in Channels
        PROVE  /\ ChannelHolds(emitted, queue[c], worker[c], fate[c])
               /\ PhaseHolds("flushing", flushed, queue[c], worker[c], fate[c])
    BY <1>1, ChannelFacts DEF PhaseHolds
  <1> QED
    BY <1>1, <1>2, <1>3 DEF ExportInv, ChannelHolds, QueueHolds, FateHolds, WorkerHolds, PhaseHolds, Unharmed

\* Every worker is asked to end.
Asked(w) == [w EXCEPT !.told = TRUE, !.cancel = w.pc # "ended"]

LEMMA AskedFacts ==
    ASSUME NEW w \in Worker0
    PROVE  /\ Asked(w) \in Worker0 /\ Asked(w).batch = w.batch /\ Asked(w).pc = w.pc
           /\ Asked(w).told /\ (Asked(w).cancel <=> w.pc # "ended")
  <1> DEFINE b == (w.pc # "ended")
  <1>1. b \in BOOLEAN /\ Asked(w) = [w EXCEPT !.told = TRUE, !.cancel = b]
    BY DEF Asked
  <1> HIDE DEF b
  <1>2. /\ Asked(w) \in Worker0 /\ Asked(w).batch = w.batch /\ Asked(w).pc = w.pc
        /\ Asked(w).told = TRUE /\ Asked(w).cancel = b
    BY <1>1 DEF Worker0
  <1> QED
    BY <1>2 DEF b

LEMMA EndFlushKeeps ==
    ASSUME ExportInv, EndFlush
    PROVE  ExportInv'
  <1> DEFINE joined == Joined /\ flushed' = TRUE /\ fate' = fate
             F(c) == IF joined THEN fate[c] ELSE Counted(c, worker[c].batch, "indeterminate")
  <1>1. /\ phase = "flushing" /\ phase' = "terminating" /\ emitted' = emitted /\ queue' = queue
        /\ worker' = [c \in Channels |-> Asked(worker[c])]
    BY DEF EndFlush, CancelWorkers, Asked
  <1>2. /\ joined \/ flushed' = FALSE
        /\ \A c \in Channels : fate'[c] = F(c) /\ worker'[c] = Asked(worker[c])
        /\ flushed' \in BOOLEAN
    <2>1. \A c \in Channels : worker'[c] = Asked(worker[c])
      BY <1>1
    <2>2. \/ joined
          \/ flushed' = FALSE /\ fate' = [c \in Channels |-> Counted(c, worker[c].batch, "indeterminate")]
      BY DEF EndFlush
    <2>3. ASSUME NEW c \in Channels PROVE fate'[c] = F(c)
      <3>1. CASE joined
        BY <3>1
      <3>2. CASE ~joined
        BY <2>2, <3>2
      <3> QED
        BY <3>1, <3>2
    <2>4. flushed' \in BOOLEAN
      BY <2>2
    <2> QED
      BY <2>1, <2>2, <2>3, <2>4
  <1>3. ASSUME NEW c \in Channels
        PROVE  /\ ChannelHolds(emitted, queue[c], Asked(worker[c]), fate'[c])
               /\ PhaseHolds("terminating", flushed', queue[c], Asked(worker[c]), fate'[c])
    <2> DEFINE q == queue[c]
               w == worker[c]
               f == fate[c]
               g == fate'[c]
               x == Asked(w)
    <2>1. /\ ChannelHolds(emitted, q, w, f) /\ PhaseHolds(phase, flushed, q, w, f)
          /\ q \in Seq(Record) /\ w \in Worker0 /\ f \in [Record -> SUBSET Fates] /\ emitted \in Nat
      BY ChannelFacts
    <2>2. /\ QueueHolds(emitted, q, w, f) /\ FateHolds(emitted, q, w, f) /\ WorkerHolds(emitted, w, f)
          /\ w.batch \subseteq Record /\ Unharmed(f)
      BY <1>1, <2>1 DEF ChannelHolds, Worker0, PhaseHolds
    <2>3. x \in Worker0 /\ x.batch = w.batch /\ x.pc = w.pc /\ x.told /\ (x.cancel <=> w.pc # "ended")
      BY <2>1, AskedFacts
    <2>4. CASE joined
      <3>1. g = f /\ q = <<>> /\ w.batch = {} /\ flushed' = TRUE
        BY <1>2, <2>4 DEF Joined
      <3> HIDE DEF q, w, f, g, x
      <3>2. ChannelHolds(emitted, q, x, g)
        BY <2>1, <2>2, <2>3, <3>1 DEF ChannelHolds, QueueHolds, FateHolds, WorkerHolds
      <3>3. PhaseHolds("terminating", flushed', q, x, g)
        BY <2>2, <2>3, <3>1 DEF PhaseHolds
      <3> QED
        BY <3>2, <3>3 DEF q, w, g, x
    <2>5. CASE ~joined
      <3>1. g = Counted(c, w.batch, "indeterminate") /\ flushed' = FALSE
        BY <1>2, <2>5
      <3>2. "indeterminate" \in Fates
        BY DEF Fates
      <3>3. /\ g \in [Record -> SUBSET Fates]
            /\ \A r \in Record : g[r] = IF r \in w.batch THEN f[r] \cup {"indeterminate"} ELSE f[r]
        <4>1. /\ Counted(c, worker[c].batch, "indeterminate") \in [Record -> SUBSET Fates]
              /\ \A r \in Record : Counted(c, worker[c].batch, "indeterminate")[r] =
                    IF r \in worker[c].batch THEN fate[c][r] \cup {"indeterminate"} ELSE fate[c][r]
          BY <2>1, <3>2 DEF Counted
        <4> QED
          BY <3>1, <4>1
      <3> HIDE DEF q, w, f, g, x
      <3>4. QueueHolds(emitted, q, x, g)
        <4>1. \A i \in 1..Len(q) : q[i] \in Record
          BY <2>1
        <4> QED
          BY <2>2, <2>3, <3>3, <4>1 DEF QueueHolds
      <3>5. FateHolds(emitted, q, x, g)
        <4>1. ASSUME NEW r \in Record
              PROVE  /\ r > emitted => g[r] = {}
                     /\ r <= emitted /\ g[r] = {} => r \in x.batch \/ \E i \in 1..Len(q) : q[i] = r
                     /\ \E y \in Fates : g[r] \subseteq {"indeterminate", y}
          <5>1. CASE r \in w.batch
            <6>1. r <= emitted /\ ~(r > emitted)
              BY <2>1, <2>2, <5>1 DEF WorkerHolds, Record
            <6> QED
              BY <2>2, <2>3, <3>3, <5>1, <6>1 DEF FateHolds
          <5>2. CASE r \notin w.batch
            BY <2>2, <2>3, <3>3, <5>2 DEF FateHolds
          <5> QED
            BY <5>1, <5>2
        <4> QED
          BY <4>1 DEF FateHolds
      <3>6. WorkerHolds(emitted, x, g)
        BY <2>2, <2>3, <3>3 DEF WorkerHolds, Worker0
      <3>7. ChannelHolds(emitted, q, x, g)
        BY <2>3, <3>3, <3>4, <3>5, <3>6 DEF ChannelHolds
      <3>8. PhaseHolds("terminating", flushed', q, x, g)
        BY <2>3, <3>1 DEF PhaseHolds
      <3> QED
        BY <3>7, <3>8 DEF q, w, g, x
    <2> QED
      BY <2>4, <2>5
  <1>4. Tabled'
    <2>1. \A c \in Channels : Asked(worker[c]) \in Worker0 /\ fate'[c] \in [Record -> SUBSET Fates]
      BY <1>3 DEF ChannelHolds
    <2>2. worker' \in [Channels -> Worker0]
      BY <1>1, <2>1
    <2>3. fate' = [c \in Channels |-> fate'[c]]
      <3>1. fate' = fate \/ fate' = [c \in Channels |-> Counted(c, worker[c].batch, "indeterminate")]
        BY DEF EndFlush
      <3>2. fate = [c \in Channels |-> fate[c]]
        BY DEF ExportInv, Tabled
      <3> QED
        BY <3>1, <3>2
    <2>4. fate' \in [Channels -> [Record -> SUBSET Fates]]
      BY <2>1, <2>3
    <2> QED
      BY <1>1, <1>2, <2>2, <2>4 DEF ExportInv, Tabled
  <1> HIDE DEF joined, F
  <1> QED
    <2>1. ASSUME NEW c \in Channels PROVE queue'[c] = queue[c] /\ worker'[c] = Asked(worker[c])
      BY <1>1
    <2> QED
      BY <1>1, <1>3, <1>4, <2>1, AllChannels

LEMMA EndStopKeeps ==
    ASSUME ExportInv, EndStop
    PROVE  ExportInv'
  <1> DEFINE F(c) == Counted(c, Queued(c), "shutdown_timeout")
  <1>1. /\ phase = "terminating" /\ phase' \in {"closed", "degraded"} /\ emitted' = emitted /\ flushed' = flushed
        /\ queue' = [c \in Channels |-> <<>>] /\ fate' = [c \in Channels |-> F(c)]
        /\ worker' = [c \in Channels |-> Asked(worker[c])]
    BY DEF EndStop, CancelWorkers, Asked
  <1>2. ASSUME NEW c \in Channels
        PROVE  /\ ChannelHolds(emitted, <<>>, Asked(worker[c]), F(c))
               /\ PhaseHolds(phase', flushed, <<>>, Asked(worker[c]), F(c))
    <2> DEFINE q == queue[c]
               w == worker[c]
               f == fate[c]
               g == F(c)
               x == Asked(w)
               left == Queued(c)
    <2>1. /\ ChannelHolds(emitted, q, w, f) /\ PhaseHolds(phase, flushed, q, w, f)
          /\ q \in Seq(Record) /\ Len(q) \in Nat /\ w \in Worker0 /\ f \in [Record -> SUBSET Fates] /\ emitted \in Nat
      BY ChannelFacts
    <2>2. /\ QueueHolds(emitted, q, w, f) /\ FateHolds(emitted, q, w, f) /\ WorkerHolds(emitted, w, f)
          /\ w.batch \subseteq Record
      BY <1>1, <2>1 DEF ChannelHolds, Worker0
    <2>3. x \in Worker0 /\ x.batch = w.batch /\ x.pc = w.pc /\ x.told /\ (x.cancel <=> w.pc # "ended")
      BY <2>1, AskedFacts
    <2>4. "shutdown_timeout" \in Fates
      BY DEF Fates, Reasons
    <2>5. /\ g \in [Record -> SUBSET Fates]
          /\ \A r \in Record : g[r] = IF r \in left THEN f[r] \cup {"shutdown_timeout"} ELSE f[r]
      BY <2>4, CountedFacts, SMTT(30)
    <2>6. left = {q[i] : i \in 1..Len(q)}
      BY <2>1 DEF Queued
    <2>7. \A r \in left : r <= emitted /\ f[r] = {} /\ r \notin w.batch
      <3>1. \A i \in 1..Len(q) : q[i] <= emitted /\ f[q[i]] = {} /\ q[i] \notin w.batch
        BY <2>2 DEF QueueHolds
      <3> HIDE DEF q, f, w
      <3> QED
        BY <2>6, <3>1
    <2> HIDE DEF q, w, f, g, x, left
    <2>8. QueueHolds(emitted, <<>>, x, g)
      BY ExporterConfigAssumption DEF QueueHolds
    <2>9. FateHolds(emitted, <<>>, x, g)
      <3>1. ASSUME NEW r \in Record
            PROVE  /\ r > emitted => g[r] = {}
                   /\ r <= emitted /\ g[r] = {} => r \in x.batch
                   /\ \E y \in Fates : g[r] \subseteq {"indeterminate", y}
        <4>1. CASE r \in left
          <5>1. ~(r > emitted)
            BY <2>1, <2>7, <4>1 DEF Record
          <5> QED
            BY <2>4, <2>5, <2>7, <4>1, <5>1
        <4>2. CASE r \notin left
          <5>1. ~\E i \in 1..Len(q) : q[i] = r
            BY <2>6, <4>2
          <5> QED
            BY <2>2, <2>3, <2>5, <4>2, <5>1 DEF FateHolds
        <4> QED
          BY <4>1, <4>2
      <3> QED
        BY <3>1 DEF FateHolds
    <2>10. WorkerHolds(emitted, x, g)
      <3>1. \A r \in w.batch : g[r] = f[r] /\ "indeterminate" \in f[r]
        BY <1>1, <2>1, <2>2, <2>5, <2>7 DEF WorkerHolds, PhaseHolds
      <3> QED
        BY <2>2, <2>3, <3>1 DEF WorkerHolds, Worker0
    <2>11. flushed => w.batch = {} /\ Unharmed(g)
      <3>1. ASSUME flushed PROVE w.batch = {} /\ Unharmed(f) /\ q = <<>>
        BY <2>1, <3>1 DEF PhaseHolds
      <3>2. ASSUME q = <<>> PROVE left = {}
        BY <2>6, <3>2
      <3> QED
        BY <2>5, <3>1, <3>2 DEF Unharmed
    <2>12. PhaseHolds(phase', flushed, <<>>, x, g)
      BY <1>1, <2>3, <2>11 DEF PhaseHolds
    <2>13. ChannelHolds(emitted, <<>>, x, g)
      BY <2>3, <2>5, <2>8, <2>9, <2>10 DEF ChannelHolds
    <2> QED
      BY <2>12, <2>13 DEF g, x, w
  <1>3. Tabled'
    <2>1. \A c \in Channels : Asked(worker[c]) \in Worker0 /\ F(c) \in [Record -> SUBSET Fates]
      BY <1>2 DEF ChannelHolds
    <2>2. <<>> \in Seq(Record)
      OBVIOUS
    <2> HIDE DEF F
    <2> QED
      BY <1>1, <2>1, <2>2 DEF ExportInv, Tabled
  <1> HIDE DEF F
  <1> QED
    <2>1. ASSUME NEW c \in Channels
          PROVE  queue'[c] = <<>> /\ worker'[c] = Asked(worker[c]) /\ fate'[c] = F(c)
      BY <1>1
    <2> QED
      BY <1>1, <1>2, <1>3, <2>1, AllChannels

LEMMA ExportKeeps ==
    ASSUME ExportInv, [Next]_vars
    PROVE  ExportInv'
  <1>1. CASE UNCHANGED vars
    <2>1. /\ phase' = phase /\ emitted' = emitted /\ queue' = queue /\ worker' = worker
          /\ fate' = fate /\ flushed' = flushed
      BY <1>1 DEF vars
    <2>2. Tabled'
      BY <2>1 DEF ExportInv, Tabled
    <2> QED
      BY <2>1, <2>2, AllChannels DEF ExportInv
  <1>2. ASSUME NEW c \in Channels, Worker(c) PROVE ExportInv'
    BY <1>2, TakeBatchKeeps, ExportSucceedsKeeps, ExportFailsKeeps, ExportLeavesCancellationKeeps,
       CancellationKeeps DEF Worker
  <1> QED
    BY <1>1, <1>2, FinishRequestKeeps, BeginStopKeeps, EndFlushKeeps, EndStopKeeps DEF Next

LEMMA ExportInvariance == Spec => []ExportInv
  BY ExportInit, ExportKeeps, PTL DEF Spec

\* Counters and places of a record, from the invariant.
LEMMA ExportAccounts ==
    ASSUME ExportInv
    PROVE  TypeOK /\ TelemetryIsAccounted
  <1>1. TypeOK
    BY DEF ExportInv, Tabled, TypeOK, ChannelHolds, QueueHolds, Worker0
  <1>2. ASSUME NEW c \in Channels, NEW r \in 1..emitted
        PROVE  /\ r \in Queued(c) \cup worker[c].batch \/ fate[c][r] # {}
               /\ Cardinality(fate[c][r] \ {"indeterminate"}) <= 1
               /\ fate[c][r] \cap Reasons # {} => r \notin Queued(c) \cup worker[c].batch
               /\ flushed => fate[c][r] # {} /\ fate[c][r] \cap {"shutdown_timeout", "indeterminate"} = {}
    <2> DEFINE q == queue[c]
               f == fate[c]
               w == worker[c]
    <2>1. r \in Record /\ r <= emitted /\ emitted \in Nat
      BY ExporterConfigAssumption DEF ExportInv, Tabled, Record
    <2>2. /\ QueueHolds(emitted, q, w, f) /\ FateHolds(emitted, q, w, f) /\ WorkerHolds(emitted, w, f)
          /\ PhaseHolds(phase, flushed, q, w, f) /\ q \in Seq(Record) /\ Len(q) \in Nat
      BY ChannelFacts DEF ChannelHolds
    <2>3. Queued(c) = {q[i] : i \in 1..Len(q)}
      BY <2>2 DEF Queued
    <2> HIDE DEF q, f, w
    <2>4. r \in Queued(c) \cup w.batch \/ f[r] # {}
      BY <2>1, <2>2, <2>3 DEF FateHolds
    <2>5. Cardinality(f[r] \ {"indeterminate"}) <= 1
      <3>1. PICK x \in Fates : f[r] \subseteq {"indeterminate", x}
        BY <2>1, <2>2 DEF FateHolds
      <3>2. f[r] \ {"indeterminate"} = {} \/ f[r] \ {"indeterminate"} = {x}
        BY <3>1
      <3> QED
        <4>1. Cardinality({}) = 0 /\ Cardinality({x}) = 1
          BY FS_EmptySet, FS_Singleton
        <4> QED
          BY <3>2, <4>1
    <2>6. f[r] \cap Reasons # {} => r \notin Queued(c) \cup w.batch
      <3>1. "indeterminate" \notin Reasons
        BY DEF Reasons
      <3> QED
        BY <2>2, <2>3, <3>1 DEF QueueHolds, WorkerHolds
    <2>7. flushed => f[r] # {} /\ f[r] \cap {"shutdown_timeout", "indeterminate"} = {}
      <3>1. ASSUME flushed PROVE Queued(c) = {} /\ w.batch = {} /\ Unharmed(f)
        <4>1. q = <<>> /\ w.batch = {} /\ Unharmed(f)
          BY <2>2, <3>1 DEF PhaseHolds
        <4> QED
          BY <2>3, <4>1
      <3> QED
        BY <2>1, <2>4, <3>1 DEF Unharmed
    <2> QED
      BY <2>4, <2>5, <2>6, <2>7 DEF f, w
  <1> QED
    BY <1>1, <1>2 DEF TelemetryIsAccounted, EveryRecordIsAccounted, DropsAreDefinite, FlushTellsTheTruth

-----------------------------------------------------------------------------
\* The boundary: what the place an exchange has reached says of it.

ExchangeRecord ==
    [pc : Boundary!Pcs, lane : Boundary!Lanes, holds : BOOLEAN, timed : BOOLEAN, starts : Nat,
     status : {"none", "ok", "error", "problem"}, outcome : Boundary!Outcomes \cup {"none"}]

ExchangeHolds(x) ==
    /\ x.holds => x.pc \notin {"none", "overloaded", "refused", "ended"}
    /\ x.starts <= 1
    /\ x.pc \notin {"body", "ended"} => x.starts = 0
    /\ x.pc = "body" => x.starts = 1
    /\ x.outcome = "success" => x.pc = "ended" /\ x.starts = 1 /\ x.status = "ok"

Timed == {e \in Exchanges : exchange[e].holds /\ exchange[e].timed}

Counts ==
    /\ data = Cardinality(Boundary!Holding("data"))
    /\ total = data + Cardinality(Boundary!Holding("operations"))
    /\ inFlight = Cardinality(Timed)

BoundaryInv ==
    /\ Boundary!TypeOK /\ Counts
    /\ \A e \in Exchanges : ExchangeHolds(exchange[e])

LEMMA SameCardinality == \A S : Boundary!Cardinality(S) = Cardinality(S)
  BY DEF Boundary!Cardinality, Cardinality, Boundary!IsFiniteSet, IsFiniteSet

\* A set whose membership changes for one element at most.
LEMMA OneMember ==
    ASSUME NEW S, IsFiniteSet(S), NEW T, NEW e, \A d : d # e => (d \in T <=> d \in S)
    PROVE  /\ IsFiniteSet(T) /\ Cardinality(S) \in Nat /\ Cardinality(T) \in Nat
           /\ Cardinality(T) = Cardinality(S) + Boundary!One(e \in T) - Boundary!One(e \in S)
  <1>1. Cardinality(S) \in Nat
    BY FS_CardinalityType
  <1>2. CASE e \in T /\ e \notin S
    <2>1. T = S \cup {e}
      BY <1>2
    <2>2. IsFiniteSet(T) /\ Cardinality(T) = Cardinality(S) + 1
      BY <1>2, <2>1, FS_AddElement
    <2> QED
      BY <1>1, <1>2, <2>2 DEF Boundary!One
  <1>3. CASE e \notin T /\ e \in S
    <2>1. T = S \ {e}
      BY <1>3
    <2>2. IsFiniteSet(T) /\ Cardinality(T) = Cardinality(S) - 1
      BY <1>3, <2>1, FS_RemoveElement
    <2>3. Cardinality(T) \in Nat
      BY <2>2, FS_CardinalityType
    <2> QED
      BY <1>1, <1>3, <2>2, <2>3 DEF Boundary!One
  <1>4. CASE e \in T <=> e \in S
    <2>1. T = S
      BY <1>4
    <2> QED
      BY <1>1, <2>1 DEF Boundary!One
  <1> QED
    BY <1>2, <1>3, <1>4

LEMMA PlacesAreFinite ==
    \A l : IsFiniteSet(Boundary!Holding(l)) /\ Boundary!Holding(l) \subseteq Exchanges
           /\ IsFiniteSet(Timed) /\ Timed \subseteq Exchanges
  <1>1. ASSUME NEW l PROVE Boundary!Holding(l) \in SUBSET Exchanges /\ Timed \in SUBSET Exchanges
    BY DEF Boundary!Holding, Timed
  <1> QED
    BY <1>1, FS_Subset, AdmissionLimitsAssumption

\* One exchange becomes x, and the counters move by the places it took or gave back.
LEMMA ExchangeMoves ==
    ASSUME BoundaryInv, NEW e \in Exchanges, NEW x \in ExchangeRecord, ExchangeHolds(x),
           exchange' = [exchange EXCEPT ![e] = x],
           accepting' \in BOOLEAN, tokens' \in [Boundary!Lanes -> 0..Burst], ticks' = ticks,
           total' = total + Boundary!One(x.holds) - Boundary!One(exchange[e].holds),
           data' = data + Boundary!One(x.holds /\ x.lane = "data")
                        - Boundary!One(exchange[e].holds /\ exchange[e].lane = "data"),
           inFlight' = inFlight + Boundary!One(x.holds /\ x.timed)
                                - Boundary!One(exchange[e].holds /\ exchange[e].timed),
           total' <= GlobalConcurrency, data' <= DataConcurrency
    PROVE  BoundaryInv'
  <1> DEFINE old == exchange[e]
             H(l) == Boundary!Holding(l)
             K(l) == {d \in Exchanges : exchange'[d].holds /\ exchange'[d].lane = l}
             U == {d \in Exchanges : exchange'[d].holds /\ exchange'[d].timed}
  <1>1. exchange \in [Exchanges -> ExchangeRecord] /\ old \in ExchangeRecord
    BY DEF BoundaryInv, Boundary!TypeOK, ExchangeRecord
  <1>2. exchange' \in [Exchanges -> ExchangeRecord] /\ exchange'[e] = x
        /\ \A d \in Exchanges : d # e => exchange'[d] = exchange[d]
    BY <1>1
  <1>3. ASSUME NEW l
        PROVE  /\ Cardinality(H(l)) \in Nat /\ Cardinality(K(l)) \in Nat
               /\ Cardinality(K(l)) = Cardinality(H(l)) + Boundary!One(x.holds /\ x.lane = l)
                                                        - Boundary!One(old.holds /\ old.lane = l)
    <2>1. /\ \A d : d # e => (d \in K(l) <=> d \in H(l))
          /\ e \in K(l) <=> (x.holds /\ x.lane = l)
          /\ e \in H(l) <=> (old.holds /\ old.lane = l)
      BY <1>2 DEF Boundary!Holding
    <2>2. IsFiniteSet(H(l))
      BY PlacesAreFinite
    <2> HIDE DEF H, K, old
    <2>3. /\ Cardinality(H(l)) \in Nat /\ Cardinality(K(l)) \in Nat
          /\ Cardinality(K(l)) = Cardinality(H(l)) + Boundary!One(e \in K(l)) - Boundary!One(e \in H(l))
      BY <2>1, <2>2, OneMember
    <2> QED
      BY <2>1, <2>3 DEF Boundary!One
  <1>4. /\ Cardinality(Timed) \in Nat /\ Cardinality(U) \in Nat
        /\ Cardinality(U) = Cardinality(Timed) + Boundary!One(x.holds /\ x.timed)
                                               - Boundary!One(old.holds /\ old.timed)
    <2>1. /\ \A d : d # e => (d \in U <=> d \in Timed)
          /\ e \in U <=> (x.holds /\ x.timed)
          /\ e \in Timed <=> (old.holds /\ old.timed)
      BY <1>2 DEF Timed
    <2>2. IsFiniteSet(Timed)
      BY PlacesAreFinite
    <2> HIDE DEF U, old
    <2>3. /\ Cardinality(Timed) \in Nat /\ Cardinality(U) \in Nat
          /\ Cardinality(U) = Cardinality(Timed) + Boundary!One(e \in U) - Boundary!One(e \in Timed)
      BY <2>1, <2>2, OneMember
    <2> QED
      BY <2>1, <2>3 DEF Boundary!One
  <1>5. /\ data = Cardinality(H("data")) /\ total = data + Cardinality(H("operations"))
        /\ inFlight = Cardinality(Timed)
    BY DEF BoundaryInv, Counts
  <1>6. ASSUME NEW y \in ExchangeRecord
        PROVE  Boundary!One(y.holds) = Boundary!One(y.holds /\ y.lane = "data")
                                       + Boundary!One(y.holds /\ y.lane = "operations")
    BY DEF ExchangeRecord, Boundary!Lanes, Boundary!One
  <1>7. \A b : Boundary!One(b) \in {0, 1}
    BY DEF Boundary!One
  <1> HIDE DEF H, K, U, old
  <1>8. /\ data' = Cardinality(K("data")) /\ inFlight' = Cardinality(U)
    BY <1>3, <1>4, <1>5 DEF old
  <1>9. total' = data' + Cardinality(K("operations"))
    <2>1. /\ Cardinality(K("data")) = Cardinality(H("data")) + Boundary!One(x.holds /\ x.lane = "data")
                                                             - Boundary!One(old.holds /\ old.lane = "data")
          /\ Cardinality(K("operations")) = Cardinality(H("operations"))
               + Boundary!One(x.holds /\ x.lane = "operations") - Boundary!One(old.holds /\ old.lane = "operations")
          /\ Cardinality(H("data")) \in Nat /\ Cardinality(H("operations")) \in Nat
      BY <1>3
    <2>2. /\ Boundary!One(x.holds) = Boundary!One(x.holds /\ x.lane = "data") + Boundary!One(x.holds /\ x.lane = "operations")
          /\ Boundary!One(old.holds) = Boundary!One(old.holds /\ old.lane = "data")
                                       + Boundary!One(old.holds /\ old.lane = "operations")
      BY <1>1, <1>6
    <2>3. total' = total + Boundary!One(x.holds) - Boundary!One(old.holds)
      BY DEF old
    <2> QED
      BY <1>5, <1>7, <1>8, <2>1, <2>2, <2>3
  <1>10. Counts'
    BY <1>8, <1>9 DEF Counts, K, U, Boundary!Holding, Timed
  <1>11. total' \in 0..GlobalConcurrency /\ data' \in 0..DataConcurrency /\ inFlight' \in Nat
    <2>1. Cardinality(K("data")) \in Nat /\ Cardinality(K("operations")) \in Nat /\ Cardinality(U) \in Nat
      BY <1>3, <1>4
    <2> QED
      BY <1>8, <1>9, <2>1, AdmissionLimitsAssumption
  <1>12. Boundary!TypeOK'
    BY <1>2, <1>11 DEF BoundaryInv, Boundary!TypeOK, ExchangeRecord
  <1>13. \A d \in Exchanges : ExchangeHolds(exchange'[d])
    BY <1>2 DEF BoundaryInv
  <1> QED
    BY <1>10, <1>12, <1>13 DEF BoundaryInv, ExchangeHolds

LEMMA BoundaryTypes ==
    ASSUME BoundaryInv
    PROVE  /\ total \in 0..GlobalConcurrency /\ data \in 0..DataConcurrency /\ inFlight \in Nat
           /\ accepting \in BOOLEAN /\ tokens \in [Boundary!Lanes -> 0..Burst] /\ ticks \in 0..MaxTicks
           /\ exchange \in [Exchanges -> ExchangeRecord]
           /\ GlobalConcurrency \in Nat /\ DataConcurrency \in Nat /\ total \in Nat /\ data \in Nat
           /\ \A e \in Exchanges : exchange[e] \in ExchangeRecord /\ ExchangeHolds(exchange[e])
  BY AdmissionLimitsAssumption DEF BoundaryInv, Boundary!TypeOK, ExchangeRecord

\* A step of one exchange that neither takes nor gives back a place.
LEMMA PlaceKept ==
    ASSUME BoundaryInv, NEW e \in Exchanges, NEW x \in ExchangeRecord, ExchangeHolds(x),
           exchange' = [exchange EXCEPT ![e] = x],
           accepting' = accepting, total' = total, data' = data, tokens' = tokens,
           inFlight' = inFlight, ticks' = ticks,
           x.holds = exchange[e].holds,
           x.holds => x.lane = exchange[e].lane /\ x.timed = exchange[e].timed
    PROVE  BoundaryInv'
  <1>1. /\ Boundary!One(x.holds) = Boundary!One(exchange[e].holds)
        /\ Boundary!One(x.holds /\ x.lane = "data") = Boundary!One(exchange[e].holds /\ exchange[e].lane = "data")
        /\ Boundary!One(x.holds /\ x.timed) = Boundary!One(exchange[e].holds /\ exchange[e].timed)
    BY BoundaryTypes DEF Boundary!One, ExchangeRecord
  <1>2. \A b : Boundary!One(b) \in Nat
    BY DEF Boundary!One
  <1>3. /\ total' = total + Boundary!One(x.holds) - Boundary!One(exchange[e].holds)
        /\ data' = data + Boundary!One(x.holds /\ x.lane = "data")
                     - Boundary!One(exchange[e].holds /\ exchange[e].lane = "data")
        /\ inFlight' = inFlight + Boundary!One(x.holds /\ x.timed)
                                - Boundary!One(exchange[e].holds /\ exchange[e].timed)
        /\ total' <= GlobalConcurrency /\ data' <= DataConcurrency
    BY <1>1, <1>2, BoundaryTypes
  <1>4. accepting' \in BOOLEAN /\ tokens' \in [Boundary!Lanes -> 0..Burst]
    BY BoundaryTypes
  <1> QED
    BY <1>3, <1>4, ExchangeMoves

LEMMA FreshFacts ==
    /\ Boundary!Fresh \in ExchangeRecord
    /\ Boundary!Fresh.pc = "none" /\ ~Boundary!Fresh.holds /\ Boundary!Fresh.starts = 0
    /\ Boundary!Fresh.outcome = "none" /\ Boundary!Fresh.lane = "data" /\ ~Boundary!Fresh.timed
  BY DEF Boundary!Fresh, ExchangeRecord, Boundary!Pcs, Boundary!Lanes, Boundary!Outcomes

LEMMA OverloadKeeps ==
    ASSUME BoundaryInv, NEW e \in Exchanges, NEW l \in Boundary!Lanes, NEW crowded,
           Boundary!Overload(e, l, crowded)
    PROVE  BoundaryInv'
  <1> DEFINE x == [Boundary!Fresh EXCEPT !.pc = "overloaded", !.lane = l]
  <1>1. /\ exchange[e].pc = "none" /\ exchange' = [exchange EXCEPT ![e] = x]
        /\ accepting' = accepting /\ total' = total /\ data' = data /\ tokens' = tokens
        /\ inFlight' = inFlight /\ ticks' = ticks
    BY DEF Boundary!Overload, Boundary!To, Boundary!admission
  <1>2. "overloaded" \in Boundary!Pcs
    BY DEF Boundary!Pcs
  <1>3. x \in ExchangeRecord /\ x.pc = "overloaded" /\ x.holds = FALSE /\ x.starts = 0 /\ x.outcome = "none"
    BY <1>2, FreshFacts DEF ExchangeRecord
  <1> HIDE DEF x
  <1>4. ExchangeHolds(x)
    BY <1>3 DEF ExchangeHolds
  <1>5. exchange[e].holds = FALSE
    BY <1>1, BoundaryTypes DEF ExchangeHolds, ExchangeRecord
  <1> QED
    BY <1>1, <1>3, <1>4, <1>5, PlaceKept

LEMMA ArriveKeeps ==
    ASSUME BoundaryInv, NEW e \in Exchanges, NEW l \in Boundary!Lanes, NEW timed \in BOOLEAN, NEW scope,
           Boundary!Arrive(e, l, timed, scope)
    PROVE  BoundaryInv'
  <1> DEFINE pc == IF scope = "valid" THEN "receiving" ELSE "problem"
             outcome == IF scope = "valid" THEN "none" ELSE "rejected"
             x == [Boundary!Fresh EXCEPT !.pc = pc, !.lane = l, !.timed = timed,
                                         !.holds = TRUE, !.outcome = outcome]
             y == [Boundary!Fresh EXCEPT !.pc = "refused", !.lane = l, !.timed = timed, !.outcome = "rejected"]
  <1>1. exchange[e].pc = "none" /\ ticks' = ticks
    BY DEF Boundary!Arrive
  <1>2. exchange[e].holds = FALSE
    BY <1>1, BoundaryTypes DEF ExchangeHolds, ExchangeRecord
  <1>3. CASE Boundary!Acquires(l)
    <2>1. /\ total' = total + 1 /\ data' = data + Boundary!One(l = "data")
          /\ tokens' = [tokens EXCEPT ![l] = tokens[l] - 1] /\ inFlight' = inFlight + Boundary!One(timed)
          /\ exchange' = [exchange EXCEPT ![e] = x] /\ accepting' = accepting
      BY <1>3 DEF Boundary!Arrive, Boundary!To
    <2>2. /\ pc \in Boundary!Pcs /\ pc \in {"receiving", "problem"}
          /\ outcome \in Boundary!Outcomes \cup {"none"} /\ outcome # "success"
      BY DEF Boundary!Pcs, Boundary!Outcomes
    <2> HIDE DEF pc, outcome
    <2>3. /\ x \in ExchangeRecord /\ x.pc = pc /\ x.lane = l /\ x.timed = timed /\ x.holds = TRUE
          /\ x.starts = 0 /\ x.outcome = outcome
      BY <2>2, FreshFacts DEF ExchangeRecord
    <2> HIDE DEF x
    <2>4. ExchangeHolds(x)
      BY <2>2, <2>3 DEF ExchangeHolds
    <2>5. total < GlobalConcurrency /\ (l = "data" => data < DataConcurrency) /\ tokens[l] >= 1
      BY <1>3 DEF Boundary!Acquires, Boundary!MayEnter, Boundary!DataHasRoom
    <2>6. tokens' \in [Boundary!Lanes -> 0..Burst] /\ accepting' \in BOOLEAN
      <3>1. tokens[l] - 1 \in 0..Burst
        BY <2>5, BoundaryTypes, AdmissionLimitsAssumption
      <3> QED
        BY <2>1, <3>1, BoundaryTypes
    <2>7. /\ Boundary!One(x.holds) = 1 /\ Boundary!One(exchange[e].holds) = 0
          /\ Boundary!One(x.holds /\ x.lane = "data") = Boundary!One(l = "data")
          /\ Boundary!One(x.holds /\ x.timed) = Boundary!One(timed)
          /\ Boundary!One(exchange[e].holds /\ exchange[e].lane = "data") = 0
          /\ Boundary!One(exchange[e].holds /\ exchange[e].timed) = 0
      BY <1>2, <2>3 DEF Boundary!One
    <2>8. /\ Boundary!One(l = "data") = IF l = "data" THEN 1 ELSE 0
          /\ Boundary!One(timed) \in Nat
      BY DEF Boundary!One
    <2>9. /\ total' = total + Boundary!One(x.holds) - Boundary!One(exchange[e].holds)
          /\ data' = data + Boundary!One(x.holds /\ x.lane = "data")
                       - Boundary!One(exchange[e].holds /\ exchange[e].lane = "data")
          /\ inFlight' = inFlight + Boundary!One(x.holds /\ x.timed)
                                  - Boundary!One(exchange[e].holds /\ exchange[e].timed)
          /\ total' <= GlobalConcurrency /\ data' <= DataConcurrency
      BY <2>1, <2>5, <2>7, <2>8, BoundaryTypes
    <2> QED
      BY <1>1, <2>1, <2>3, <2>4, <2>6, <2>9, ExchangeMoves
  <1>4. CASE ~Boundary!Acquires(l)
    <2>1. /\ exchange' = [exchange EXCEPT ![e] = y]
          /\ accepting' = accepting /\ total' = total /\ data' = data /\ tokens' = tokens
          /\ inFlight' = inFlight
      BY <1>4 DEF Boundary!Arrive, Boundary!To, Boundary!admission
    <2>2. "refused" \in Boundary!Pcs /\ "rejected" \in Boundary!Outcomes
      BY DEF Boundary!Pcs, Boundary!Outcomes
    <2>3. /\ y \in ExchangeRecord /\ y.pc = "refused" /\ y.holds = FALSE
          /\ y.starts = 0 /\ y.outcome = "rejected"
      BY <2>2, FreshFacts DEF ExchangeRecord
    <2> HIDE DEF y
    <2>4. ExchangeHolds(y)
      BY <2>3 DEF ExchangeHolds
    <2> QED
      BY <1>1, <1>2, <2>1, <2>3, <2>4, PlaceKept
  <1> QED
    BY <1>3, <1>4

\* A step of the body of an exchange: it goes on to pc with what it knows so far.
LEMMA BodyStepKeeps ==
    ASSUME BoundaryInv, NEW e \in Exchanges, NEW x \in ExchangeRecord,
           exchange' = [exchange EXCEPT ![e] = x], UNCHANGED <<Boundary!admission, inFlight, ticks>>,
           x.holds = exchange[e].holds, x.lane = exchange[e].lane, x.timed = exchange[e].timed,
           x.pc \notin {"none", "overloaded", "refused", "ended"},
           x.starts = (IF x.pc = "body" THEN 1 ELSE 0), x.outcome # "success"
    PROVE  BoundaryInv'
  <1>1. ExchangeHolds(x)
    BY DEF ExchangeHolds
  <1> QED
    BY <1>1, PlaceKept DEF Boundary!admission

LEMMA BodyMoves ==
    ASSUME BoundaryInv, NEW e \in Exchanges, NEW pc \in {"application", "console", "problem", "buffered"},
           NEW status \in {exchange[e].status, "ok", "error"}, NEW outcome \in {exchange[e].outcome, "rejected"},
           exchange[e].pc \in {"receiving", "application", "console"},
           UNCHANGED <<Boundary!admission, inFlight, ticks>>,
           exchange' = [exchange EXCEPT ![e] = [exchange[e] EXCEPT !.pc = pc, !.status = status, !.outcome = outcome]]
    PROVE  BoundaryInv'
  <1> DEFINE old == exchange[e]
  <1>1. old \in ExchangeRecord /\ ExchangeHolds(old) /\ old.pc \in {"receiving", "application", "console"}
    BY BoundaryTypes
  <1> DEFINE x == [old EXCEPT !.pc = pc, !.status = status, !.outcome = outcome]
  <1>2. /\ pc \in Boundary!Pcs /\ pc \notin {"none", "overloaded", "refused", "ended", "body"}
        /\ status \in {"none", "ok", "error", "problem"} /\ outcome \in Boundary!Outcomes \cup {"none"}
    BY <1>1 DEF Boundary!Pcs, Boundary!Outcomes, ExchangeRecord
  <1>3. old.starts = 0 /\ outcome # "success"
    BY <1>1 DEF ExchangeHolds
  <1>4. exchange' = [exchange EXCEPT ![e] = x]
    OBVIOUS
  <1> HIDE DEF old
  <1>5. /\ x \in ExchangeRecord /\ x.pc = pc /\ x.holds = old.holds /\ x.lane = old.lane /\ x.timed = old.timed
        /\ x.starts = old.starts /\ x.outcome = outcome
    BY <1>1, <1>2 DEF ExchangeRecord
  <1> HIDE DEF x
  <1>6. /\ x.holds = exchange[e].holds /\ x.lane = exchange[e].lane /\ x.timed = exchange[e].timed
        /\ x.starts = (IF x.pc = "body" THEN 1 ELSE 0) /\ x.pc \notin {"none", "overloaded", "refused", "ended"}
        /\ x.outcome # "success"
    BY <1>2, <1>3, <1>5 DEF old
  <1> QED
    BY <1>4, <1>5, <1>6, BodyStepKeeps

LEMMA ReceiveKeeps ==
    ASSUME BoundaryInv, NEW e \in Exchanges,
           Boundary!Receive(e) \/ Boundary!CallApplication(e) \/ Boundary!ServeConsole(e)
    PROVE  BoundaryInv'
  <1> DEFINE old == exchange[e]
             Full(p, t, o) == [old EXCEPT !.pc = p, !.status = t, !.outcome = o]
  <1>1. /\ old \in ExchangeRecord /\ old.pc \in {"receiving", "application", "console"}
        /\ UNCHANGED <<Boundary!admission, inFlight, ticks>>
    BY BoundaryTypes DEF Boundary!Receive, Boundary!CallApplication, Boundary!ServeConsole
  <1>2. \A p : /\ [old EXCEPT !.pc = p] = Full(p, old.status, old.outcome)
               /\ \A o : [old EXCEPT !.pc = p, !.outcome = o] = Full(p, old.status, o)
               /\ \A t : [old EXCEPT !.pc = p, !.status = t] = Full(p, t, old.outcome)
    BY <1>1 DEF ExchangeRecord
  <1>3. ASSUME NEW p \in {"application", "console", "problem", "buffered"},
               NEW t \in {old.status, "ok", "error"}, NEW o \in {old.outcome, "rejected"},
               exchange' = [exchange EXCEPT ![e] = Full(p, t, o)]
        PROVE  BoundaryInv'
    BY <1>1, <1>3, BodyMoves
  <1> HIDE DEF Full
  <1>7. ASSUME NEW p \in {"application", "console", "problem", "buffered"},
               exchange' = [exchange EXCEPT ![e] = [old EXCEPT !.pc = p]]
        PROVE  BoundaryInv'
    <2>1. exchange' = [exchange EXCEPT ![e] = Full(p, old.status, old.outcome)]
      BY <1>2, <1>7
    <2> QED
      BY <1>3, <2>1
  <1>8. ASSUME exchange' = [exchange EXCEPT ![e] = [old EXCEPT !.pc = "problem", !.outcome = "rejected"]]
        PROVE  BoundaryInv'
    <2>1. exchange' = [exchange EXCEPT ![e] = Full("problem", old.status, "rejected")]
      BY <1>2, <1>8
    <2> QED
      BY <1>3, <2>1
  <1>9. ASSUME NEW p \in {"problem", "buffered"}, NEW t \in {"ok", "error"},
               exchange' = [exchange EXCEPT ![e] = [old EXCEPT !.pc = p, !.status = t]]
        PROVE  BoundaryInv'
    <2>1. exchange' = [exchange EXCEPT ![e] = Full(p, t, old.outcome)]
      BY <1>2, <1>9
    <2> QED
      BY <1>3, <2>1
  <1>4. CASE Boundary!Receive(e)
    <2>1. \/ exchange' = [exchange EXCEPT ![e] = [old EXCEPT !.pc = "application"]]
          \/ exchange' = [exchange EXCEPT ![e] = [old EXCEPT !.pc = "console"]]
          \/ exchange' = [exchange EXCEPT ![e] = [old EXCEPT !.pc = "problem", !.outcome = "rejected"]]
      BY <1>4 DEF Boundary!Receive, Boundary!To
    <2> HIDE DEF old
    <2> QED
      BY <1>7, <1>8, <1>9, <2>1
  <1>5. CASE Boundary!CallApplication(e)
    <2>1. \/ \E t \in {"ok", "error"} : exchange' = [exchange EXCEPT ![e] = [old EXCEPT !.pc = "buffered", !.status = t]]
          \/ exchange' = [exchange EXCEPT ![e] = [old EXCEPT !.pc = "problem"]]
          \/ exchange' = [exchange EXCEPT ![e] = [old EXCEPT !.pc = "problem", !.outcome = "rejected"]]
      BY <1>5 DEF Boundary!CallApplication, Boundary!To
    <2> HIDE DEF old
    <2> QED
      BY <1>7, <1>8, <1>9, <2>1
  <1>6. CASE Boundary!ServeConsole(e)
    <2>1. \E p \in {"buffered", "problem"} :
              exchange' = [exchange EXCEPT ![e] = [old EXCEPT !.pc = p, !.status = "ok"]]
      BY <1>6 DEF Boundary!ServeConsole, Boundary!To
    <2> HIDE DEF old
    <2> QED
      BY <1>7, <1>8, <1>9, <2>1
  <1> QED
    BY <1>4, <1>5, <1>6

LEMMA SendStartKeeps ==
    ASSUME BoundaryInv, NEW e \in Exchanges, Boundary!SendStart(e)
    PROVE  BoundaryInv'
  <1> DEFINE old == exchange[e]
             outcome == IF old.pc = "overloaded" THEN "rejected" ELSE old.outcome
             status == IF old.pc = "buffered" THEN old.status ELSE "problem"
             x == [old EXCEPT !.pc = "body", !.starts = old.starts + 1, !.outcome = outcome, !.status = status]
  <1>1. /\ old.pc \in {"overloaded", "refused", "buffered", "problem"}
        /\ exchange' = [exchange EXCEPT ![e] = x] /\ UNCHANGED <<Boundary!admission, inFlight, ticks>>
    BY DEF Boundary!SendStart, Boundary!To
  <1>2. old \in ExchangeRecord /\ ExchangeHolds(old)
    BY BoundaryTypes
  <1>3. /\ outcome \in Boundary!Outcomes \cup {"none"} /\ outcome # "success"
        /\ status \in {"none", "ok", "error", "problem"} /\ "body" \in Boundary!Pcs
    BY <1>1, <1>2 DEF Boundary!Outcomes, Boundary!Pcs, ExchangeRecord, ExchangeHolds
  <1>4. old.starts = 0 /\ old.starts + 1 \in Nat
    BY <1>1, <1>2 DEF ExchangeHolds
  <1> HIDE DEF old, outcome, status
  <1>5. /\ x \in ExchangeRecord /\ x.pc = "body" /\ x.holds = old.holds /\ x.lane = old.lane /\ x.timed = old.timed
        /\ x.starts = old.starts + 1 /\ x.outcome = outcome
    BY <1>2, <1>3, <1>4 DEF ExchangeRecord
  <1> HIDE DEF x
  <1>6. /\ x.holds = exchange[e].holds /\ x.lane = exchange[e].lane /\ x.timed = exchange[e].timed
        /\ x.starts = (IF x.pc = "body" THEN 1 ELSE 0) /\ x.pc \notin {"none", "overloaded", "refused", "ended"}
        /\ x.outcome # "success"
    BY <1>3, <1>4, <1>5 DEF old
  <1> QED
    BY <1>1, <1>5, <1>6, BodyStepKeeps

LEMMA OneFacts ==
    /\ \A b : Boundary!One(b) \in {0, 1}
    /\ Boundary!One(FALSE) = 0
    /\ \A l : Boundary!One(FALSE /\ l = "data") = 0
  BY DEF Boundary!One

\* An exchange ends; whoever held a place gives it back.
LEMMA EndKeeps ==
    ASSUME BoundaryInv, NEW e \in Exchanges, exchange[e].pc \notin {"none", "ended"},
           NEW outcome \in Boundary!Outcomes,
           outcome = "success" => exchange[e].pc = "body" /\ exchange[e].status = "ok",
           Boundary!Ended(e, outcome), Boundary!Released(e), ticks' = ticks
    PROVE  BoundaryInv'
  <1> DEFINE old == exchange[e]
             x == [Boundary!Fresh EXCEPT !.pc = "ended", !.outcome = outcome,
                                         !.starts = old.starts, !.status = old.status]
  <1>1. /\ exchange' = [exchange EXCEPT ![e] = x] /\ accepting' = accepting /\ tokens' = tokens
        /\ total' = total - Boundary!One(old.holds)
        /\ data' = data - Boundary!One(old.holds /\ old.lane = "data")
        /\ inFlight' = inFlight - Boundary!One(old.holds /\ old.timed)
    BY DEF Boundary!Ended, Boundary!Released, Boundary!To
  <1>2. old \in ExchangeRecord /\ ExchangeHolds(old)
    BY BoundaryTypes
  <1>3. old.starts \in Nat /\ old.status \in {"none", "ok", "error", "problem"} /\ "ended" \in Boundary!Pcs
    BY <1>2 DEF ExchangeRecord, Boundary!Pcs
  <1> HIDE DEF old
  <1>4. /\ x \in ExchangeRecord /\ x.pc = "ended" /\ x.holds = FALSE /\ x.starts = old.starts
        /\ x.outcome = outcome /\ x.status = old.status
    BY <1>3, FreshFacts DEF ExchangeRecord
  <1> HIDE DEF x
  <1>5. ExchangeHolds(x)
    BY <1>2, <1>4 DEF ExchangeHolds, old
  <1>6. /\ Boundary!One(x.holds) = 0 /\ Boundary!One(x.holds /\ x.lane = "data") = 0
        /\ Boundary!One(x.holds /\ x.timed) = 0
    BY <1>4 DEF Boundary!One
  <1>7. /\ Boundary!One(old.holds) \in {0, 1} /\ Boundary!One(old.holds /\ old.lane = "data") \in {0, 1}
        /\ Boundary!One(old.holds /\ old.timed) \in {0, 1}
    BY DEF Boundary!One
  <1>8. /\ total' = total + Boundary!One(x.holds) - Boundary!One(old.holds)
        /\ data' = data + Boundary!One(x.holds /\ x.lane = "data") - Boundary!One(old.holds /\ old.lane = "data")
        /\ inFlight' = inFlight + Boundary!One(x.holds /\ x.timed) - Boundary!One(old.holds /\ old.timed)
        /\ total' <= GlobalConcurrency /\ data' <= DataConcurrency
    BY <1>1, <1>6, <1>7, BoundaryTypes
  <1>9. accepting' \in BOOLEAN /\ tokens' \in [Boundary!Lanes -> 0..Burst]
    BY <1>1, BoundaryTypes
  <1> QED
    BY <1>1, <1>4, <1>5, <1>8, <1>9, ExchangeMoves DEF old

LEMMA FinishKeeps ==
    ASSUME BoundaryInv, NEW e \in Exchanges, Boundary!Finish(e)
    PROVE  BoundaryInv'
  <1>1. exchange[e] \in ExchangeRecord /\ ExchangeHolds(exchange[e])
    BY BoundaryTypes
  <1>2. CASE Boundary!SendBody(e)
    <2>1. /\ exchange[e].pc = "body" /\ Boundary!Ended(e, Boundary!OutcomeOf(e)) /\ Boundary!Released(e) /\ ticks' = ticks
      BY <1>2 DEF Boundary!SendBody
    <2>2. /\ Boundary!OutcomeOf(e) \in Boundary!Outcomes
          /\ Boundary!OutcomeOf(e) = "success" => exchange[e].status = "ok"
      BY <1>1, <2>1 DEF Boundary!OutcomeOf, Boundary!Outcomes, ExchangeRecord, ExchangeHolds
    <2> QED
      BY <2>1, <2>2, EndKeeps
  <1>3. CASE Boundary!Cancel(e)
    <2> DEFINE outcome == IF exchange[e].pc = "overloaded" THEN "rejected" ELSE "cancelled"
    <2>1. /\ exchange[e].pc \notin {"none", "ended"} /\ Boundary!Ended(e, outcome) /\ Boundary!Released(e)
          /\ ticks' = ticks
      BY <1>3 DEF Boundary!Cancel
    <2>2. outcome \in Boundary!Outcomes /\ outcome # "success"
      BY DEF Boundary!Outcomes
    <2> HIDE DEF outcome
    <2> QED
      BY <2>1, <2>2, EndKeeps
  <1>4. CASE Boundary!Malformed(e)
    <2> DEFINE x == [Boundary!Fresh EXCEPT !.pc = "ended", !.starts = 1, !.status = "problem", !.outcome = "rejected"]
    <2>1. /\ exchange[e].pc = "none" /\ exchange' = [exchange EXCEPT ![e] = x]
          /\ accepting' = accepting /\ total' = total /\ data' = data /\ tokens' = tokens
          /\ inFlight' = inFlight /\ ticks' = ticks
      BY <1>4 DEF Boundary!Malformed, Boundary!To, Boundary!admission
    <2>2. "ended" \in Boundary!Pcs /\ "rejected" \in Boundary!Outcomes
      BY DEF Boundary!Pcs, Boundary!Outcomes
    <2>3. x \in ExchangeRecord /\ x.pc = "ended" /\ x.holds = FALSE /\ x.starts = 1 /\ x.outcome = "rejected"
      BY <2>2, FreshFacts DEF ExchangeRecord
    <2> HIDE DEF x
    <2>4. ExchangeHolds(x) /\ exchange[e].holds = FALSE
      BY <1>1, <2>1, <2>3 DEF ExchangeHolds, ExchangeRecord
    <2> QED
      BY <2>1, <2>3, <2>4, PlaceKept
  <1> QED
    BY <1>2, <1>3, <1>4 DEF Boundary!Finish

\* The clock and the end of the service touch no exchange.
LEMMA EdgeKeeps ==
    ASSUME BoundaryInv, Boundary!Tick \/ Boundary!BeginShutdown \/ UNCHANGED Boundary!vars
    PROVE  BoundaryInv'
  <1>1. /\ total' = total /\ data' = data /\ inFlight' = inFlight /\ exchange' = exchange
    BY DEF Boundary!Tick, Boundary!BeginShutdown, Boundary!vars, Boundary!admission
  <1>2. accepting' \in BOOLEAN /\ ticks' \in 0..MaxTicks
    <2>1. accepting \in BOOLEAN /\ ticks \in 0..MaxTicks /\ MaxTicks \in Nat
      BY BoundaryTypes, AdmissionLimitsAssumption
    <2>2. accepting' = accepting \/ accepting' = FALSE
      BY DEF Boundary!Tick, Boundary!BeginShutdown, Boundary!vars, Boundary!admission
    <2>3. ticks' = ticks \/ (ticks < MaxTicks /\ ticks' = ticks + 1)
      BY DEF Boundary!Tick, Boundary!BeginShutdown, Boundary!vars
    <2>4. accepting' \in BOOLEAN
      BY <2>1, <2>2
    <2>5. ticks' \in 0..MaxTicks
      BY <2>1, <2>3
    <2> QED
      BY <2>4, <2>5
  <1>3. tokens' \in [Boundary!Lanes -> 0..Burst]
    <2>1. ASSUME NEW l \in Boundary!Lanes PROVE Boundary!Refill(l) \in 0..Burst
      <3>1. tokens[l] \in 0..Burst /\ Burst \in Nat /\ Rate \in Nat
        BY BoundaryTypes, AdmissionLimitsAssumption
      <3> QED
        BY <3>1 DEF Boundary!Refill
    <2> QED
      BY <2>1, BoundaryTypes DEF Boundary!Tick, Boundary!BeginShutdown, Boundary!vars, Boundary!admission
  <1> QED
    BY <1>1, <1>2, <1>3 DEF BoundaryInv, Boundary!TypeOK, Counts, Boundary!Holding, Timed, ExchangeHolds

LEMMA BoundaryKeeps ==
    ASSUME BoundaryInv, [Boundary!Next]_(Boundary!vars)
    PROVE  BoundaryInv'
  <1>1. ASSUME NEW e \in Exchanges, Boundary!Continue(e) PROVE BoundaryInv'
    BY <1>1, OverloadKeeps, ArriveKeeps, ReceiveKeeps, SendStartKeeps DEF Boundary!Continue
  <1>2. ASSUME Boundary!Rest PROVE UNCHANGED Boundary!vars
    BY <1>2 DEF Boundary!Rest
  <1> QED
    BY <1>1, <1>2, FinishKeeps, EdgeKeeps DEF Boundary!Next

LEMMA BoundaryInit == Boundary!Init => BoundaryInv
  <1> SUFFICES ASSUME Boundary!Init PROVE BoundaryInv
    OBVIOUS
  <1>1. /\ accepting = TRUE /\ total = 0 /\ data = 0 /\ tokens = [l \in Boundary!Lanes |-> Burst]
        /\ inFlight = 0 /\ exchange = [e \in Exchanges |-> Boundary!Fresh] /\ ticks = 0
    BY DEF Boundary!Init
  <1>2. \A e \in Exchanges : exchange[e] = Boundary!Fresh
    BY <1>1
  <1>3. Boundary!TypeOK
    <2>1. exchange \in [Exchanges -> ExchangeRecord]
      BY <1>1, FreshFacts
    <2>2. tokens \in [Boundary!Lanes -> 0..Burst]
      BY <1>1, AdmissionLimitsAssumption
    <2> QED
      BY <1>1, <2>1, <2>2, AdmissionLimitsAssumption DEF Boundary!TypeOK, ExchangeRecord
  <1>4. Boundary!Holding("data") = {} /\ Boundary!Holding("operations") = {} /\ Timed = {}
    BY <1>2, FreshFacts DEF Boundary!Holding, Timed
  <1>5. Counts
    BY <1>1, <1>4, FS_EmptySet DEF Counts
  <1>6. ExchangeHolds(Boundary!Fresh)
    BY FreshFacts DEF ExchangeHolds
  <1> QED
    BY <1>2, <1>3, <1>5, <1>6 DEF BoundaryInv

LEMMA BoundaryAccounts ==
    ASSUME BoundaryInv
    PROVE  ExchangesAreAccounted
  <1>1. Boundary!AdmissionIsExact
    BY SameCardinality DEF BoundaryInv, Counts, Boundary!AdmissionIsExact, Timed
  <1>2. Boundary!ProbesKeepTheirReserve
    <2>1. /\ total = data + Cardinality(Boundary!Holding("operations"))
          /\ Boundary!Cardinality(Boundary!Holding("operations")) = Cardinality(Boundary!Holding("operations"))
      BY SameCardinality DEF BoundaryInv, Counts
    <2>2. Cardinality(Boundary!Holding("operations")) \in Nat
      BY PlacesAreFinite, FS_CardinalityType
    <2> QED
      BY <2>1, <2>2, BoundaryTypes DEF Boundary!ProbesKeepTheirReserve
  <1>3. Boundary!OneResponse
    BY BoundaryTypes DEF Boundary!OneResponse, ExchangeHolds
  <1> QED
    BY <1>1, <1>2, <1>3 DEF ExchangesAreAccounted

-----------------------------------------------------------------------------
\* Every step of the service is a step of its parts, or none of theirs.
LEMMA ServiceSteps ==
    ASSUME [MCNext]_allVars
    PROVE  [Next]_vars /\ [Boundary!Next]_(Boundary!vars)
  <1>1. ASSUME UNCHANGED boundary PROVE UNCHANGED Boundary!vars
    BY <1>1 DEF boundary, Boundary!vars, Boundary!admission
  <1>2. CASE UNCHANGED allVars
    BY <1>1, <1>2 DEF allVars, serviceVars
  <1>3. CASE ServiceNext
    <2>1. CASE \E e \in Exchanges : Finish(e)
      BY <2>1 DEF Finish, Next, Boundary!Next
    <2>2. CASE Shutdown
      BY <2>2 DEF Shutdown, Next, Boundary!Next
    <2>3. CASE ExchangeStep
      BY <2>3 DEF ExchangeStep, Boundary!Next
    <2>4. CASE ExportStep
      BY <1>1, <2>4 DEF ExportStep, Next
    <2> QED
      BY <1>3, <2>1, <2>2, <2>3, <2>4 DEF ServiceNext
  <1> QED
    BY <1>1, <1>2, <1>3 DEF MCNext, Together

LEMMA ServiceInvariance == MCSpec => [](ExportInv /\ BoundaryInv)
  <1>1. MCInit => ExportInv /\ BoundaryInv
    BY ExportInit, BoundaryInit DEF MCInit, ServiceInit
  <1>2. ExportInv /\ BoundaryInv /\ [MCNext]_allVars => (ExportInv /\ BoundaryInv)'
    BY ServiceSteps, ExportKeeps, BoundaryKeeps
  <1> QED
    BY <1>1, <1>2, PTL DEF MCSpec

\* Queues within their capacity, buckets within their burst, counters within their limits.
THEOREM ServiceTypes == MCSpec => []ServiceTypeOK
  <1>1. ExportInv /\ BoundaryInv => ServiceTypeOK
    BY ExportAccounts DEF BoundaryInv, ServiceTypeOK
  <1> QED
    BY <1>1, ServiceInvariance, PTL

\* No telemetry record disappears without a reason and none has two, through every retry,
\* cancellation and deadline; a flush that is reported was one.
THEOREM TelemetryAccounts == MCSpec => []TelemetryIsAccounted
  <1>1. ExportInv => TelemetryIsAccounted
    BY ExportAccounts
  <1> QED
    BY <1>1, ServiceInvariance, PTL

\* Admission is neither leaked nor released twice, data leaves the probes their reserve, and
\* no client sees two response starts, however the exchanges end.
THEOREM ExchangesAccount == MCSpec => []ExchangesAreAccounted
  <1>1. BoundaryInv => ExchangesAreAccounted
    BY BoundaryAccounts
  <1> QED
    BY <1>1, ServiceInvariance, PTL

-----------------------------------------------------------------------------
\* The drain.

LEMMA BatchesOnlyEnd ==
    ASSUME ExportInv, [Next]_vars, NEW c \in Channels, worker[c].told
    PROVE  worker'[c].batch \subseteq worker[c].batch
  <1>1. /\ worker[c] \in Worker0 /\ worker \in [Channels -> Worker0]
        /\ worker[c].pc = "waiting" => worker[c].cancel
    BY ChannelFacts DEF ChannelHolds, WorkerHolds, ExportInv, Tabled
  <1>2. ASSUME NEW d \in Channels, Worker(d) PROVE worker'[c].batch \subseteq worker[c].batch
    <2>1. CASE d # c
      <3>1. \E w : worker' = [worker EXCEPT ![d] = w]
        BY <1>2 DEF Worker, TakeBatch, ExportSucceeds, ExportFails, ExportLeavesCancellation,
                    WorkerCancelled, CancellationSuppressed
      <3> QED
        BY <1>1, <2>1, <3>1
    <2>2. CASE d = c
      <3>1. ~TakeBatch(c)
        BY <1>1 DEF TakeBatch
      <3>2. \/ worker' = [worker EXCEPT ![c] = Finished(c)]
            \/ worker' = [worker EXCEPT ![c].attempts = @ + 1]
            \/ worker' = [worker EXCEPT ![c].pc = "ended", ![c].batch = {}]
            \/ worker' = [worker EXCEPT ![c].pc = "ended", ![c].batch = {}, ![c].cancel = FALSE]
            \/ worker' = [worker EXCEPT ![c].cancel = FALSE]
        BY <1>2, <2>2, <3>1 DEF Worker, ExportSucceeds, ExportFails, ExportLeavesCancellation,
                                WorkerCancelled, CancellationSuppressed
      <3>3. Finished(c).batch = {}
        BY <1>1 DEF Finished, Worker0
      <3>4. worker'[c].batch = {} \/ worker'[c].batch = worker[c].batch
        BY <1>1, <3>2, <3>3 DEF Worker0
      <3> QED
        BY <3>4
    <2> QED
      BY <2>1, <2>2
  <1>3. ASSUME worker' = worker PROVE worker'[c].batch \subseteq worker[c].batch
    BY <1>3
  <1>4. ASSUME CancelWorkers PROVE worker'[c].batch \subseteq worker[c].batch
    <2>1. worker'[c] = Asked(worker[c])
      BY <1>4 DEF CancelWorkers, Asked
    <2> QED
      BY <1>1, <2>1, AskedFacts
  <1> QED
    BY <1>2, <1>3, <1>4 DEF Next, vars, FinishRequest, BeginStop, EndFlush, EndStop

\* Together the parts agree on when the drain began; alone, the other does not move.
ShutdownHolds ==
    /\ part \in {"export", "boundary", "service"}
    /\ part = "boundary" => phase = "running"
    /\ part = "service" /\ phase # "running" => ~accepting

LEMMA OnlyAdmissionEnters ==
    ASSUME BoundaryInv, [Boundary!Next]_(Boundary!vars), ~accepting
    PROVE  total' <= total /\ ~accepting'
  <1>1. total \in Nat
    BY BoundaryTypes
  <1>2. \A b : Boundary!One(b) \in Nat
    BY DEF Boundary!One
  <1>3. \A l : ~Boundary!Acquires(l)
    BY DEF Boundary!Acquires, Boundary!MayEnter
  <1>4. \/ total' = total
        \/ \E e \in Exchanges : total' = total - Boundary!One(exchange[e].holds)
    BY <1>3, ZenonT(40) DEF Boundary!Next, Boundary!vars, Boundary!admission, Boundary!Tick, Boundary!BeginShutdown, Boundary!Rest,
           Boundary!Continue, Boundary!Overload, Boundary!Arrive, Boundary!Receive, Boundary!CallApplication,
           Boundary!ServeConsole, Boundary!SendStart, Boundary!Finish, Boundary!SendBody, Boundary!Cancel,
           Boundary!Malformed, Boundary!Released
  <1>5. accepting' = accepting
    BY <1>3, ZenonT(40) DEF Boundary!Next, Boundary!vars, Boundary!admission, Boundary!Tick, Boundary!BeginShutdown, Boundary!Rest,
           Boundary!Continue, Boundary!Overload, Boundary!Arrive, Boundary!Receive, Boundary!CallApplication,
           Boundary!ServeConsole, Boundary!SendStart, Boundary!Finish, Boundary!SendBody, Boundary!Cancel,
           Boundary!Malformed, Boundary!Released
  <1> QED
    BY <1>1, <1>2, <1>4, <1>5

LEMMA DrainStep ==
    ASSUME BoundaryInv, ShutdownHolds, [MCNext]_allVars
    PROVE  ShutdownHolds' /\ (phase # "running" => total' <= total)
  <1>1. total \in Nat /\ (boundary' = boundary => total' = total /\ accepting' = accepting)
        /\ (vars' = vars => phase' = phase) /\ (allVars' = allVars => part' = part /\ vars' = vars /\ boundary' = boundary)
    BY BoundaryTypes DEF boundary, vars, allVars, serviceVars
  <1>2. CASE UNCHANGED allVars
    BY <1>1, <1>2 DEF ShutdownHolds
  <1>3. CASE part' = part /\ part = "export" /\ Next /\ UNCHANGED boundary
    BY <1>1, <1>3 DEF ShutdownHolds
  <1>4. CASE part' = part /\ part = "boundary" /\ Boundary!Next /\ UNCHANGED vars
    BY <1>1, <1>4 DEF ShutdownHolds
  <1>5. CASE part' = part /\ part = "service" /\ ServiceNext
    <2>1. CASE phase # "running"
      <3>1. total' <= total /\ ~accepting'
        BY <1>5, <2>1, ServiceSteps, OnlyAdmissionEnters DEF ShutdownHolds
      <3> QED
        BY <1>5, <2>1, <3>1 DEF ShutdownHolds
    <2>2. CASE phase = "running" /\ phase' = "running"
      BY <1>5, <2>2 DEF ShutdownHolds
    <2>3. CASE phase = "running" /\ phase' # "running"
      <3>1. Shutdown
        BY <1>5, <2>3 DEF ServiceNext, Finish, FinishRequest, ExchangeStep, ExportStep, vars, Worker, TakeBatch,
             ExportSucceeds, ExportFails, ExportLeavesCancellation, WorkerCancelled, CancellationSuppressed,
             EndFlush, EndStop
      <3>2. ~accepting'
        BY <3>1 DEF Shutdown, Boundary!BeginShutdown
      <3> QED
        BY <1>5, <2>3, <3>2 DEF ShutdownHolds
    <2> QED
      BY <2>1, <2>2, <2>3
  <1> QED
    BY <1>2, <1>3, <1>4, <1>5 DEF MCNext, Together

\* Once the drain has begun nobody is admitted any more, and no worker that was told to end
\* takes another batch, whatever its exporter does with the cancellation.
THEOREM DrainOrdered == MCSpec => DrainHolds
  <1>1. MCInit => ShutdownHolds
    BY DEF MCInit, ServiceInit, Init, ShutdownHolds
  <1>2. ExportInv /\ BoundaryInv /\ ShutdownHolds /\ [MCNext]_allVars =>
            /\ ShutdownHolds'
            /\ [\A c \in Channels : worker[c].told => worker'[c].batch \subseteq worker[c].batch]_vars
            /\ [phase # "running" => total' <= total]_serviceVars
    BY ServiceSteps, BatchesOnlyEnd, DrainStep
  <1> QED
    BY <1>1, <1>2, ServiceInvariance, PTL DEF MCSpec, DrainHolds, NoBatchAfterStop, DrainIsOrdered
=============================================================================
