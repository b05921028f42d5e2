-------------------------- MODULE ServiceExchange --------------------------
(***************************************************************************)
(* One HTTP exchange after another at the service's boundary                *)
(* (service.middleware, admission and http_protocol): admission to one of   *)
(* two lanes, validation, the bounded call of the application, one response *)
(* and one telemetry record, however the exchange ends.  All exchanges run  *)
(* on one event loop: a step is what happens between two awaits, and the    *)
(* server may cancel an exchange at any await.                              *)
(* The server, the sockets and the application are outside: a client sends  *)
(* what it likes, the application may answer, raise or break the protocol.  *)
(***************************************************************************)
EXTENDS Naturals, FiniteSets

CONSTANTS
    Exchanges,          \* requests that ever arrive
    GlobalConcurrency,  \* AdmissionLimits
    DataConcurrency,    \* at most GlobalConcurrency
    Burst,              \* capacity of a lane's token bucket
    Rate,               \* tokens a tick adds
    MaxTicks            \* bound: ticks of the clock

Lanes == {"data", "operations"}

VARIABLES
    accepting,  \* AdmissionController._accepting
    total,      \* _active_total
    data,       \* _active_data
    tokens,     \* the bucket of each lane
    inFlight,   \* the in-flight gauge of the metrics
    exchange,   \* where each exchange is
    ticks

admission == <<accepting, total, data, tokens>>
vars == <<admission, inFlight, exchange, ticks>>

Outcomes == {"success", "not_success", "rejected", "cancelled"}
Pcs == {"none", "overloaded", "refused", "receiving", "application", "console", "buffered", "problem", "body", "ended"}

\* holds: the admission is held; starts: response starts sent;
\* timed: its path is an operation the metrics know, as the probes' are.
Fresh == [pc |-> "none", lane |-> "data", holds |-> FALSE, timed |-> FALSE, starts |-> 0,
          status |-> "none", outcome |-> "none"]

TypeOK ==
    /\ accepting \in BOOLEAN
    /\ total \in 0..GlobalConcurrency /\ data \in 0..DataConcurrency
    /\ tokens \in [Lanes -> 0..Burst]
    /\ inFlight \in Nat
    /\ exchange \in [Exchanges ->
          [pc : Pcs, lane : Lanes, holds : BOOLEAN, timed : BOOLEAN, starts : Nat,
           status : {"none", "ok", "error", "problem"}, outcome : Outcomes \cup {"none"}]]
    /\ ticks \in 0..MaxTicks

Init ==
    /\ accepting = TRUE /\ total = 0 /\ data = 0
    /\ tokens = [l \in Lanes |-> Burst]
    /\ inFlight = 0
    /\ exchange = [e \in Exchanges |-> Fresh]
    /\ ticks = 0

To(e, change) == exchange' = [exchange EXCEPT ![e] = change]
One(b) == IF b THEN 1 ELSE 0

Holding(l) == {e \in Exchanges : exchange[e].holds /\ exchange[e].lane = l}
Live == {e \in Exchanges : exchange[e].pc \notin {"none", "ended"}}

-----------------------------------------------------------------------------
\* AdmissionController.

\* Mutant: data exchanges may fill every place.
DataHasRoomForAll == total < GlobalConcurrency

DataHasRoom == data < DataConcurrency

\* Mutant: only the counters are looked at.
MayEnterDraining(l) ==
    /\ total < GlobalConcurrency
    /\ l = "data" => DataHasRoom

\* The checks of try_acquire, in their order; the bucket pays for the last one only.
MayEnter(l) ==
    /\ accepting
    /\ total < GlobalConcurrency
    /\ l = "data" => DataHasRoom

Acquires(l) == MayEnter(l) /\ tokens[l] >= 1

\* Mutant: an idle bucket keeps filling.
RefillUnbounded(l) == tokens[l] + Rate

\* _TokenBucket.consume refills up to the capacity.
Refill(l) == IF tokens[l] + Rate > Burst THEN Burst ELSE tokens[l] + Rate

Tick ==
    /\ ticks < MaxTicks
    /\ ticks' = ticks + 1
    /\ tokens' = [l \in Lanes |-> Refill(l)]
    /\ UNCHANGED <<accepting, total, data, inFlight, exchange>>

\* release and the gauge, in the inner finally of every admitted exchange.
Released(e) ==
    /\ total' = total - One(exchange[e].holds)
    /\ data' = data - One(exchange[e].holds /\ exchange[e].lane = "data")
    /\ inFlight' = inFlight - One(exchange[e].holds /\ exchange[e].timed)
    /\ UNCHANGED <<accepting, tokens>>

\* begin_shutdown, called by the application's lifespan.
BeginShutdown ==
    /\ accepting /\ accepting' = FALSE
    /\ UNCHANGED <<total, data, tokens, inFlight, exchange, ticks>>

-----------------------------------------------------------------------------
\* The transport and the start of an exchange.

\* _transport_is_saturated: the exchanges that run, refusals under way among
\* them, or more connections than the limit, busy or idle (crowded).
TransportIsSaturated(crowded) == crowded \/ Cardinality(Live) >= GlobalConcurrency

\* Past the transport's limit a request is answered without reaching the application.
Overload(e, l, crowded) ==
    /\ exchange[e].pc = "none" /\ TransportIsSaturated(crowded)
    /\ To(e, [Fresh EXCEPT !.pc = "overloaded", !.lane = l])
    /\ UNCHANGED <<admission, inFlight, ticks>>

\* What _validate_scope says of method, path, query, headers, host and length.
Scopes == {"valid", "invalid"}

\* __call__ up to its first await: the timer, try_acquire and _validate_scope.
Arrive(e, l, timed, scope) ==
    /\ exchange[e].pc = "none" /\ ~TransportIsSaturated(FALSE)
    /\ l = "operations" => timed
    /\ IF Acquires(l)
       THEN /\ total' = total + 1
            /\ data' = data + One(l = "data")
            /\ tokens' = [tokens EXCEPT ![l] = @ - 1]
            /\ inFlight' = inFlight + One(timed)
            /\ To(e, [Fresh EXCEPT !.pc = IF scope = "valid" THEN "receiving" ELSE "problem", !.lane = l, !.timed = timed,
                        !.holds = TRUE, !.outcome = IF scope = "valid" THEN "none" ELSE "rejected"])
            /\ UNCHANGED accepting
       ELSE /\ To(e, [Fresh EXCEPT !.pc = "refused", !.lane = l, !.timed = timed, !.outcome = "rejected"])
            /\ UNCHANGED <<admission, inFlight>>
    /\ UNCHANGED ticks

-----------------------------------------------------------------------------
\* The body of the exchange.

\* _receive_empty_request: an empty request, for the application or the console,
\* or a body, a disconnect, a quarter of a second of silence.
Receive(e) ==
    /\ exchange[e].pc = "receiving"
    /\ \/ To(e, [exchange[e] EXCEPT !.pc = "application"])
       \/ exchange[e].lane = "data" /\ To(e, [exchange[e] EXCEPT !.pc = "console"])
       \/ To(e, [exchange[e] EXCEPT !.pc = "problem", !.outcome = "rejected"])
    /\ UNCHANGED <<admission, inFlight, ticks>>

\* Mutant: what the application sends goes out at once.
CallUnbuffered(e) ==
    /\ exchange[e].pc = "application"
    /\ \/ To(e, [exchange[e] EXCEPT !.pc = "body", !.status = "ok", !.starts = 1])
       \/ To(e, [exchange[e] EXCEPT !.pc = "problem", !.starts = 1])
    /\ UNCHANGED <<admission, inFlight, ticks>>

\* _call_bounded: a complete response is buffered and checked before any of it is
\* sent; an exception, a broken sequence, forbidden headers or a response over its
\* ceiling becomes a problem document.
CallApplication(e) ==
    /\ exchange[e].pc = "application"
    /\ \/ \E s \in {"ok", "error"} : To(e, [exchange[e] EXCEPT !.pc = "buffered", !.status = s])
       \/ To(e, [exchange[e] EXCEPT !.pc = "problem"])
       \/ To(e, [exchange[e] EXCEPT !.pc = "problem", !.outcome = "rejected"])
    /\ UNCHANGED <<admission, inFlight, ticks>>

\* A console asset is read whole before anything of it is sent.
ServeConsole(e) ==
    /\ exchange[e].pc = "console"
    /\ \E pc \in {"buffered", "problem"} : To(e, [exchange[e] EXCEPT !.pc = pc, !.status = "ok"])
    /\ UNCHANGED <<admission, inFlight, ticks>>

SendStart(e) ==
    /\ exchange[e].pc \in {"overloaded", "refused", "buffered", "problem"}
    /\ To(e, [exchange[e] EXCEPT !.pc = "body", !.starts = @ + 1,
                !.outcome = IF exchange[e].pc = "overloaded" THEN "rejected" ELSE @,
                !.status = IF exchange[e].pc = "buffered" THEN @ ELSE "problem"])
    /\ UNCHANGED <<admission, inFlight, ticks>>

\* The outcome the telemetry is given: a forced one, else what the status says.
OutcomeOf(e) ==
    IF exchange[e].outcome # "none" THEN exchange[e].outcome
    ELSE IF exchange[e].status = "ok" THEN "success" ELSE "not_success"

Ended(e, outcome) ==
    To(e, [Fresh EXCEPT !.pc = "ended", !.outcome = outcome,
                        !.starts = exchange[e].starts, !.status = exchange[e].status])

\* The last send does not wait; both finally blocks run in the same step.
SendBody(e) ==
    /\ exchange[e].pc = "body"
    /\ Ended(e, OutcomeOf(e))
    /\ Released(e) /\ UNCHANGED ticks

\* Mutant: a cancelled exchange keeps its admission.
CancelHolding(e) ==
    /\ exchange[e].pc \notin {"none", "ended"}
    /\ Ended(e, "cancelled")
    /\ UNCHANGED <<admission, inFlight, ticks>>

\* CancelledError at an await: recorded as such, admission released.  A cancelled
\* overload responder records the rejection it was sending.
Cancel(e) ==
    /\ exchange[e].pc \notin {"none", "ended"}
    /\ Ended(e, IF exchange[e].pc = "overloaded" THEN "rejected" ELSE "cancelled")
    /\ Released(e) /\ UNCHANGED ticks

\* A parser error is answered outside ASGI, in one step (send_400_response).
Malformed(e) ==
    /\ exchange[e].pc = "none"
    /\ To(e, [Fresh EXCEPT !.pc = "ended", !.starts = 1, !.status = "problem", !.outcome = "rejected"])
    /\ UNCHANGED <<admission, inFlight, ticks>>

\* The steps that end an exchange, each with its telemetry record.
Finish(e) == SendBody(e) \/ Cancel(e) \/ Malformed(e)

Continue(e) ==
    \/ \E l \in Lanes, crowded \in BOOLEAN : Overload(e, l, crowded)
    \/ \E l \in Lanes, timed \in BOOLEAN, scope \in Scopes : Arrive(e, l, timed, scope)
    \/ Receive(e) \/ CallApplication(e) \/ ServeConsole(e) \/ SendStart(e)

\* Nobody has a request any more.
Rest == (\A e \in Exchanges : exchange[e].pc = "ended") /\ UNCHANGED vars

Next == Tick \/ BeginShutdown \/ Rest \/ \E e \in Exchanges : Continue(e) \/ Finish(e)

Spec == Init /\ [][Next]_vars

-----------------------------------------------------------------------------
\* Admission is neither leaked nor released twice, and the gauge agrees with it:
\* through refusals, failures and cancellations the counters are the exchanges
\* that hold a place (the finally of middleware.__call__).
AdmissionIsExact ==
    /\ data = Cardinality(Holding("data"))
    /\ total = data + Cardinality(Holding("operations"))
    /\ inFlight = Cardinality({e \in Exchanges : exchange[e].holds /\ exchange[e].timed})

\* Data exchanges alone can never keep a probe out: while fewer than the reserved
\* places are taken by probes, the next one is not refused for concurrency.
ProbesKeepTheirReserve ==
    Cardinality(Holding("operations")) < GlobalConcurrency - DataConcurrency
        => total < GlobalConcurrency

\* No client sees a second response start, although the application may fail
\* after it sent its own; and whoever was told of success got the answer.
OneResponse ==
    \A e \in Exchanges :
        /\ exchange[e].starts <= 1
        /\ exchange[e].outcome = "success" => exchange[e].starts = 1 /\ exchange[e].status = "ok"

\* docs/service_operations.md, "probe capacity remains reserved": a probe is not
\* turned away for concurrency while fewer probes run than places are reserved.
ProbesAreReserved ==
    [][\A e \in Exchanges :
          exchange[e].pc = "none" /\ exchange'[e].pc = "overloaded" /\ exchange'[e].lane = "operations"
             => Cardinality(Holding("operations")) >= GlobalConcurrency - DataConcurrency]_vars
=============================================================================
