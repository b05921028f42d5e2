------------------------------- MODULE Service -------------------------------
(***************************************************************************)
(* The service as the application of service.api puts it together: the      *)
(* exchanges of ServiceExchange report to the telemetry of TelemetryExport, *)
(* and its lifespan closes admission, drains and stops in one order.        *)
(***************************************************************************)
EXTENDS TelemetryExport

CONSTANTS Exchanges, GlobalConcurrency, DataConcurrency, Burst, Rate, MaxTicks

\* AdmissionLimits.__post_init__, and a record for every exchange.
ASSUME AdmissionLimitsAssumption ==
    /\ IsFiniteSet(Exchanges) /\ Cardinality(Exchanges) <= MaxRecords
    /\ GlobalConcurrency \in Nat \ {0} /\ DataConcurrency \in 1..GlobalConcurrency
    /\ Burst \in Nat \ {0} /\ Rate \in Nat \ {0} /\ MaxTicks \in Nat

VARIABLES accepting, total, data, tokens, inFlight, exchange, ticks

Boundary == INSTANCE ServiceExchange

boundary == <<accepting, total, data, tokens, inFlight, exchange, ticks>>
serviceVars == <<vars, boundary>>

\* Every exchange ends in finish_request, in its last step.
Finish(e) == Boundary!Finish(e) /\ FinishRequest

\* The lifespan's finally, up to the first await of stop: admission closes first.
Shutdown == Boundary!BeginShutdown /\ BeginStop

\* Steps of one part only.
ExchangeStep ==
    /\ \/ \E e \in Exchanges : Boundary!Continue(e)
       \/ Boundary!Tick \/ Boundary!Rest
    /\ UNCHANGED vars
ExportStep == ((\E c \in Channels : Worker(c)) \/ EndFlush \/ EndStop) /\ UNCHANGED boundary

ServiceInit == Init /\ Boundary!Init
ServiceNext == (\E e \in Exchanges : Finish(e)) \/ Shutdown \/ ExchangeStep \/ ExportStep

-----------------------------------------------------------------------------
\* Whoever was admitted was admitted while telemetry still took records, and once
\* the workers are stopped nobody new gets in, although late exchanges go on ending.
DrainIsOrdered ==
    [][phase # "running" => total' <= total]_serviceVars
=============================================================================
