----------------------------- MODULE MCService -----------------------------
(* Values of the constants of Service for TLC.  A behaviour is about one part: *)
(* the export under many requests, the boundary under many exchanges, or both  *)
(* together with fewer of each.                                                *)
EXTENDS Service

CONSTANTS log, trace, e1, e2, e3

VARIABLE part

Both == {log, trace}
ThreeExchanges == {e1, e2, e3}
allVars == <<part, serviceVars>>

MCInit == part \in {"export", "boundary", "service"} /\ ServiceInit

\* Together: one exchange, at any point of the drain.
Together == ServiceNext /\ ticks' = 0 /\ \A e \in {e2, e3} : exchange'[e].pc = "none"

MCNext ==
    /\ UNCHANGED part
    /\ \/ part = "export" /\ Next /\ UNCHANGED boundary
       \/ part = "boundary" /\ Boundary!Next /\ UNCHANGED vars
       \/ part = "service" /\ Together

MCSpec == MCInit /\ [][MCNext]_allVars 
    /\ WF_allVars(EndFlush /\ UNCHANGED <<part, boundary>>)
    /\ WF_allVars(EndStop /\ UNCHANGED <<part, boundary>>)

\* The types of both.
ServiceTypeOK == TypeOK /\ Boundary!TypeOK

\* Every record is delivered, counted or on its way; a drop is definite, and a flush
\* is reported only when it was one (TelemetryExport).
TelemetryIsAccounted == EveryRecordIsAccounted /\ DropsAreDefinite /\ FlushTellsTheTruth

\* The counters of admission are the exchanges that hold a place, data leaves the probes
\* theirs, and no client sees two response starts, however an exchange ends
\* (ServiceExchange).
ExchangesAreAccounted ==
    Boundary!AdmissionIsExact /\ Boundary!ProbesKeepTheirReserve /\ Boundary!OneResponse

\* A probe finds room whatever data does (ServiceExchange).
ProbesAreReserved == Boundary!ProbesAreReserved

\* From the start of the drain nobody is admitted, and a worker told to end takes no
\* other batch (TelemetryExport, Service).
DrainHolds == NoBatchAfterStop /\ DrainIsOrdered
=============================================================================
