---------------------------- MODULE WalkForward ----------------------------
(***************************************************************************)
(* What an out-of-sample forecast and the position taken on it were made    *)
(* from: models.splits, models.train.walk_forward_train, the calibrated     *)
(* ensemble, the temporal estimator's validation tail and                   *)
(* backtest.engine.run_backtest.                                            *)
(*                                                                          *)
(* A row is a pair <<asset, date>>.  Values are left out: a fit is the set  *)
(* of the rows it reads, a position the date its score was observed on.     *)
(***************************************************************************)
EXTENDS Integers, FiniteSets, FiniteSetsExt, Sequences

CONSTANTS
    Last,        \* the panel's dates are 1..Last
    Assets,
    Horizon,     \* model.forward_horizon, in rows of the asset
    Embargo,     \* model.cv.embargo, in dates of the frame
    NSplits, TestSize, MinTrain,
    TailShare,   \* a holdout or validation tail is one date in TailShare
    ExecutionLag,
    Kinds,       \* model families: subset of {"plain", "ensemble", "temporal"}
    MaxHoles     \* bound: dates on which an asset has no row

VARIABLES
    panel,   \* the rows of the price panel
    frame,   \* the rows of the feature frame: those with a label
    scheme,  \* cv.scheme
    kind,    \* which family is trained
    fold,    \* the next fold
    blocks,  \* the folds trained: what each read and what it forecast
    held,    \* date of the panel -> date whose scores are held, 0: none
    stage    \* "validating", "folding", "trained", "held", "refused"

vars == <<panel, frame, scheme, kind, fold, blocks, held, stage>>

-----------------------------------------------------------------------------
(* The feature frame                                                        *)

RowsOf(a) == {r \in panel : r[1] = a}
Later(r) == {q \in RowsOf(r[1]) : q[2] > r[2]}

\* targets: groupby(ticker).shift(-Horizon), a count of the asset's own rows.
Labelled(r) == Cardinality(Later(r)) >= Horizon
LabelEnd(r) == CHOOSE e \in {q[2] : q \in Later(r)} :
                   Cardinality({q \in Later(r) : q[2] <= e}) = Horizon

DatesOf(rows) == {r[2] : r \in rows}
Span(rows) == Cardinality(DatesOf(rows))

\* The date's position among the sorted unique dates, from 0.
Position(date, dates) == Cardinality({d \in dates : d < date})
RowsAt(rows, from, until) ==
    LET dates == DatesOf(rows)
        chosen == {d \in dates : Position(d, dates) \in from..(until - 1)}
    IN  {r \in rows : r[2] \in chosen}

-----------------------------------------------------------------------------
(* TimeSeriesSplitter                                                       *)

TooShort == Span(frame) < TestSize + MinTrain + Embargo
TestStart(i) == Span(frame) - NSplits * TestSize + i * TestSize

\* Mutant: the gap before the test block is forgotten.
TrainUpToTheTest(i) == TestStart(i)

TrainEnd(i) == TestStart(i) - Embargo
TrainStart(i) ==
    IF scheme = "expanding" THEN 0 ELSE Max({0, TrainEnd(i) - MinTrain})
TrainRows(i) == RowsAt(frame, TrainStart(i), TrainEnd(i))

\* Mutant: blocks of one fold and the next share a date.
TestRowsOverlapping(i) == RowsAt(frame, TestStart(i), TestStart(i) + TestSize + 1)

TestRows(i) == RowsAt(frame, TestStart(i), TestStart(i) + TestSize)
Emitted(i) == TrainEnd(i) >= MinTrain /\ TrainRows(i) # {} /\ TestRows(i) # {}

-----------------------------------------------------------------------------
(* What a fold's model reads                                                *)

\* The last ceil(n / share) dates, but at least one and never all.
TailLength(n, share) == Min({n - 1, Max({1, (n + share - 1) \div share})})
LatestOf(rows, share) == RowsAt(rows, Span(rows) - TailLength(Span(rows), share), Span(rows))
EarlierOf(rows, share) == rows \ LatestOf(rows, share)

\* ChronologicalCalibratedEnsemble: candidates, then calibrators, then weights.
Holdout(rows) == IF Span(rows) < 2 THEN {} ELSE LatestOf(rows, TailShare)

\* Mutant: the weights are chosen on the rows the calibrators were fitted to.
WeightedOnHoldout(rows) == Holdout(rows)

Weighting(rows) == IF Span(Holdout(rows)) < 2 THEN Holdout(rows) ELSE LatestOf(Holdout(rows), 2)
Calibration(rows) == IF Span(Holdout(rows)) < 2 THEN Holdout(rows) ELSE EarlierOf(Holdout(rows), 2)

\* Mutant: the scaler is fitted to the whole training frame.
ScaledOnEverything(rows) == rows

\* _fit_temporal_scaler and TemporalConvEstimator._split_indices.
Scaling(rows) == IF Span(rows) < 2 THEN rows ELSE EarlierOf(rows, TailShare)
Validation(rows) == IF Span(rows) < 2 THEN {} ELSE LatestOf(rows, TailShare)

Reads(rows) ==
    CASE kind = "plain"    -> [fit |-> rows]
      [] kind = "ensemble" -> [fit |-> rows \ Holdout(rows), calibrate |-> Calibration(rows),
                               weigh |-> Weighting(rows)]
      [] kind = "temporal" -> [scale |-> Scaling(rows), fit |-> rows \ Validation(rows),
                               stop |-> Validation(rows)]

-----------------------------------------------------------------------------
(* walk_forward_train                                                       *)

Begin ==
    /\ stage = "validating"
    /\ stage' = IF TooShort THEN "refused" ELSE "folding"
    /\ UNCHANGED <<panel, frame, scheme, kind, fold, blocks, held>>

TrainFold ==
    /\ stage = "folding" /\ fold < NSplits /\ Emitted(fold)
    /\ blocks' = Append(blocks, [train |-> TrainRows(fold), test |-> TestRows(fold),
                                 reads |-> Reads(TrainRows(fold))])
    /\ fold' = fold + 1
    /\ UNCHANGED <<panel, frame, scheme, kind, held, stage>>

SkipFold ==
    /\ stage = "folding" /\ fold < NSplits /\ ~Emitted(fold)
    /\ fold' = fold + 1
    /\ UNCHANGED <<panel, frame, scheme, kind, blocks, held, stage>>

\* The training target has one class: a fold less, but for the temporal family.
OneClass ==
    /\ stage = "folding" /\ fold < NSplits /\ Emitted(fold)
    /\ fold' = fold + 1
    /\ stage' = IF kind = "temporal" THEN "refused" ELSE stage
    /\ UNCHANGED <<panel, frame, scheme, kind, blocks, held>>

EndFolds ==
    /\ stage = "folding" /\ fold = NSplits
    /\ stage' = IF blocks = <<>> THEN "refused" ELSE "trained"
    /\ UNCHANGED <<panel, frame, scheme, kind, fold, blocks, held>>

-----------------------------------------------------------------------------
(* run_backtest on the out-of-sample forecasts                              *)

Forecasts == UNION {blocks[i].test : i \in DOMAIN blocks}
ReturnDates == DatesOf(panel)

\* The calendar runs on by the lag, as far as there are returns.
CalendarEnd ==
    Min({Span(panel), Position(Max(DatesOf(Forecasts)), ReturnDates) + 1 + ExecutionLag})
Calendar ==
    LET first == Min(DatesOf(Forecasts))
    IN  {d \in ReturnDates : d >= first /\ Position(d, ReturnDates) < CalendarEnd}

\* Mutant: positions are held in the interval their scores were observed in.
Undelayed(date) == date

\* shift(execution_lag) on the calendar, 0 where it reaches before it.
Decided(date) ==
    LET calendar == Calendar
        earlier == {d \in calendar : Position(d, calendar) = Position(date, calendar) - ExecutionLag}
    IN  IF earlier = {} THEN 0 ELSE CHOOSE d \in earlier : TRUE

\* reindex(calendar).ffill(): a date without scores keeps the last target.
Scored(date) == IF date = 0 THEN 0 ELSE Max({d \in DatesOf(Forecasts) : d <= date})

\* A held asset needs a return: a row of its own on that date and an earlier one.
HasReturn(asset, date) ==
    /\ <<asset, date>> \in panel
    /\ \E r \in RowsOf(asset) : r[2] < date

\* Some of the scored assets are bought; which ones, the scores decide.
Backtest ==
    /\ stage = "trained"
    /\ \E bought \in Assets :
          LET positions == [d \in Calendar |-> Scored(Decided(d))]
              active == {d \in Calendar : positions[d] # 0 /\ <<bought, positions[d]>> \in Forecasts}
          IN  IF Cardinality(Calendar) <= ExecutionLag \/ (\E d \in active : ~HasReturn(bought, d))
              THEN stage' = "refused" /\ UNCHANGED held
              ELSE stage' = "held" /\ held' = [d \in 1..Last |-> IF d \in active THEN positions[d] ELSE 0]
    /\ UNCHANGED <<panel, frame, scheme, kind, fold, blocks>>

-----------------------------------------------------------------------------
Start(rows, s, k) ==
    /\ panel = rows /\ frame = {r \in rows : Labelled(r)} /\ scheme = s /\ kind = k
    /\ fold = 0 /\ blocks = <<>> /\ held = [d \in 1..Last |-> 0] /\ stage = "validating"
AllRows == Assets \X (1..Last)
Init ==
    \E n \in 0..MaxHoles : \E holes \in kSubset(n, AllRows) :
        \E s \in {"walk_forward", "expanding"}, k \in Kinds : Start(AllRows \ holes, s, k)

Next == Begin \/ TrainFold \/ SkipFold \/ OneClass \/ EndFolds \/ Backtest

Spec == Init /\ [][Next]_vars

-----------------------------------------------------------------------------
(* Properties                                                               *)

TypeOK ==
    /\ panel \subseteq Assets \X (1..Last) /\ fold \in 0..NSplits
    /\ held \in [1..Last -> 0..Last]
    /\ stage \in {"validating", "folding", "trained", "held", "refused"}

(* A row is forecast by one fold at most, later folds forecast later dates,  *)
(* and no model has read a date within the embargo of what it forecasts.     *)
FoldsAreApart ==
    /\ \A i, j \in DOMAIN blocks : i < j =>
          \A d \in DatesOf(blocks[i].test), e \in DatesOf(blocks[j].test) : d < e
    /\ LET dates == DatesOf(frame) IN
       \A i \in DOMAIN blocks : \A d \in DatesOf(blocks[i].train), e \in DatesOf(blocks[i].test) :
          Position(e, dates) - Position(d, dates) > Embargo

(* Within a training window every choice is made on rows later than what it  *)
(* chooses among was fitted to: candidates, calibrators, weights; scaler and *)
(* network, early stopping.  A tail of one date is used twice.               *)
Precedes(earlier, later) == \A d \in DatesOf(earlier), e \in DatesOf(later) : d < e
SelectionIsChronological ==
    \A i \in DOMAIN blocks :
        LET reads == blocks[i].reads IN
        /\ kind = "ensemble" =>
              /\ Precedes(reads.fit, reads.calibrate)
              /\ Span(reads.calibrate \cup reads.weigh) > 1 => Precedes(reads.calibrate, reads.weigh)
        /\ kind = "temporal" => Precedes(reads.fit \cup reads.scale, reads.stop)

(* A label read in training ends before the first date forecast, provided    *)
(* its asset has a row on every date of the embargo.                         *)
UnbrokenBefore(r, first) ==
    \A d \in DatesOf(frame) : d > r[2] /\ d < first => <<r[1], d>> \in panel
LabelsEndBeforeTheTest ==
    \A i \in DOMAIN blocks : \A r \in blocks[i].train :
        LET first == Min(DatesOf(blocks[i].test)) IN UnbrokenBefore(r, first) => LabelEnd(r) < first

(* A position held over a return was decided ExecutionLag return dates       *)
(* earlier or before, on a forecast no fold had trained on.                  *)
PositionsWait ==
    stage = "held" => \A d \in 1..Last : held[d] # 0 =>
        /\ Position(d, ReturnDates) - Position(held[d], ReturnDates) >= ExecutionLag
        /\ \A i \in DOMAIN blocks : held[d] \in DatesOf(blocks[i].test) =>
              held[d] \notin DatesOf(blocks[i].train)

ForecastsAreOutOfSample ==
    FoldsAreApart /\ SelectionIsChronological /\ LabelsEndBeforeTheTest /\ PositionsWait

(* config.py:591-594: the embargo separates overlapping labels from the      *)
(* evaluation dates.                                                         *)
EmbargoSeparatesLabels ==
    \A i \in DOMAIN blocks : \A r \in blocks[i].train :
        LabelEnd(r) < Min(DatesOf(blocks[i].test))
=============================================================================
