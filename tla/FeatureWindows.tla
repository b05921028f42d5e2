-------------------------- MODULE FeatureWindows ---------------------------
(***************************************************************************)
(* Which bars a feature value is computed from: the trailing primitives of  *)
(* quant_platform.features.{technical,statistics,liquidity}, the contracts  *)
(* built from them, the conventional pipeline and the partition loader of   *)
(* pipeline.backfill_features.                                              *)
(*                                                                          *)
(* A value is the SET OF DATES it is computed from; NaN is the empty set.   *)
(* A series is a sequence of values, one per row of one asset.  A gap is a  *)
(* row whose columns are all missing; a date without a row is no gap.       *)
(***************************************************************************)
EXTENDS Integers, FiniteSets, Sequences

CONSTANTS
    Last,     \* the panel's dates are 1..Last
    W,        \* the window (or span, or number of periods) of every feature
    Lag,      \* skip of the 12-1 momentum, lag of the autocorrelation
    Horizon,  \* bars the label looks ahead
    MaxGaps,  \* bound: rows with missing columns
    MaxHoles  \* bound: dates on which the asset has no row

VARIABLES
    gaps,   \* dates of the asset's rows whose columns are missing
    holes,  \* dates on which the asset has no row
    built,  \* what was built: the contracts' columns, a partition's, nothing
    range   \* the partition's first and last date

vars == <<gaps, holes, built, range>>

Dates == 1..Last
NaN == {}

\* Dates in their order: the i-th has i - 1 before it.
InOrder(dates) ==
    [i \in 1..Cardinality(dates) |-> CHOOSE d \in dates : Cardinality({e \in dates : e < d}) = i - 1]

\* The dates from..to on which the asset has a row, in order.
RowsOf(from, to) == InOrder((from..to) \ holes)
Observed(rows) == [i \in 1..Len(rows) |-> IF rows[i] \in gaps THEN NaN ELSE {rows[i]}]

-----------------------------------------------------------------------------
(* pandas, as the features use it                                           *)

\* Arithmetic of two columns: missing when either is.
Both(a, b) == [i \in DOMAIN a |-> IF a[i] = NaN \/ b[i] = NaN THEN NaN ELSE a[i] \cup b[i]]
Shift(s, k) == [i \in DOMAIN s |-> IF i - k \in DOMAIN s THEN s[i - k] ELSE NaN]

\* rolling(w, min_periods=least): the observations among the last w rows.
Rolling(s, w, least) ==
    [i \in DOMAIN s |->
        LET seen == {j \in (i - w + 1)..i \cap DOMAIN s : s[j] # NaN}
        IN  IF Cardinality(seen) >= least THEN UNION {s[j] : j \in seen} ELSE NaN]

\* ewm(adjust=False, min_periods=least): skips what is missing and carries on.
Smoothed(s, least) == Rolling(s, Len(s), least)

\* pct_change with the library's default fill: the last observed row at or before.
Filled(s) ==
    [i \in DOMAIN s |->
        LET seen == {j \in 1..i : s[j] # NaN}
        IN  IF seen = {} THEN NaN ELSE s[CHOOSE j \in seen : \A k \in seen : k <= j]]

\* Mutant: the estimators accept a window with a missing row.
RollingLenient(s, w) == Rolling(s, w, w - 1)

\* min_periods == window, as every estimator of statistics and liquidity has it.
FullRolling(s, w) == Rolling(s, w, w)

\* max(2, window // 2), as the technical primitives have it.
PartRolling(s, w) == Rolling(s, w, IF w \div 2 > 2 THEN w \div 2 ELSE 2)

-----------------------------------------------------------------------------
(* technical.py                                                             *)

\* Mutant: the return is stamped on the bar it starts from.
ChangeAhead(s, periods) == Both(s, Shift(s, -periods))

Change(s, periods) == Both(s, Shift(s, periods))
Momentum(s, window, skip) == Both(Shift(s, skip), Shift(s, window))
MaRatio(s, window) == Both(s, PartRolling(s, window))
Ema(s, span) == Smoothed(s, IF span \div 2 > 2 THEN span \div 2 ELSE 2)
Rsi(s, window) == Smoothed(Change(s, 1), window)
MacdLine(s, fast, slow) == Both(Ema(s, fast), Ema(s, slow))
MacdSignal(s, fast, slow, signal) == Smoothed(MacdLine(s, fast, slow), signal)
Bollinger(s, window) == Both(s, PartRolling(s, window))
ZScore(s, window) == Both(s, PartRolling(s, window))
RollingBeta(ret, market, window) == Both(PartRolling(Both(ret, market), window), PartRolling(market, window))
Drawdown(s) == Both(s, Smoothed(s, 1))
VwapDeviation(s, window) == Both(s, FullRolling(s, window))
RegressionResidual(s, window) == FullRolling(s, window)

-----------------------------------------------------------------------------
(* statistics.py, liquidity.py                                              *)

\* Pairwise moments of two series: both must be observed in every row.
Pearson(a, b, window) ==
    Both(FullRolling(Both(a, b), window), Both(FullRolling(a, window), FullRolling(b, window)))
Autocorrelation(ret, window, lag) == Pearson(ret, Shift(ret, lag), window)
PartialAutocorrelation(ret, window) == Both(Autocorrelation(ret, window, 1), Autocorrelation(ret, window, 2))

FilledChange(s) == Both(Filled(s), Shift(Filled(s), 1))
Amihud(s, window) == FullRolling(Both(FilledChange(s), s), window)
VolumeImbalance(s, window) == Both(FullRolling(Both(FilledChange(s), s), window), FullRolling(s, window))
CorwinSchultz(s, window) == FullRolling(Both(s, Shift(s, 1)), window)
RollSpread(s, window) == FullRolling(Both(Change(s, 1), Shift(Change(s, 1), 1)), window)

-----------------------------------------------------------------------------
(* contracts.py: the warm-up is masked by position, whatever was observed.  *)

Masked(s, warmup) == [i \in DOMAIN s |-> IF i < warmup THEN NaN ELSE s[i]]

\* The equal-weight market: some other asset is observed on every date.
Market(rows) == [i \in 1..Len(rows) |-> IF rows[i] = 1 THEN NaN ELSE {rows[i] - 1, rows[i]}]

MomentumContracts(s) ==
    [ret |-> Masked(Change(s, W), W), logret |-> Masked(Change(s, 1), 1), roc |-> Masked(Change(s, W), W),
     mom |-> Masked(Momentum(s, W, 0), W), mom_skip |-> Masked(Momentum(s, W, Lag), W)]
PriceContracts(s) ==
    [ma_dist |-> Masked(MaRatio(s, W), W), ema_dist |-> Masked(Both(s, Ema(s, W)), W),
     zscore |-> Masked(ZScore(s, W), W), reversal |-> Masked(Change(s, W), W),
     vwap_dev |-> Masked(VwapDeviation(s, W), W), resid |-> RegressionResidual(s, W)]
CrossSectionalContracts(s) ==
    [cs_rank_mom |-> Masked(Momentum(s, W, 0), W), cs_z_mom |-> Masked(Momentum(s, W, 0), W)]
VolatilityContracts(s) ==
    [parkinson |-> Masked(FullRolling(s, W), W), garman_klass |-> Masked(FullRolling(s, W), W),
     rogers_satchell |-> Masked(FullRolling(s, W), W), ewma_vol |-> Masked(Smoothed(Change(s, 1), W), W)]
DistributionContracts(s) ==
    [name \in {"skew", "kurt", "downside_dev", "mad"} |-> Masked(FullRolling(Change(s, 1), W), W)]
DependenceContracts(s) ==
    LET ret == Change(s, 1) IN
    [autocorr |-> Masked(Autocorrelation(ret, W, Lag), W + Lag),
     pacf |-> Masked(PartialAutocorrelation(ret, W), W + 2),
     hurst |-> Masked(FullRolling(s, W), W), var_ratio |-> Masked(FullRolling(ret, W), W)]
MarketContracts(s, market) ==
    LET ret == Change(s, 1) IN
    [beta_mkt |-> Masked(RollingBeta(ret, market, W), W + 1),
     corr_mkt |-> Masked(Pearson(ret, market, W), W + 1),
     mutual_info |-> Masked(Both(FullRolling(ret, W), FullRolling(market, W)), W + 1)]
VolumeContracts(s) ==
    [volume_change |-> Masked(Change(s, 1), 2), dollar_volume |-> Masked(FullRolling(s, W), W),
     rel_volume |-> Masked(Both(s, FullRolling(s, W)), W), turnover |-> Masked(FullRolling(s, W), W)]
ImpactContracts(s) ==
    [amihud |-> Masked(Amihud(s, W), W + 1), volume_imbalance |-> Masked(VolumeImbalance(s, W), W + 1),
     corwin_schultz |-> Masked(CorwinSchultz(s, W), W + 1), roll_spread |-> Masked(RollSpread(s, W), W + 2)]

\* Two tables of columns in one.
Beside(f, g) == [k \in DOMAIN f \cup DOMAIN g |-> IF k \in DOMAIN f THEN f[k] ELSE g[k]]

\* build_contract_features: every registered contract over the whole panel.
ContractColumns ==
    LET rows == RowsOf(1, Last)
        s == Observed(rows)
    IN  Beside(MomentumContracts(s), Beside(PriceContracts(s), Beside(CrossSectionalContracts(s),
        Beside(VolatilityContracts(s), Beside(DistributionContracts(s), Beside(DependenceContracts(s),
        Beside(MarketContracts(s, Market(rows)), Beside(VolumeContracts(s), ImpactContracts(s)))))))))

-----------------------------------------------------------------------------
(* features/pipeline.py: every column of the conventional pipeline.  The    *)
(* returns were added to the whole panel when it was ingested.              *)

TechnicalColumns(s, ret) ==
    [f_ret_1d |-> ret, f_logret_1d |-> ret, f_ret_5d |-> Change(s, W), f_vol |-> PartRolling(ret, W),
     f_realized_vol |-> PartRolling(ret, W), f_sharpe |-> PartRolling(ret, W), f_ma_ratio |-> MaRatio(s, W),
     f_ema_ratio |-> Both(s, Ema(s, W)), f_rsi |-> Rsi(s, W), f_macd |-> MacdLine(s, W - 1, W),
     f_macd_signal |-> MacdSignal(s, W - 1, W, W - 1), f_bb_pctb |-> Bollinger(s, W), f_mom |-> Momentum(s, W, 0)]
RiskColumns(s, ret, market) ==
    [f_mom_12_1 |-> Momentum(s, W, Lag), f_reversal_5 |-> Change(s, W), f_zscore_21 |-> ZScore(s, W),
     f_log_dollar_volume |-> s, f_volume_zscore |-> ZScore(s, W), f_relative_volume |-> Both(s, PartRolling(s, W)),
     f_beta |-> RollingBeta(ret, market, W), f_drawdown |-> Drawdown(s), f_max_dd |-> PartRolling(s, W)]

\* The forward return of each row: the asset's own row Horizon rows later.
Label(s) == Both(Shift(s, -Horizon), s)

Returns(rows) ==
    LET all == RowsOf(1, Last) ret == Change(Observed(all), 1)
    IN  [i \in 1..Len(rows) |-> ret[CHOOSE j \in 1..Len(all) : all[j] = rows[i]]]

PipelineColumns(rows) ==
    LET s == Observed(rows)
        ret == Returns(rows)
    IN  Beside(TechnicalColumns(s, ret), Beside(RiskColumns(s, ret, Market(rows)), [target |-> Label(s)]))

\* dropna: the dates whose row has every feature and its label, with their values.
Frame(rows) ==
    LET columns == PipelineColumns(rows)
        whole == {i \in 1..Len(rows) : \A k \in DOMAIN columns : columns[k][i] # NaN}
    IN  [d \in {rows[i] : i \in whole} |->
            LET i == CHOOSE j \in whole : rows[j] = d IN [k \in DOMAIN columns |-> columns[k][i]]]

\* Mutant: the drawdown declares its window, like every other feature.
DeclaredWindows == W + (W - 1)

\* The largest declared warm-up: the drawdown's stands for all prior history.
Warmup == Last

\* The partition's rows, its warm-up before it and its label horizon after it.
LoadedRows(first, last) ==
    RowsOf(IF first - Warmup > 1 THEN first - Warmup ELSE 1, IF last + Horizon < Last THEN last + Horizon ELSE Last)

InRange(frame, first, last) == [d \in DOMAIN frame \cap first..last |-> frame[d]]

-----------------------------------------------------------------------------
Start(h, g) == holes = h /\ gaps = g /\ built = <<>> /\ range = <<>>
Init ==
    \E h \in SUBSET Dates : Cardinality(h) <= MaxHoles /\
        \E g \in SUBSET (Dates \ h) : Cardinality(g) <= MaxGaps /\ Start(h, g)

BuildContracts ==
    /\ built = <<>> /\ range = <<>>
    /\ built' = ContractColumns
    /\ UNCHANGED <<gaps, holes, range>>

LoadPartition(first, last) ==
    /\ built = <<>> /\ range = <<>> /\ first <= last
    /\ range' = <<first, last>>
    /\ built' = InRange(Frame(LoadedRows(first, last)), first, last)
    /\ UNCHANGED <<gaps, holes>>

Next == BuildContracts \/ \E first, last \in Dates : LoadPartition(first, last)

Spec == Init /\ [][Next]_vars

-----------------------------------------------------------------------------
(* Properties                                                               *)

ContractsBuilt == built # <<>> /\ range = <<>>
PartitionBuilt == range # <<>>

\* The rows, counted back from its own, that the definition of a contract names.
WindowOf(name) ==
    CASE name \in {"ret", "roc", "mom", "reversal", "cs_rank_mom", "cs_z_mom"} -> {0, W}
      [] name \in {"logret", "volume_change"} -> {0, 1}
      [] name = "mom_skip" -> {Lag, W}
      [] name \in {"vwap_dev", "resid", "parkinson", "garman_klass", "rogers_satchell", "hurst",
                   "dollar_volume", "rel_volume", "turnover", "ma_dist", "zscore"} -> 0..(W - 1)
      [] name \in {"skew", "kurt", "downside_dev", "mad", "var_ratio", "corr_mkt", "mutual_info",
                   "corwin_schultz", "beta_mkt", "amihud", "volume_imbalance"} -> 0..W
      [] name = "autocorr" -> 0..(W + Lag)
      [] name = "pacf" -> 0..(W + 2)
      [] name = "roll_spread" -> 0..(W + 1)

\* Infinite memory: exponential smoothing has no window.
Recursive == {"ema_dist", "ewma_vol"}
\* Built from the primitives that accept part of a window, or fill a gap.
Lenient == {"ma_dist", "zscore", "beta_mkt", "amihud", "volume_imbalance"}

\* The value of a contract whose every named row is observed, NaN otherwise.
ByDefinition(name, i) ==
    LET rows == RowsOf(1, Last)
        named == {i - k : k \in WindowOf(name)}
    IN  IF named \subseteq 1..Len(rows) /\ \A j \in named : rows[j] \notin gaps
        THEN {rows[j] : j \in named} ELSE NaN
MarketDates(i) == LET d == RowsOf(1, Last)[i] IN {d - 1, d}

WindowIsWhole(name) ==
    \A i \in DOMAIN built[name] :
        LET market == IF name \in {"corr_mkt", "mutual_info", "beta_mkt"} /\ built[name][i] # NaN
                      THEN UNION {MarketDates(i - k) : k \in 0..(W - 1)} ELSE {}
        IN  built[name][i] = ByDefinition(name, i) \cup market

\* Every contract that is not recursive or lenient is defined exactly where
\* its whole window was observed, and computed from that window alone,
\* wherever the asset's rows are missing (contracts.py, "Full-window warm-up").
WindowsAreWhole ==
    ContractsBuilt => \A name \in DOMAIN built \ (Recursive \cup Lenient) : WindowIsWhole(name)

\* No contract reads past its bar, and a row of a partition reads its features
\* from its own past and its label from its future (features/pipeline.py, "No
\* lookahead bias").
NothingIsReadAhead ==
    LET rows == RowsOf(1, Last) IN
    /\ ContractsBuilt => \A name \in DOMAIN built : \A i \in DOMAIN built[name] :
                            \A d \in built[name][i] : d <= rows[i]
    /\ PartitionBuilt => \A d \in DOMAIN built : \A name \in DOMAIN built[d] :
                            IF name = "target" THEN built[d][name] \ {d} # {} /\ \A e \in built[d][name] : e >= d
                            ELSE \A e \in built[d][name] : e <= d

\* A partition loaded on its own holds the rows and values the whole panel
\* gives for its dates (pipeline.backfill_features: declared warm-up, label
\* horizon), when the asset has a row on every date.
PartitionsAgree ==
    PartitionBuilt => built = InRange(Frame(RowsOf(1, Last)), range[1], range[2])
PartitionsAgreeOnFullRows == holes = {} => PartitionsAgree

\* What contracts.py says of every contract: no value of a partial window.
\* It does not hold: the mask is by position, so a missing row inside a window
\* of a moving average leaves a value of the rest of the window.
PartialWindowsAreSuppressed ==
    ContractsBuilt => \A name \in DOMAIN built \ Recursive : WindowIsWhole(name)

\* "The first defined value for an asset appears at position warmup - 1"
\* (contracts.py): not so for the returns, which need one row more.
FirstValueIsAtWarmup ==
    ContractsBuilt /\ gaps = {} /\ holes = {} =>
        \A name \in DOMAIN MomentumContracts(<<>>) \ {"logret"} : built[name][W] # NaN
=============================================================================
