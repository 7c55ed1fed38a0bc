------------------------------ MODULE Indicators -------------------------------
(* What the technical analysis computes from one timeframe's candles: RSI, MACD,  *)
(* moving averages, average true range, Bollinger bands, the session's VWAP, the  *)
(* volume ratio, pivot levels, the signals it fires on them, the timeframe's score *)
(* and the direction it is called.  The periods are parameters (an average over p *)
(* candles weighs the newest 1/a); prices are given as a distance from Middle, and *)
(* averages are multiples of 1/Scale.                                              *)
EXTENDS Integers, Sequences, FiniteSets, FiniteSetsExt, Functions

CONSTANTS Bars,                    \* candles [high, low, close, volume]
          Middle,                  \* the price distances are measured from
          Scale,                   \* averages are counted in units of 1/Scale
          RsiPeriod, AtrPeriod, BandPeriod, VolumePeriod,
          Fast, Slow, Smooth,      \* MACD: the newest candle weighs 1/Fast, ...
          Averages,                \* the same for EMA 9, 21, 50 and 200
          Session,                 \* candles a day
          PivotWindow, NLevels,
          MinRows, LevelRows,      \* fewer candles: no analysis, no levels
          MaxRows                  \* bound: candles on the chart

Candle == [high : Int, low : Int, close : Int, volume : Nat]

ASSUME BarsAssumption == Bars \subseteq Candle
ASSUME ScaleAssumption == Middle \in Nat /\ Scale \in Nat
ASSUME PeriodsAssumption ==
    /\ {RsiPeriod, AtrPeriod, BandPeriod, VolumePeriod, Fast, Slow, Smooth, Session,
        PivotWindow} \subseteq Nat \ {0}
    /\ Averages \in [1 .. 4 -> Nat \ {0}]
    /\ NLevels \in Nat /\ LevelRows \in Nat /\ MaxRows \in Nat
    /\ MinRows \in Nat /\ MinRows >= 2

VARIABLES chart, reading
ivars == <<chart, reading>>

NotAnalysed == <<>>
Column(rows, field) == [i \in DOMAIN rows |-> rows[i][field]]
Newest(xs) == xs[Len(xs)]
Positive(x) == IF x > 0 THEN x ELSE 0
Size(x) == IF x < 0 THEN -x ELSE x
Recent(xs, n) == Max({1, Len(xs) - n + 1}) .. Len(xs)

(* pandas' ewm(adjust=False).mean(): the first value, then moved 1/a of the way.  Of  *)
(* how a float rounds it is kept that it does not depend on the sign.               *)
Share(x, a) == IF x < 0 THEN -((-x) \div a) ELSE x \div a
Ewm(xs, a) ==
    LET y[i \in DOMAIN xs] == IF i = 1 THEN xs[1] ELSE Share((a - 1) * y[i - 1] + xs[i], a)
    IN  y
Scaled(xs) == [i \in DOMAIN xs |-> Scale * xs[i]]

(* Gains and losses between closes; RSI is gain / (gain + loss), 50 before any     *)
(* move.  Once a close has moved it never lacks a value again.                     *)
RsiUnknown == [gain |-> 1, loss |-> 1]
Rsi(closes) ==
    LET moves == [i \in 1 .. Len(closes) - 1 |-> closes[i + 1] - closes[i]]
        gain == Newest(Ewm([i \in DOMAIN moves |-> Scale * Positive(moves[i])], RsiPeriod))
        loss == Newest(Ewm([i \in DOMAIN moves |-> Scale * Positive(-moves[i])], RsiPeriod))
    IN  IF Len(closes) < RsiPeriod + 1 \/ gain + loss = 0 THEN RsiUnknown
        ELSE [gain |-> gain, loss |-> loss]

Histogram(closes) ==
    LET fast == Ewm(Scaled(closes), Fast)
        slow == Ewm(Scaled(closes), Slow)
        line == [i \in DOMAIN closes |-> fast[i] - slow[i]]
        signal == Ewm(line, Smooth)
    IN  [i \in DOMAIN closes |-> line[i] - signal[i]]

Cross(hist, previous) ==
    IF hist > 0 /\ previous <= 0 THEN "bullish"
    ELSE IF hist < 0 /\ previous >= 0 THEN "bearish" ELSE "neutral"

Emas(closes) == [k \in DOMAIN Averages |-> Newest(Ewm(Scaled(closes), Averages[k]))]
Falling(e) == e[1] > e[2] /\ e[2] > e[3] /\ e[3] > e[4]
Rising(e) == e[1] < e[2] /\ e[2] < e[3] /\ e[3] < e[4]
Alignment(e) == IF Falling(e) THEN "bullish" ELSE IF Rising(e) THEN "bearish" ELSE "mixed"
AlignmentScore(e) ==
    IF Falling(e) THEN 100 ELSE IF e[1] > e[2] /\ e[2] > e[4] THEN 60
    ELSE IF e[1] > e[4] THEN 30
    ELSE IF Rising(e) THEN -100 ELSE IF e[1] < e[2] /\ e[2] < e[4] THEN -60
    ELSE IF e[1] < e[4] THEN -30 ELSE 0

TrueRange(rows, i) ==
    LET r == rows[i]
    IN  IF i = 1 THEN r.high - r.low
        ELSE Max({r.high - r.low, Size(r.high - rows[i - 1].close),
                  Size(r.low - rows[i - 1].close)})
AtrOf(rows) ==
    IF Len(rows) < AtrPeriod THEN 0
    ELSE Newest(Ewm([i \in DOMAIN rows |-> Scale * TrueRange(rows, i)], AtrPeriod))

(* The bands: BandPeriod times the close's distance from the mean, and the square  *)
(* of BandPeriod times the deviation.  %B is 0 two deviations below the mean, 1    *)
(* two above; Outside says that the close is num/den deviations off on a side.      *)
Bands(closes) ==
    LET recent == Recent(closes, BandPeriod)
        sum == SumFunctionOnSet(closes, recent)
        squares == SumFunctionOnSet([i \in DOMAIN closes |-> closes[i] * closes[i]], recent)
    IN  IF Len(closes) < BandPeriod THEN [off |-> 0, width |-> 0]
        ELSE [off |-> BandPeriod * Newest(closes) - sum,
              width |-> BandPeriod * squares - sum * sum]
Outside(b, side, num, den) ==
    b.width > 0 /\ side * b.off > 0 /\ den * den * b.off * b.off >= num * num * b.width
BandPosition(b) == IF Outside(b, 1, 167, 250) THEN "upper_third"
                   ELSE IF Outside(b, -1, 167, 250) THEN "lower_third" ELSE "middle"

(* The last session's price weighted by volume (three times its distance from      *)
(* Middle); a session without volume so far still shows the one before it.         *)
SessionStart(i) == i - ((i - 1) % Session)
Turnover(rows, i) ==
    SumFunctionOnSet([j \in DOMAIN rows |-> (rows[j].high + rows[j].low + rows[j].close)
                                              * rows[j].volume], SessionStart(i) .. i)
Traded(rows, i) == SumFunctionOnSet(Column(rows, "volume"), SessionStart(i) .. i)
Vwap(rows) ==
    LET valid == {i \in DOMAIN rows : Traded(rows, i) > 0}
        i == Max(valid)
    IN  IF valid = {} THEN [sum |-> 3 * Newest(rows).close, volume |-> 1]
        ELSE [sum |-> Turnover(rows, i), volume |-> Traded(rows, i)]

Surge(volumes) ==
    LET recent == Recent(volumes, VolumePeriod)
        sum == SumFunctionOnSet(volumes, recent)
    IN  sum > 0 /\ 2 * Cardinality(recent) * Newest(volumes) >= 3 * sum

(* detect_support_resistance: the extremes of every full window, and of these the  *)
(* NLevels most extreme, not the latest.                                           *)
Windows(rows) == {i .. i + PivotWindow - 1 : i \in 1 .. Len(rows) - PivotWindow + 1}
Foremost(set, Before(_, _)) ==
    {x \in set : Cardinality({y \in set : Before(y, x)}) < NLevels}
Lowest(set)  == Foremost(set, LAMBDA y, x : y < x)
Highest(set) == Foremost(set, LAMBDA y, x : y > x)
Lows(rows)   == {Min({rows[i].low : i \in w}) : w \in Windows(rows)}
Highs(rows)  == {Max({rows[i].high : i \in w}) : w \in Windows(rows)}
Supports(rows)    == Lowest(Lows(rows))
Resistances(rows) == Highest(Highs(rows))
Pivots(rows) ==
    IF Len(rows) < LevelRows THEN [supports |-> {}, resistances |-> {}]
    ELSE [supports |-> Supports(rows), resistances |-> Resistances(rows)]

(* _detect_signals.                                                               *)
Oversold(r) == 100 * r.gain <= 30 * (r.gain + r.loss)
Overbought(r) == 100 * r.gain >= 70 * (r.gain + r.loss)
NearAverage(close, ema) ==
    LET d == Scale * close - ema
    IN  CASE d > 0 /\ 100 * d <= ema + Scale * Middle -> "ema200_support"
          [] d < 0 /\ -100 * d <= ema + Scale * Middle -> "ema200_resistance"
          [] OTHER -> "none"
Fired(r) ==
    {s \in {"rsi_oversold"} : Oversold(r.rsi)}
      \cup {s \in {"rsi_overbought"} : Overbought(r.rsi) /\ ~Oversold(r.rsi)}
      \cup {s \in {"macd_bullish_cross"} : r.cross = "bullish"}
      \cup {s \in {"macd_bearish_cross"} : r.cross = "bearish"}
      \cup {s \in {"bb_lower_touch"} : Outside(r.band, -1, 9, 5)}
      \cup {s \in {"bb_upper_touch"} : Outside(r.band, 1, 9, 5)}
      \cup {s \in {"volume_surge"} : r.surge}

(* What each figure adds to the score, in hundredths: a fall speaks for buying, a  *)
(* trend for itself, volume and a widening range for buying whatever the trend.    *)
RsiPoints(r) ==
    LET upTo(pct) == 100 * r.gain <= pct * (r.gain + r.loss)
    IN  IF upTo(20) THEN 100 ELSE IF upTo(30) THEN 70 ELSE IF upTo(40) THEN 30
        ELSE IF upTo(60) THEN 0 ELSE IF upTo(70) THEN -30 ELSE IF upTo(80) THEN -70 ELSE -100
MacdPoints(hist, previous) ==
    LET cross == Cross(hist, previous)
    IN  IF cross = "bullish" THEN 90 ELSE IF cross = "bearish" THEN -90
        ELSE IF hist > 0 THEN 30 ELSE IF hist < 0 THEN -30 ELSE 0
\* Variant: the upper edge has the sign of the lower one.
BandPointsAlike(b) ==
    IF Outside(b, -1, 48, 25) THEN 100 ELSE IF Outside(b, -1, 6, 5) THEN 50
    ELSE IF Outside(b, 1, 48, 25) THEN 100 ELSE IF Outside(b, 1, 6, 5) THEN 50 ELSE 0
BandPoints(b) ==
    IF Outside(b, -1, 48, 25) THEN 100 ELSE IF Outside(b, -1, 6, 5) THEN 50
    ELSE IF Outside(b, 1, 48, 25) THEN -100 ELSE IF Outside(b, 1, 6, 5) THEN -50 ELSE 0
RangePoints(atr, previous) ==
    IF previous > 0 THEN Max({-50, Min({50, (200 * (atr - previous)) \div previous})}) ELSE 0
VolumePoints(volumes) ==
    LET recent == Recent(volumes, VolumePeriod)
        sum == SumFunctionOnSet(volumes, recent)
        times(tenths) == 10 * Cardinality(recent) * Newest(volumes) >= tenths * sum
    IN  IF sum = 0 THEN 0 ELSE IF times(30) THEN 50 ELSE IF times(20) THEN 40
        ELSE IF times(15) THEN 30 ELSE IF times(10) THEN 10 ELSE -10

\* Trend 35%, momentum 30%, volatility 20% (seven tenths the bands), volume 15%.
FrameScore(order, macd, rsi, band, range, volume) ==
    Max({-100000, Min({100000, 175 * (order + macd) + 300 * rsi
                                 + 20 * (7 * band + 3 * range) + 150 * volume})})
FrameSignal(score) == IF score >= 20000 THEN "BULLISH"
                      ELSE IF score <= -20000 THEN "BEARISH" ELSE "NEUTRAL"

(* TechnicalAnalyzer.analyze.                                                     *)
Analysis(rows) ==
    LET closes == Column(rows, "close")
        hist == Histogram(closes)
        previous == hist[Len(hist) - 1]
        emas == Emas(closes)
        range == RangePoints(AtrOf(rows), AtrOf(SubSeq(rows, 1, Len(rows) - 1)))
        busy == VolumePoints(Column(rows, "volume"))
        score == FrameScore(AlignmentScore(emas), MacdPoints(Newest(hist), previous),
                            RsiPoints(Rsi(closes)), BandPoints(Bands(closes)), range, busy)
        found == [rsi   |-> Rsi(closes),
                  cross |-> Cross(Newest(hist), previous),
                  order |-> AlignmentScore(emas), alignment |-> Alignment(emas),
                  near  |-> NearAverage(Newest(closes), emas[4]),
                  atr   |-> AtrOf(rows), range |-> range,
                  band  |-> Bands(closes), position |-> BandPosition(Bands(closes)),
                  vwap  |-> Vwap(rows), surge |-> Surge(Column(rows, "volume")), busy |-> busy,
                  levels |-> Pivots(rows), score |-> score, signal |-> FrameSignal(score),
                  fired |-> {}]
    IN  [found EXCEPT !.fired = Fired(found)]

ChartInit == chart = <<>> /\ reading = NotAnalysed

\* The next closed candle arrives and the timeframe is analysed again.
Analyse(bar) ==
    /\ Len(chart) < MaxRows
    /\ chart' = Append(chart, bar)
    /\ reading' = IF Len(chart') < MinRows THEN NotAnalysed ELSE Analysis(chart')

ChartNext == \E bar \in Bars : Analyse(bar)
ChartSpec == ChartInit /\ [][ChartNext]_ivars

(********************************** correctness *********************************)

UpsideDown(bar) == [bar EXCEPT !.high = -bar.low, !.low = -bar.high, !.close = -bar.close]
Negated(set) == {-x : x \in set}
Counterpart(name) ==
    CASE name = "bullish" -> "bearish" [] name = "bearish" -> "bullish"
      [] name = "upper_third" -> "lower_third" [] name = "lower_third" -> "upper_third"
      [] name = "rsi_oversold" -> "rsi_overbought" [] name = "rsi_overbought" -> "rsi_oversold"
      [] name = "macd_bullish_cross" -> "macd_bearish_cross"
      [] name = "macd_bearish_cross" -> "macd_bullish_cross"
      [] name = "bb_lower_touch" -> "bb_upper_touch" [] name = "bb_upper_touch" -> "bb_lower_touch"
      [] name = "ema200_support" -> "ema200_resistance"
      [] name = "ema200_resistance" -> "ema200_support"
      [] OTHER -> name
Turned(r) ==
    [r EXCEPT !.rsi = [gain |-> r.rsi.loss, loss |-> r.rsi.gain],
              !.cross = Counterpart(r.cross), !.alignment = Counterpart(r.alignment),
              !.order = -r.order, !.near = Counterpart(r.near),
              !.band = [r.band EXCEPT !.off = -r.band.off],
              !.position = Counterpart(r.position), !.vwap = [r.vwap EXCEPT !.sum = -r.vwap.sum],
              !.levels = [supports |-> Negated(r.levels.resistances),
                          resistances |-> Negated(r.levels.supports)],
              !.fired = {Counterpart(s) : s \in r.fired}]

\* An RSI that sits on a threshold belongs to the buying side of it.
AtEdge(r) ==
    LET on(pct) == 100 * r.gain = pct * (r.gain + r.loss)
    IN  IF on(30) \/ on(70) THEN 40 ELSE IF \E pct \in {20, 40, 60, 80} : on(pct) THEN 30 ELSE 0

\* A chart turned upside down reads the other way round in every figure, level and fired
\* signal, and as volatile and as busy as before. Its score is not the opposite: the two
\* differ from that by what volume and a changing range add in either direction and by the
\* RSI's closed thresholds, and by nothing else. That lean is small enough that a market
\* and its mirror image are never called the same direction, up or down.
\* (The 1% around the 200-candle average is 1% of the average, which the turn moves:
\* close to its edge one of the two may not be near it, but never on the wrong side.)
BothWaysAlike ==
    reading # NotAnalysed =>
        LET other == Analysis([i \in DOMAIN chart |-> UpsideDown(chart[i])])
            turned == Turned(reading)
        IN  /\ \A figure \in DOMAIN turned \ {"near", "score", "signal"} :
                  other[figure] = turned[figure]
            /\ other.near = turned.near \/ "none" \in {other.near, turned.near}
            /\ reading.score + other.score
                 = 300 * AtEdge(reading.rsi) + 120 * reading.range + 300 * reading.busy
            /\ reading.signal = other.signal => reading.signal = "NEUTRAL"
================================================================================
