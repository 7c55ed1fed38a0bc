------------------------------- MODULE MarketScores ----------------------------
(* What the analysis reads off a market: the technical score, the market regime, *)
(* the three strategies' signals and the chart, derivatives and sentiment scores. *)
(* Pure operators on a record t of technical readings and a record m of market    *)
(* readings.  Points are counted in hundredths (1200 is 12.0 points), prices in   *)
(* quarters of a cent, confidences and RSI in percent, volume ratios in tenths.   *)
EXTENDS Integers, FiniteSets, FiniteSetsExt, SequencesExt

Entry == 40000                     \* the current price, $100.00
Opposite(dir) == IF dir = "LONG" THEN "SHORT" ELSE "LONG"
Sign(dir) == IF dir = "LONG" THEN 1 ELSE -1
Bound(x, low, high) == IF x < low THEN low ELSE IF x > high THEN high ELSE x
Either(cond, x, y) == IF cond THEN x ELSE y
Bonus(cond, points) == IF cond THEN points ELSE 0
\* Python's `value or default`: a reading of exactly 0 counts as missing.
OrElse(x, default) == IF x = 0 THEN default ELSE x
Hundredths(points, percent) == (points * percent) \div 100
\* A price rounded half up to a cent.
Cents(price) == ((price + 2) \div 4) * 4

(***************************** technical analysis *******************************)

RsiScore(rsi) == IF rsi <= 20 THEN 100 ELSE IF rsi <= 30 THEN 70
            ELSE IF rsi <= 40 THEN 30 ELSE IF rsi <= 60 THEN 0
            ELSE IF rsi <= 70 THEN -30 ELSE IF rsi <= 80 THEN -70 ELSE -100
MacdScore(t) == CASE t.cross = "bullish" -> 90 [] t.cross = "bearish" -> -90
                  [] OTHER -> 30 * t.hist
BollingerScore(b) == IF b <= 2 THEN 100 ELSE IF b <= 20 THEN 50
                ELSE IF b >= 98 THEN -100 ELSE IF b >= 80 THEN -50 ELSE 0
VolumeScore(v) == IF v >= 30 THEN 50 ELSE IF v >= 20 THEN 40 ELSE IF v >= 15 THEN 30
             ELSE IF v >= 10 THEN 10 ELSE -10

\* One timeframe: trend 35%, momentum 30%, volatility 20%, volume 15% (of 100 000).
TimeframeScore(t) ==
    Bound(175 * (t.order + MacdScore(t)) + 300 * RsiScore(t.rsi)
             + 20 * (7 * BollingerScore(t.pctB) + 3 * t.atrMove)
             + 150 * VolumeScore(t.vol),
          -100000, 100000)

\* The 1h and 4h timeframes, weighted 20 and 25.
TechScore(t) == (20 * TimeframeScore(t) + 25 * t.confirmScore) \div 45

(*********************************** strategies *********************************)

NoSignal == [dir |-> "NO_TRADE", conf |-> 0, stop |-> 0, target |-> 0, rr |-> 0]
Leverage(conf) == IF conf >= 95 THEN 15 ELSE IF conf >= 90 THEN 10
                  ELSE IF conf >= 80 THEN 7 ELSE IF conf >= 70 THEN 5 ELSE 3

\* _build_signal: stop and target at the given distances, rounded to cents, and the
\* ratio of the two in hundredths.
Signal(dir, conf, stopDistance, targetDistance) ==
    [dir |-> dir, conf |-> conf,
     stop   |-> Cents(Entry - Sign(dir) * stopDistance),
     target |-> Cents(Entry + Sign(dir) * targetDistance),
     rr     |-> (200 * targetDistance + stopDistance) \div (2 * stopDistance)]

\* A crossing, histogram, alignment or score in favour of a direction.
Favours(dir, up, down) == Either(dir = "LONG", up, down)
Aligned(t, dir) == t.ema   = Favours(dir, "bullish", "bearish")
Crossed(t, dir) == t.cross = Favours(dir, "bullish", "bearish")
Distance(dir, price) == Sign(dir) * (price - Entry)

EmaTrend(t) ==
    IF t.stack \notin {"LONG", "SHORT"} \/ t.hist # Sign(t.stack) THEN NoSignal
    ELSE LET dir == t.stack
             conf == 55 + Bonus(Aligned(t, dir), 10) + Bonus(Crossed(t, dir), 8)
                     + Either(t.vol >= 15, 5, Bonus(t.vol >= 10, 2))
                     + Bonus(Favours(dir, t.rsi < 60, t.rsi > 40), 5)
         IN  Signal(dir, conf, (t.atr * 3) \div 2, (t.atr * 15) \div 4)

RsiReversal(t) ==
    LET dir == IF t.rsi <= 35 /\ t.pctB <= 25 THEN "LONG"
               ELSE IF t.rsi >= 65 /\ t.pctB >= 75 THEN "SHORT" ELSE "NO_TRADE"
        depth == Favours(dir, t.rsi, 100 - t.rsi)
        conf == (IF depth <= 25 THEN 78 ELSE IF depth <= 30 THEN 68 ELSE 58)
                + Bonus(Favours(dir, t.pctB <= 10, t.pctB >= 90), 5)
                + Either(Crossed(t, dir), 8, Bonus(t.hist = Sign(dir), 3))
    IN  IF dir = "NO_TRADE" THEN NoSignal
        ELSE Signal(dir, conf, t.atr, (t.atr * 5) \div 2)

\* The levels just broken: within 2% on the side the price came from.
Broken(t, dir) ==
    {Distance(Opposite(dir), p) : p \in
        {q \in Favours(dir, t.resistances, t.supports) :
            Distance(Opposite(dir), q) \in 1 .. Entry \div 50}}

Breakout(t) ==
    LET up == Broken(t, "LONG")   down == Broken(t, "SHORT")
        dir == IF up # {} /\ (down = {} \/ Min(up) <= Min(down)) THEN "LONG" ELSE "SHORT"
        level == Min(Broken(t, dir))
        next == {d \in {Distance(dir, p) : p \in Favours(dir, t.resistances, t.supports)} :
                    d > 0}
        stop == Max({level + (3 * (Entry - Sign(dir) * level)) \div 1000, t.atr \div 2})
        target == Max({(stop * 5) \div 2} \cup (IF next = {} THEN {} ELSE {Min(next)}))
        conf == 60 + (IF t.vol >= 25 THEN 10 ELSE IF t.vol >= 20 THEN 6 ELSE 2)
                + Bonus(Favours(dir, TechScore(t) >= 30000, TechScore(t) <= -30000), 5)
                + Bonus(Aligned(t, dir), 5)
    IN  IF t.vol < 15 \/ up \cup down = {} THEN NoSignal
        ELSE Signal(dir, conf, stop, target)

StrategySignals(t) == [ema_trend |-> EmaTrend(t), rsi_reversal |-> RsiReversal(t),
               breakout |-> Breakout(t)]
\* The order the strategies are listed in, which breaks ties.
Place(s) == CASE s = "ema_trend" -> 3 [] s = "rsi_reversal" -> 2 [] s = "breakout" -> 1

\* What is left of a signal for the decision engine.
Offer(signal, leverage) == [dir |-> signal.dir, stop |-> signal.stop,
                            target |-> signal.target, leverage |-> leverage]

\* _aggregate: the majority's direction, its average confidence and its most
\* confident member's stop and target; too little confidence is no trade.
Aggregate(signals) ==
    LET of(dir) == {s \in DOMAIN signals : signals[s].dir = dir}
        dir == CHOOSE d \in {"LONG", "SHORT"} :
                  Cardinality(of(d)) >= Cardinality(of(Opposite(d)))
        conf == MapThenSumSet(LAMBDA s : 100 * signals[s].conf, of(dir))
                  \div Cardinality(of(dir))
        rank(s) == 10 * signals[s].conf + Place(s)
        best == CHOOSE s \in of(dir) : \A u \in of(dir) : rank(u) <= rank(s)
    IN  IF Cardinality(of("LONG")) = Cardinality(of("SHORT")) \/ conf < 6000
        THEN Offer(NoSignal, 1) ELSE Offer(signals[best], Leverage(conf \div 100))

(************************************* regime ***********************************)

Count(conditions) == Cardinality({i \in DOMAIN conditions : conditions[i]})

\* classify_market_regime: the first playbook with two signals of its own.
Regime(t, strategyDir) ==
    LET score == TechScore(t)
        hot   == Count(<<t.bandwidth > 10, 100 * t.atr > 3 * Entry, t.vol > 20>>)
        up    == Count(<<t.ema = "bullish", t.confirm = "bullish", score > 30000,
                         strategyDir = "LONG">>)
        down  == Count(<<t.ema = "bearish", t.confirm = "bearish", score < -30000,
                         strategyDir = "SHORT">>)
        flat  == Count(<<t.ema = "mixed", t.bandwidth < 5, score \in -19999 .. 19999,
                         strategyDir = "NO_TRADE">>)
    IN  IF t.newsEvent    THEN "NEWS_EVENT"
        ELSE IF hot >= 2  THEN "HIGH_VOLATILITY"
        ELSE IF up >= 2   THEN "TREND_UP"
        ELSE IF down >= 2 THEN "TREND_DOWN"
        ELSE IF flat >= 2 THEN "RANGE"
        ELSE "UNKNOWN"

(************************************* scores ***********************************)

\* A support or resistance within 0.8% of the price, on either side.
Near(levels) == \E p \in levels : 1000 * (p - Entry) \in -8 * Entry .. 8 * Entry

\* The readings that speak for a direction, and the points each is worth.
Evidence(t, dir) ==
    LET rsi  == OrElse(t.rsi, 50)
        pctB == OrElse(t.pctB, 50)
    IN  << Bonus(Favours(dir, rsi <= 35, rsi >= 65), 1200),
           Either(Crossed(t, dir), 1200, Bonus(t.hist = Sign(dir), 800)),
           Bonus(Aligned(t, dir), 1400),
           Bonus(Favours(dir, pctB <= 25, pctB >= 75), 1000),
           Bonus(Near(Favours(dir, t.supports, t.resistances)), 1000),
           Bonus(t.vol >= 18 /\ t.change * Sign(dir) > 0, 800) >>

\* Variant: the bonus for a pullback is given in every regime.
SetupAlways(t, dir, regime) ==
    LET nearLevel == Near(Favours(dir, t.supports, t.resistances))
        extreme(rsi, low, high) ==
            nearLevel \/ Favours(dir, OrElse(t.rsi, 50) <= rsi, OrElse(t.rsi, 50) >= 100 - rsi)
                     \/ Favours(dir, t.pctB <= low, t.pctB >= high)
    IN  IF regime # "RANGE" THEN Bonus(Aligned(t, dir) /\ extreme(45, 45, 55), 1800)
        ELSE Bonus(extreme(35, 25, 75), 1200)

\* What the regime adds: a pullback in the direction of the trend, an extreme of
\* a range.
Setup(t, dir, regime) ==
    LET nearLevel == Near(Favours(dir, t.supports, t.resistances))
        extreme(rsi, low, high) ==
            nearLevel \/ Favours(dir, OrElse(t.rsi, 50) <= rsi, OrElse(t.rsi, 50) >= 100 - rsi)
                     \/ Favours(dir, t.pctB <= low, t.pctB >= high)
    IN  IF regime = Favours(dir, "TREND_UP", "TREND_DOWN")
        THEN Bonus(Aligned(t, dir) /\ extreme(45, 45, 55), 1800)
        ELSE Bonus(regime = "RANGE" /\ extreme(35, 25, 75), 1200)

\* What it takes away: shorts count 65% in a rising market, longs 55% in a falling one.
Damping(dir, regime) ==
    CASE regime = "HIGH_VOLATILITY" -> 70
      [] regime = "NEWS_EVENT"      -> 60
      [] regime = "TREND_UP"   /\ dir = "SHORT" -> 65
      [] regime = "TREND_DOWN" /\ dir = "LONG"  -> 55
      [] OTHER -> 100

\* score_chart_signals: a direction's score (a lone piece of evidence counts 55%).
ChartScore(t, dir, regime) ==
    LET evidence == Evidence(t, dir)
        score == Hundredths(SumFunction(evidence) + Setup(t, dir, regime), Damping(dir, regime))
        lone == Count([i \in DOMAIN evidence |-> evidence[i] > 0]) = 1
    IN  Bound(Either(lone, Hundredths(score, 55), score), 0, 10000)

ChartRisk(t, regime) ==
    LET several(dir) == Count([i \in 1 .. 6 |-> Evidence(t, dir)[i] > 0]) >= 2
    IN  1000 + Bonus(t.vol >= 18, 800) + Bonus(several("LONG") /\ several("SHORT"), 800)
             + (CASE regime = "HIGH_VOLATILITY" -> 3500 [] regime = "NEWS_EVENT" -> 4000
                  [] regime = "UNKNOWN" -> 1200 [] OTHER -> 0)

\* The side the futures market crowds on: two longs for every three accounts, say.
Crowded(m) == CASE m.known /\ m.longShort >= 150 -> "LONG"
                [] m.known /\ m.longShort <= 67  -> "SHORT"
                [] OTHER -> "NONE"

\* score_derivatives_market (funding in hundredths of a percent, open interest and
\* price moves in hundredths of a percent, liquidations as a flag).
Derivatives(m, t, regime) ==
    IF ~m.known THEN [LONG |-> 0, SHORT |-> 0, risk |-> 0]
    ELSE
    LET rising    == t.change > 25 /\ m.openInterest > 50
        falling   == t.change < -25 /\ m.openInterest > 50
        hotLong   == rising  /\ m.funding >= 10  /\ Crowded(m) = "LONG"
        hotShort  == falling /\ m.funding <= -10 /\ Crowded(m) = "SHORT"
        squeeze(dir) == m.openInterest <= -200 /\ t.change * Sign(dir) >= 200
        joined    == rising /\ m.funding \in -3 .. 3
    IN  [LONG  |-> Bonus(joined, 800)
                   - Either(hotLong, 1400, Bonus(m.funding >= 10, 600))
                   + Bonus(hotShort, 400) - Bonus(squeeze("SHORT"), 400),
         SHORT |-> Bonus(hotLong, 400)
                   - Either(hotShort, 1400, Bonus(m.funding <= -10, 600))
                   - Bonus(squeeze("LONG"), 400),
         risk  |-> Bound(Bonus(Crowded(m) # "NONE", 1800) + Bonus(joined, 500)
                   + Either(hotLong \/ hotShort, 2800,
                            Bonus(m.funding >= 10 \/ m.funding <= -10, 1500))
                   + Bonus(squeeze("LONG") \/ squeeze("SHORT"), 2500)
                   + Bonus(m.liquidations, 2000)
                   + Bonus(m.volumeJump /\ t.change \notin -24 .. 24, 600)
                   + (CASE regime = "HIGH_VOLATILITY" -> 2000 [] regime = "NEWS_EVENT" -> 2500
                        [] regime = "UNKNOWN" -> 500 [] OTHER -> 0), 0, 10000)]

\* score_news_sentiment: its risk, and whether it forbids any trade.  Its two
\* adjustments are computed and used by nobody.
Sentiment(m, regime) ==
    LET fearGreed == OrElse(m.fearGreed, 50)
        event == m.headlines >= 80 \/ m.headlines <= -80
    IN  [noTrade |-> event \/ regime = "NEWS_EVENT",
         risk |-> Bound((IF fearGreed >= 75 THEN 2000 ELSE IF fearGreed >= 56 THEN 1000
                   ELSE IF fearGreed <= 25 THEN 1000 ELSE IF fearGreed <= 44 THEN 500 ELSE 0)
                  + Bonus(event, 4000)
                  + (CASE regime = "NEWS_EVENT" -> 3500 [] regime = "HIGH_VOLATILITY" -> 2500
                       [] regime = "UNKNOWN" -> 1000 [] OTHER -> 0), 0, 10000)]
================================================================================
