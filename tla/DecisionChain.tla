------------------------------ MODULE DecisionChain ----------------------------
(* One pass of the deterministic decision: the market is read, the decision       *)
(* engine selects a strategy and builds a candidate, the reviewer and the risk    *)
(* engine judge it and decide_final_action assembles the verdicts.  Each action is *)
(* one of the pipeline's calls; what the later calls do not need is forgotten.    *)
(* Money is counted in cents.                                                     *)
EXTENDS MarketScores

CONSTANTS
    Technicals,   \* technical readings of the primary and confirming timeframes
    Markets,      \* readings of the futures market, the news and the order book
    Accounts,     \* the user's limits and account, as the pipeline is given them
    MinScore      \* score a direction needs (MIN_LONG_SCORE, MIN_SHORT_SCORE)

ASSUME MinScoreAssumption == MinScore \in 0 .. 10000
ASSUME TechnicalsAssumption ==      \* the strategies keep the ATR at _MIN_ATR or above
    \A t \in Technicals : /\ t.atr \in Nat \ {0} /\ t.change \in Int
                           /\ t.supports \cup t.resistances \subseteq Int
ASSUME AccountsAssumption == \A a \in Accounts : {a.daily, a.dailyLimit, a.riskPct} \subseteq Int

VARIABLES
    stage,       \* the call the pipeline makes next
    view,        \* regime, chart scores and signals of the first calls
    candidate,   \* the TradeCandidate
    review,      \* the reviewer's answer
    verdict,     \* the risk engine's rejection code, or "approved"
    account,     \* the account it was judged by
    halted,      \* the risk engine halted the user's trading
    final        \* the final action

vars == <<stage, view, candidate, review, verdict, account, halted, final>>

Nothing == [none |-> TRUE]
Hold == [action |-> "HOLD"]
Regimes == {"NEWS_EVENT", "HIGH_VOLATILITY", "TREND_UP", "TREND_DOWN", "RANGE", "UNKNOWN"}

Init ==
    /\ stage = "score" /\ view = Nothing /\ candidate = Hold
    /\ review = Nothing /\ verdict = "none" /\ account = Nothing
    /\ halted = FALSE /\ final = "HOLD"

(****************************** strategy selection ******************************)

Thresholds == [SCALPING        |-> [spread |-> 30, minutes |-> 10,  holding |-> 5],
               INTRADAY        |-> [spread |-> 50, minutes |-> 60,  holding |-> 30],
               TREND_FOLLOWING |-> [spread |-> 80, minutes |-> 240, holding |-> 120],
               BREAKOUT        |-> [spread |-> 60, minutes |-> 120, holding |-> 60],
               UNKNOWN         |-> [spread |-> 0,  minutes |-> 0,   holding |-> 0]]

\* The strategies of each regime's playbook, by the type their candidates take.
Playbook(regime) ==
    CASE regime \in {"TREND_UP", "TREND_DOWN"} ->
             [ema_trend |-> "TREND_FOLLOWING", breakout |-> "BREAKOUT"]
      [] regime = "RANGE" -> [rsi_reversal |-> "INTRADAY"]
      [] OTHER -> <<>>

\* The strategy candidate the engine prefers: the most confident the playbook allows,
\* then the one with the best ratio, then the first.
Preferred(signals, regime) ==
    LET allowed == {s \in DOMAIN Playbook(regime) : signals[s].dir # "NO_TRADE"}
        rank(s) == 1000000 * signals[s].conf + 10 * signals[s].rr + Place(s)
    IN  IF allowed = {} THEN "none"
        ELSE CHOOSE s \in allowed : \A u \in allowed : rank(u) <= rank(s)

\* 40% chart, 30% news, 30% derivatives; the two modules that compute it differ on
\* a chart risk of 0.
CombinedRisk(chart, news, derivatives) == (40 * chart + 30 * news + 30 * derivatives) \div 100

\* select_strategy_type: the first strategy whose conditions hold.
Selected(v, m, news, derivatives) ==
    LET risk   == CombinedRisk(v.risk, news.risk, derivatives.risk)
        best   == Max({v.LONG, v.SHORT})
        lean   == IF v.LONG > v.SHORT THEN "LONG" ELSE IF v.SHORT > v.LONG THEN "SHORT"
                  ELSE "NEUTRAL"
        crowd  == Crowded(m) = lean
        trend  == v.regime \in {"TREND_UP", "TREND_DOWN"}
        burst  == v.vol >= 18 /\ v.change \in -299 .. 299
    IN  IF v.regime \in {"HIGH_VOLATILITY", "NEWS_EVENT"} \/ news.noTrade THEN "UNKNOWN"
        ELSE IF trend /\ best >= 5500 /\ risk + Bonus(crowd, 1000) <= 5500 THEN "TREND_FOLLOWING"
        ELSE IF burst /\ crowd THEN "UNKNOWN"
        ELSE IF burst /\ risk <= 5000 THEN "BREAKOUT"
        ELSE IF (trend \/ v.regime = "RANGE") /\ m.spread <= 50 /\ best >= 3500 /\ risk <= 6000
             THEN "INTRADAY"
        ELSE IF m.spread <= 30 /\ best >= 2000 /\ risk <= 4000 THEN "SCALPING"
        ELSE "UNKNOWN"

(****************************** the trade candidate *****************************)

MinRR == 2

\* _compute_exits: the signal's stop and target where they lie on the right side,
\* else the nearest level, else a distance from the ATR; a target short of the
\* minimum R:R is moved out to it.  Both are rounded to cents.  A short whose target
\* would not be above zero has none.
NoExits == [stop |-> 0, target |-> 0]
Exits(v, dir, signal) ==
    LET ahead(price) == Distance(dir, price)
        stopLevels == {-ahead(p) : p \in {q \in Favours(dir, v.supports, v.resistances) :
                                              ahead(q) < 0}}
        fallback == Max({(v.atr * 3) \div 2, (3 * Entry) \div 1000})
        stop == IF signal.stop > 0 /\ ahead(signal.stop) < 0 THEN -ahead(signal.stop)
                ELSE IF stopLevels # {} THEN Min(stopLevels) ELSE fallback
        nextLevels == {ahead(p) : p \in {q \in Favours(dir, v.resistances, v.supports) :
                                             ahead(q) > 0}}
        given == IF signal.target > 0 /\ ahead(signal.target) > 0 THEN ahead(signal.target)
                 ELSE IF nextLevels = {} THEN 0 ELSE Min(nextLevels)
        target == Max({given, MinRR * stop})
    IN  IF Entry + Sign(dir) * target <= 0 THEN NoExits
        ELSE [stop   |-> Cents(Entry - Sign(dir) * stop),
              target |-> Cents(Entry + Sign(dir) * target)]

MaxLeverage == 10
Total == 1000000                     \* account_state.total_balance, $10 000

\* generate_trade_candidate: a HOLD, or a priced order of 2% margin whose expected
\* profit and loss count the fees (5 bps) and the slippage (3 bps) of both sides.
Candidate(v, m, strategy, signal, leverageAsked, adjust, risk, noTrade) ==
    LET strong(dir) == Bound(v[dir] + adjust[dir], 0, 10000) >= MinScore
        dir   == IF strong("LONG") THEN "LONG" ELSE "SHORT"
        exits == Exits(v, dir, signal)
        loss  == -Distance(dir, exits.stop)
        gain  == Distance(dir, exits.target)
        leverage == Bound(leverageAsked, 1, MaxLeverage)
        notional == (Total \div 50) * leverage
        costs == (notional * 16) \div 10000
    IN  IF \/ strategy = "UNKNOWN" \/ noTrade \/ risk > 5500
           \/ strong("LONG") = strong("SHORT") \/ exits = NoExits
           \/ loss <= 0 \/ gain <= 0
        THEN Hold
        ELSE [action |-> dir, strategy |-> strategy, leverage |-> leverage,
              stop |-> exits.stop, target |-> exits.target, notional |-> notional,
              lowRR |-> 20000 * gain < 39999 * loss,
              netLoss |-> (notional * loss) \div Entry + costs,
              netProfit |-> (notional * gain) \div Entry - costs,
              liquidation |-> Entry - Sign(dir) * (Entry \div leverage),
              spread |-> m.spread, minutesToFunding |-> m.minutesToFunding]

(********************************* the reviewer *********************************)

\* The strategies the reviewer's playbook allows in a regime.  Only the reviewer
\* consults it: a run that does not ask it skips the playbook too.
Allowed(regime) ==
    CASE regime \in {"TREND_UP", "TREND_DOWN"} -> {"TREND_FOLLOWING", "BREAKOUT", "INTRADAY"}
      [] regime = "RANGE" -> {"SCALPING", "INTRADAY"}
      [] OTHER -> {}

\* _review_playbook_guard refuses before the model is asked; R:R is rounded to four places.
Barred(c, regime) == c.strategy \notin Allowed(regime) \/ c.lowRR

\* A guard's refusal; what an error, an unreadable reply or an unknown action counts
\* for; and a reply around the confidence decide_final_action asks for.
Replies(c, regime) ==
    IF Barred(c, regime) THEN {[action |-> "REJECT", confidence |-> 100, contradiction |-> TRUE]}
    ELSE {[action |-> "REJECT", confidence |-> 0, contradiction |-> TRUE]}
         \cup [action : {"APPROVE", "REJECT"}, confidence : {69, 70}, contradiction : BOOLEAN]

NotAsked == [action |-> "APPROVE", confidence |-> 100, contradiction |-> FALSE]

(******************************* the risk engine ********************************)

\* validate_candidate's checks in order, with the code each rejects by: the user's
\* limits,
AccountChecks(c, a) == <<
    <<"KILL_SWITCH",       a.halted>>,
    <<"TRADING_INACTIVE",  ~a.active>>,
    <<"STRATEGY_RR",       c.lowRR>>,
    <<"LEVERAGE_LIMIT",    c.leverage > Min({MaxLeverage, a.maxLeverage})>>,
    <<"ORDER_001",         a.daily + c.netLoss > a.dailyLimit \/ a.daily >= a.dailyLimit>>,
    <<"WEEKLY_LOSS",       a.weeklyLimit > 0 /\ a.weekly >= a.weeklyLimit>>,
    <<"CONSEC_LOSS",       a.streak >= 3>>,
    <<"ORDER_002",         a.open >= a.maxOpen /\ ~a.holdsCoin>>,
    <<"POSITION_CONFLICT", a.holdsCoin>> >>

\* Variant: the liquidation price is not compared with the stop.
OrderChecksNoLiquidation(c, a) == <<
    <<"EXPECTED_PROFIT", 1000 * c.netProfit <= c.notional>>,
    <<"EXPECTED_LOSS",   100 * c.netLoss > Total * a.riskPct>> >>

\* what the order can win and lose (the liquidation price is kept 0.1% off the stop),
OrderChecks(c, a) == <<
    <<"EXPECTED_PROFIT",      1000 * c.netProfit <= c.notional>>,
    <<"EXPECTED_LOSS",        100 * c.netLoss > Total * a.riskPct>>,
    <<"LIQUIDATION_DISTANCE", Sign(c.action) * 1000 * c.liquidation
                                 >= (Sign(c.action) * 1000 - 1) * c.stop>> >>

\* and the market and the portfolio.
MarketChecks(c, a, regime) ==
    LET limits == Thresholds[c.strategy]
    IN  << <<"SPREAD_LIMIT",    c.spread > limits.spread>>,
           <<"FUNDING_WINDOW",  c.minutesToFunding \in -5 .. 10>>,
           <<"HIGH_VOLATILITY", regime = "HIGH_VOLATILITY">>,
           <<"NEWS_EVENT",      regime = "NEWS_EVENT">>,
           <<"HOLDING_TIME",    limits.holding \notin 1 .. limits.minutes>>,
           <<"PORTFOLIO_RISK",  100 * (a.openRisk + c.netLoss) > Total * a.portfolioPct>> >>

Verdict(c, a, regime) ==
    LET checks == AccountChecks(c, a) \o OrderChecks(c, a) \o MarketChecks(c, a, regime)
        failed == {i \in DOMAIN checks : checks[i][2]}
    IN  IF failed = {} THEN "approved" ELSE checks[Min(failed)][1]

(************************************ the calls *********************************)

Keep(others) == UNCHANGED others

\* classify_market_regime, score_chart_signals and the strategies.
Scored(t) ==
    LET signals == StrategySignals(t)
        vote    == Aggregate(signals)
        regime  == Regime(t, vote.dir)
        pick    == Preferred(signals, regime)
    IN  [regime |-> regime, LONG |-> ChartScore(t, "LONG", regime),
         SHORT |-> ChartScore(t, "SHORT", regime), risk |-> ChartRisk(t, regime),
         pick |-> pick,
         signal |-> IF pick = "none" THEN vote
                    ELSE Offer(signals[pick], Leverage(signals[pick].conf)),
         supports |-> t.supports, resistances |-> t.resistances,
         atr |-> t.atr, vol |-> t.vol, change |-> t.change]

Score ==
    /\ stage = "score"
    /\ \E t \in Technicals : view' = Scored(t)
    /\ stage' = "decide"
    /\ Keep(<<candidate, review, verdict, account, halted, final>>)

\* The rest of DecisionEngine.run: a preferred strategy candidate replaces the
\* selected strategy, its stop, target and leverage replace the vote's.
Decide ==
    /\ stage = "decide"
    /\ \E m \in Markets :
         LET news == Sentiment(m, view.regime)
             derivatives == Derivatives(m, view, view.regime)
             strategy == IF view.pick = "none" THEN Selected(view, m, news, derivatives)
                         ELSE Playbook(view.regime)[view.pick]
             risk == CombinedRisk(OrElse(view.risk, 5000), news.risk, derivatives.risk)
         IN  candidate' = Candidate(view, m, strategy, view.signal, view.signal.leverage,
                                    derivatives, risk, news.noTrade)
    /\ stage' = IF candidate'.action = "HOLD" THEN "done" ELSE "review"
    /\ view'  = [regime |-> view.regime]
    /\ Keep(<<review, verdict, account, halted, final>>)

\* The reviewer answers, or is not asked: ai_review_required is FALSE in a shadow
\* configuration that samples without it.
Review ==
    /\ stage = "review"
    /\ \E required \in BOOLEAN :
         \E answer \in IF required THEN Replies(candidate, view.regime) ELSE {NotAsked} :
            /\ review' = answer
            /\ stage' = IF answer.action = "REJECT" THEN "done" ELSE "validate"
    /\ Keep(<<view, candidate, verdict, account, halted, final>>)

\* validate_candidate, which halts the user's trading with three of its refusals.
Validate ==
    /\ stage = "validate"
    /\ \E a \in Accounts :
         /\ account' = a
         /\ verdict' = Verdict(candidate, a, view.regime)
         /\ halted'  = \/ verdict' \in {"ORDER_001", "WEEKLY_LOSS"}
                       \/ verdict' = "CONSEC_LOSS" /\ a.streak >= 5
    /\ stage' = IF verdict' = "approved" THEN "assemble" ELSE "done"
    /\ Keep(<<view, candidate, review, final>>)

\* decide_final_action.
Assemble ==
    /\ stage = "assemble"
    /\ final' = IF \/ review.contradiction \/ review.confidence < 70
                   \/ 1000 * candidate.netProfit <= candidate.notional
                THEN "HOLD" ELSE candidate.action
    /\ stage' = "done"
    /\ Keep(<<view, candidate, review, verdict, account, halted>>)

Next == Score \/ Decide \/ Review \/ Validate \/ Assemble
Spec == Init /\ [][Next]_vars

(********************************** properties **********************************)

\* No score ever adds up to a trade without a regime to trade in, nor to one against
\* the trend: six pieces of evidence, the derivatives' bonus and the regime's own
\* weights stay below MIN_LONG_SCORE there, though neither the generator nor the risk
\* engine looks for UNKNOWN (strategy_selector.py:156 gives it an empty playbook).
TradesFollowTheRegime ==
    candidate.action # "HOLD" =>
        \/ view.regime = "RANGE"
        \/ view.regime = Favours(candidate.action, "TREND_UP", "TREND_DOWN")

\* Whatever levels, signals and costs went into it, an approved trade loses at its
\* stop no more than the user risks per trade and has left for the day, and reaches
\* that stop before the exchange liquidates it.
LossIsBounded ==
    verdict = "approved" =>
        LET c == candidate   a == account
            atStop == (c.notional * (-Distance(c.action, c.stop))) \div Entry
        IN  /\ atStop > 0 /\ 100 * atStop <= Total * a.riskPct
            /\ atStop + a.daily <= a.dailyLimit
            /\ Distance(c.action, c.liquidation) < Distance(c.action, c.stop)
================================================================================
