----------------------------- MODULE MCSurroundings ----------------------------
(* What surrounds the trading core. Candles come in (collector, consumer, technical *)
(* analysis), and the past is worked out again (backtest, walk-forward, shadow      *)
(* report, a shadow trade's result). The parts share no variable, so one of them    *)
(* runs while the others stay at their start.                                       *)
(* Chart: five or six candles, rising, falling, quiet, without volume.              *)
(* Replays: prices between 8 and 16, bars that stay between the levels, reach one   *)
(* or both of them, or open beyond one; stops at 10 and 14, one signal with nothing *)
(* to aim at. Slippage is large enough to fill an entry at the stop.                *)
(* Windows: ten days with a price that rises, falls and recovers, a signal either   *)
(* way and one whose reward is too small; two windows of two days and three.        *)
(* Report: won, lost and open trades with a confidence in every bucket, a loss of   *)
(* which only the status is known, refusals, an exported row, an unreadable line.   *)
EXTENDS CandleFeed, CandleStream, Indicators, Backtest, WalkForward, ShadowReport, ShadowPnl

C(h, l, c, v) == [high |-> h, low |-> l, close |-> c, volume |-> v]
MCBars == {C(1, -1, 0, 1), C(30, 0, 20, 3), C(4, -6, -3, 0), C(-5, -30, -20, 1)}
MCAverages == <<1, 2, 4, 8>>

B(o, l, h, c, f) == [open |-> o, low |-> l, high |-> h, close |-> c, funding |-> f]
MCReplayBars == {B(12, 11, 13, 12, 0), B(12, 11, 13, 13, 1), B(12, 9, 15, 14, 0),
           B(11, 8, 12, 9, -1), B(8, 8, 11, 11, 0), B(16, 12, 16, 12, 1)}
MCReplaySignals == {[dir |-> "LONG", tp |-> 14, sl |-> 10, lev |-> 5],
              [dir |-> "SHORT", tp |-> 10, sl |-> 14, lev |-> 2],
              [dir |-> "LONG", tp |-> 0, sl |-> 10, lev |-> 1]}

D(o, l, h, c) == [open |-> o, low |-> l, high |-> h, close |-> c]
MCPath == [d \in 0 .. 9 |->
    CASE d % 5 = 0 -> D(100, 98, 104, 102) [] d % 5 = 1 -> D(102, 100, 114, 110)
      [] d % 5 = 2 -> D(110, 100, 112, 104) [] d % 5 = 3 -> D(104, 92, 106, 94)
      [] OTHER -> D(94, 88, 101, 100)]
P(dir, tp, sl) == [dir |-> dir, entry |-> 100, tp |-> tp, sl |-> sl, lev |-> 10,
                   confident |-> TRUE]
MCPlans == {P("LONG", 110, 95), P("SHORT", 90, 105), P("LONG", 104, 95)}

Row(final, pnl, strategy, conf, rr, spread) ==
    [form |-> "log", final |-> final, candidate |-> final, refused |-> FALSE, stage |-> "none",
     executed |-> TRUE, trade |-> FALSE, status |-> "", net |-> pnl, gross |-> pnl,
     gain |-> 10, loss |-> 12, costs |-> 1, strategy |-> strategy, regime |-> "TRENDING",
     confidence |-> conf, rr |-> rr, spread |-> spread, funding |-> -1, chart |-> 82,
     review |-> "APPROVE"]
RefusedRow(where, review) ==
    [Row("HOLD", <<>>, "UNKNOWN", 7000, 0, 0) EXCEPT !.candidate = "LONG", !.refused = TRUE,
        !.executed = FALSE, !.stage = where, !.review = review, !.chart = 49, !.funding = 0]
MCLines == {
    Row("LONG", <<10>>, "SCALPING", 85, 18, 1), Row("SHORT", <<-6>>, "SCALPING", 65, 20, 5),
    Row("SHORT", <<-4>>, "BREAKOUT", 100, 30, 11), Row("LONG", <<7>>, "BREAKOUT", 9000, 15, 6),
    Row("LONG", <<>>, "INTRADAY", 59, 14, 2),
    [Row("LONG", <<>>, "INTRADAY", 0, 14, 10) EXCEPT !.status = "SL_HIT"],
    RefusedRow("ai_review", "REJECT"), RefusedRow("risk", "APPROVE"),
    [Row("LONG", <<>>, "SCALPING", 80, 25, 0) EXCEPT !.form = "export", !.trade = TRUE,
        !.regime = "UNKNOWN"],
    Unreadable}

\* Around three funding payments, at the hours and between them.
MCTimes == {0, 1, 15, 16, 17, 18, 31, 32, 33, 48, 49}

\* Which of the parts have not begun.
ReplayRests   == bar = 0
WindowsRest   == stage = "idle"
ReportRests   == recorded = <<>> /\ summary = <<>>
BookRests     == booked = <<>>
MarketRests   == FeedInit /\ StreamInit /\ ChartInit
ResearchRests == ReplayRests /\ WindowsRest /\ ReportRests /\ BookRests

MarketVars   == <<feedVars, streamVars, ivars>>
ResearchVars == <<replayVars, wvars, reportVars, booked>>
all == <<MarketVars, ResearchVars>>

StreamTurn ==
    FeedInit /\ ChartInit /\ ResearchRests /\ UNCHANGED <<feedVars, ivars, ResearchVars>>
MarketNext ==
    \/ StreamNext /\ StreamTurn
    \/ /\ ResearchRests /\ UNCHANGED ResearchVars
       /\ \/ StreamInit /\ ChartInit /\ FeedNext /\ UNCHANGED <<streamVars, ivars>>
          \/ FeedInit /\ StreamInit /\ ChartNext /\ UNCHANGED <<feedVars, streamVars>>
ResearchNext ==
    /\ MarketRests /\ UNCHANGED MarketVars
    /\ \/ WindowsRest /\ ReportRests /\ BookRests
          /\ ReplayNext /\ UNCHANGED <<wvars, reportVars, booked>>
       \/ ReplayRests /\ ReportRests /\ BookRests
          /\ WalkNext /\ UNCHANGED <<replayVars, reportVars, booked>>
       \/ ReplayRests /\ WindowsRest /\ BookRests
          /\ ReportNext /\ UNCHANGED <<replayVars, wvars, booked>>
       \/ ReplayRests /\ WindowsRest /\ ReportRests
          /\ PnlNext /\ UNCHANGED <<replayVars, wvars, reportVars>>

SurroundingsInit == MarketRests /\ ReplayInit /\ WfInit /\ ReportInit /\ PnlInit
SurroundingsSpec ==
    /\ SurroundingsInit
    /\ [][MarketNext \/ ResearchNext]_all
    /\ WF_all(Consume /\ StreamTurn)
================================================================================
