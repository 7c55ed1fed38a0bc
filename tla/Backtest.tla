-------------------------------- MODULE Backtest -------------------------------
(* BacktestEngine with its TradeExecutor: signals replayed against the bars of    *)
(* one symbol, a bar at a time. What a bar does to the book is one step, as the   *)
(* loop's body is; the run ends by closing what is left at the last bar's close.  *)
(*                                                                                *)
(* Bars and levels are whole prices, and a fill is a hundredth of one, slippage   *)
(* being in per cent. Quantities count lots. Money is a hundredth of a lot times  *)
(* a fill, so that fees and funding in per cent are exact. The slippage model is  *)
(* the fixed one; ratios over time (CAGR, Sharpe, Sortino) are left out.          *)
EXTENDS Integers, FiniteSets, Functions

CONSTANTS
    ReplayBars,        \* [open, low, high, close, funding]: funding in per cent, 0 at most bars
    ReplaySignals,     \* [dir, tp, sl, lev]: tp 0 is none
    Capital, Risk,     \* initial_capital; the risk of a trade, in prices times lots
    FeePct, SlipPct,
    MaxOpen,           \* max_open_positions
    MaxBars            \* bound: bars of a run

ASSUME CostsAssumption ==
    /\ {Capital, Risk, FeePct, MaxOpen, MaxBars} \subseteq Nat /\ SlipPct \in 0 .. 99
    /\ \A b \in ReplayBars :
          {b.open, b.low, b.high, b.close} \subseteq Nat \ {0} /\ b.funding \in Int
    /\ \A s \in ReplaySignals : {s.tp, s.sl} \subseteq Nat /\ s.lev \in Nat \ {0}

VARIABLES
    bar,      \* bars replayed
    cash,
    open,     \* the trades that are open, by the bar they were entered at
    waiting,  \* the signal to enter at the next bar
    last,     \* the last bar
    report,   \* what MetricsCalculator sums over the closed trades
    over,     \* the run has ended
    upfront   \* ghost: entry fees and funding taken from cash before a close

replayVars == <<bar, cash, open, waiting, last, report, over, upfront>>

NoSignal == [dir |-> "NONE", tp |-> 0, sl |-> 0, lev |-> 1]
NoBar    == [open |-> 0, low |-> 0, high |-> 0, close |-> 0, funding |-> 0]
Empty    == [trades |-> 0, winners |-> 0, won |-> 0, lost |-> 0, fees |-> 0,
             slippage |-> 0, funding |-> 0]

ReplayInit ==
    /\ bar = 0 /\ cash = Capital /\ open = <<>> /\ waiting = NoSignal /\ last = NoBar
    /\ report = Empty /\ over = FALSE /\ upfront = 0

Abs(x) == IF x < 0 THEN -x ELSE x
Total(amount(_), trades) == SumFunction([n \in DOMAIN trades |-> amount(trades[n])])

(*********************************** costs **************************************)

\* Bought dearer, sold cheaper.
Bought(price) == price * (100 + SlipPct)
Sold(price)   == price * (100 - SlipPct)
Way(dir)      == IF dir = "LONG" THEN 1 ELSE -1
EntryFill(dir, price) == IF dir = "LONG" THEN Bought(price) ELSE Sold(price)
ExitFill(dir, price)  == IF dir = "LONG" THEN Sold(price) ELSE Bought(price)

Slippage(qty, price)  == qty * price * SlipPct * 100
FeeOn(qty, fill)      == qty * fill * FeePct
\* Paid by a long while the rate is positive, received by a short.
Funding(t, fill, rate) == Way(t.dir) * t.qty * fill * rate

(********************************* TradeExecutor ********************************)

\* The risk over the distance to the stop, in whole lots; one at least.
Quantity(fill, sl) ==
    LET gap  == Abs(fill - 100 * sl)
        lots == IF gap = 0 THEN (Risk * 100 * 1000) \div fill ELSE (Risk * 100) \div gap
    IN  IF lots = 0 THEN 1 ELSE lots

\* enter: at the open of the bar after the signal's.
EnteredAt(sig, b) ==
    LET fill == EntryFill(sig.dir, b.open)
        qty  == Quantity(fill, sig.sl)
    IN  [dir |-> sig.dir, tp |-> sig.tp, sl |-> sig.sl, fill |-> fill, qty |-> qty,
         margin |-> (qty * fill * 100) \div sig.lev, entryFee |-> FeeOn(qty, fill),
         slippage |-> Slippage(qty, b.open), funding |-> 0]

Charged(t, b) == Funding(t, b.close * 100, b.funding)
Accrued(t, b) == [t EXCEPT !.funding = @ + Charged(t, b)]

StopHit(t, b)   == IF t.dir = "LONG" THEN b.low <= t.sl ELSE b.high >= t.sl
TargetHit(t, b) == t.tp # 0 /\ IF t.dir = "LONG" THEN b.high >= t.tp ELSE b.low <= t.tp
LeavesAt(t, b)  == StopHit(t, b) \/ TargetHit(t, b)

\* _find_exit: of the two, the nearer to the open, and the target when as near.
ExitLevel(t, b) ==
    IF StopHit(t, b) /\ (TargetHit(t, b) => Abs(b.open - t.sl) < Abs(b.open - t.tp))
    THEN t.sl ELSE t.tp

\* _close_trade. Both fills are already slipped, and slippage is a cost again.
ClosedAt(t, b, level) ==
    LET fill    == ExitFill(t.dir, level)
        funding == t.funding + Funding(t, fill, b.funding)
        slip    == t.slippage + Slippage(t.qty, level)
        fees    == t.entryFee + FeeOn(t.qty, fill)
        gross   == Way(t.dir) * (fill - t.fill) * t.qty * 100
    IN  [dir |-> t.dir, qty |-> t.qty, fill |-> t.fill, level |-> level, sl |-> t.sl,
         margin |-> t.margin, fees |-> fees, slippage |-> slip, funding |-> Abs(funding),
         net |-> gross - (fees + Abs(funding) + slip)]

(***************************** MetricsCalculator ********************************)

Counted(r, trades) ==
    [trades   |-> r.trades + Total(LAMBDA t : 1, trades),
     winners  |-> r.winners + Total(LAMBDA t : IF t.net > 0 THEN 1 ELSE 0, trades),
     won      |-> r.won + Total(LAMBDA t : IF t.net > 0 THEN t.net ELSE 0, trades),
     lost     |-> r.lost + Total(LAMBDA t : IF t.net < 0 THEN -t.net ELSE 0, trades),
     fees     |-> r.fees + Total(LAMBDA t : t.fees, trades),
     slippage |-> r.slippage + Total(LAMBDA t : t.slippage, trades),
     funding  |-> r.funding + Total(LAMBDA t : t.funding, trades)]

\* Variant: the result is booked, the margin stays away.
NetOnly(trades) == Total(LAMBDA t : t.net, trades)

\* What closing brings back: the margin, and the net result.
PaidBack(trades) == Total(LAMBDA t : t.margin + t.net, trades)

(************************************* the run **********************************)

\* The signal of the bar before is entered, if there is room for it.
Takes == waiting # NoSignal /\ Cardinality(DOMAIN open) < MaxOpen
HeldAt(b) == [n \in DOMAIN open \cup (IF Takes THEN {bar} ELSE {}) |->
               IF n = bar THEN EnteredAt(waiting, b) ELSE open[n]]

\* One bar: the pending entry, funding, exits, the bar's first signal.
Replay(b, sig) ==
    LET held  == HeldAt(b)
        due   == Total(LAMBDA t : Charged(t, b), held)
        out   == {n \in DOMAIN held : LeavesAt(held[n], b)}
        done  == [n \in out |-> ClosedAt(Accrued(held[n], b), b, ExitLevel(held[n], b))]
        entry == EnteredAt(waiting, b)
        cost  == IF Takes THEN entry.entryFee ELSE 0
    IN  /\ ~over /\ bar < MaxBars
        /\ bar' = bar + 1 /\ last' = b
        /\ cash' = cash - (IF Takes THEN entry.margin ELSE 0) - cost - due + PaidBack(done)
        /\ open' = [n \in DOMAIN held \ out |-> Accrued(held[n], b)]
        /\ report' = Counted(report, done)
        /\ waiting' = IF Cardinality(DOMAIN held \ out) < MaxOpen THEN sig ELSE NoSignal
        /\ upfront' = upfront + cost + due
        /\ UNCHANGED over

\* What is left is closed at the last close; a pending signal is dropped.
CloseLeft ==
    LET done == [n \in DOMAIN open |-> ClosedAt(open[n], last, last.close)]
    IN  /\ ~over /\ bar > 0
        /\ over' = TRUE /\ open' = <<>>
        /\ cash' = cash + PaidBack(done)
        /\ report' = Counted(report, done)
        /\ UNCHANGED <<bar, waiting, last, upfront>>

ReplayNext ==
    (\E b \in ReplayBars, sig \in ReplaySignals \cup {NoSignal} : Replay(b, sig)) \/ CloseLeft
ReplaySpec == ReplayInit /\ [][ReplayNext]_replayVars

(********************************** properties **********************************)

\* The equity a run ends with and the trades it reports agree: what was won less what
\* was lost, less the entry fees and the funding taken from the cash on the way.
ReportAddsUp ==
    cash + Total(LAMBDA t : t.margin, open) = Capital + report.won - report.lost - upfront
================================================================================
