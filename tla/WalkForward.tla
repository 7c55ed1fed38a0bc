------------------------------ MODULE WalkForward ------------------------------
(* WalkForwardEngine: rolling windows over a history, in each of which the        *)
(* parameters that did best in the sample are tried on the days that follow it.   *)
(* A day has one bar or, where the history has a hole, none. The strategy is the  *)
(* caller's: any signals of the window. Which parameters score best, and what     *)
(* Sharpe ratios a window ends with, is left open; everything that decides which  *)
(* trades are simulated, when they end and what they add to the equity is kept.   *)
(* Fills are hundredths of a price, and quantities thousandths.                   *)
EXTENDS Integers, Sequences, FiniteSets, FiniteSetsExt, SequencesExt

CONSTANTS
    Path,        \* the bar of every day, from 0: [open, low, high, close]
    MaxHoles,    \* bound: days of the history without a bar
    Plans,       \* [dir, entry, tp, sl, lev, confident]: signals but for their day
    MaxSignals,  \* bound: signals of a window
    Params,      \* parameter combinations, counted in the order of the grid
    IsDays, OosDays, StepDays, MinTrades,
    WfCapital, RiskPct, CommissionPct, SlippagePct, MaxLev

ASSUME WindowsAssumption ==
    /\ {IsDays, OosDays, StepDays, Params} \subseteq Nat \ {0}
    /\ IsFiniteSet(DOMAIN Path) /\ DOMAIN Path \subseteq Nat
    /\ MaxHoles \in Nat /\ MaxHoles < Cardinality(DOMAIN Path)

VARIABLES
    stage,     \* "idle", "windows", "done", or "error" when there was no window
    history,   \* the days that have a bar
    cursor,
    results,   \* WindowResult of every window
    combined   \* the last point of combined_oos_equity

wvars == <<stage, history, cursor, results, combined>>

WfInit == stage = "idle" /\ history = {} /\ cursor = 0 /\ results = <<>> /\ combined = WfCapital

(********************************** simulator ***********************************)

Dir(s) == IF s.dir = "LONG" THEN 1 ELSE -1

\* _validate_signal: confidence, and twice the risk as reward.
Valid(s) == LET loss == Dir(s) * (s.entry - s.sl)
            IN  s.confident /\ loss > 0 /\ Dir(s) * (s.tp - s.entry) >= 2 * loss

\* _calc_position. What it calls the margin is a quantity: risk over distance.
Sized(s, balance) ==
    LET gap == IF s.entry > s.sl THEN s.entry - s.sl ELSE s.sl - s.entry
        lev == IF s.lev < MaxLev THEN s.lev ELSE MaxLev
    IN  (balance * RiskPct * lev * 10) \div (gap * s.entry)

\* The bar after the signal's, if the window has one.
EntryDays(window, s) == {d \in window : d > s.day}

EndsAt(window, s, entered) ==
    {d \in window : d > entered
        /\ \/ IF s.dir = "LONG" THEN Path[d].low <= s.sl ELSE Path[d].high >= s.sl
           \/ IF s.dir = "LONG" THEN Path[d].high >= s.tp ELSE Path[d].low <= s.tp}

\* The stop before the target, and the window's last close when neither is reached.
ExitPrice(window, s, entered) ==
    LET days == EndsAt(window, s, entered)
        stop(d) == IF s.dir = "LONG" THEN Path[d].low <= s.sl ELSE Path[d].high >= s.sl
    IN  IF days = {} THEN Path[Max(window)].close
        ELSE IF stop(Min(days)) THEN s.sl ELSE s.tp

\* _simulate_trade. The day of entry ends no trade.
Pnl(window, s, qty) ==
    LET entered == Min(EntryDays(window, s))
        fill == Path[entered].open * (100 + Dir(s) * SlippagePct)
        exit == 100 * ExitPrice(window, s, entered)
    IN  (Dir(s) * (exit - fill) * qty) \div 100000
            - ((fill + exit) * qty * CommissionPct) \div 10000000

\* TradeSimulator.run: each signal alone, sized by the balance the ones before it left.
Simulated(window, signals) ==
    FoldLeft(LAMBDA equity, s :
                IF ~Valid(s) \/ EntryDays(window, s) = {} \/ Sized(s, Last(equity)) = 0
                THEN equity
                ELSE Append(equity, Last(equity) + Pnl(window, s, Sized(s, Last(equity)))),
             <<WfCapital>>, signals)

(*********************************** windows ************************************)

InSample(at)    == {d \in history : at <= d /\ d < at + IsDays}
\* Variant: both ends of the window belong to it.
OutOfSampleClosed(at) ==
    {d \in history : at + IsDays <= d /\ d <= at + IsDays + OosDays}
OutOfSample(at) == {d \in history : at + IsDays <= d /\ d < at + IsDays + OosDays}

SignalsIn(window) ==
    BoundedSeq({[day |-> d] @@ p : d \in window, p \in Plans}, MaxSignals)

\* What some signals of the window come to, and their numbers of trades.
Equities(window) == {Simulated(window, s) : s \in SignalsIn(window)}
Trades(equity) == Len(equity) - 1
TradesIn(window) == {Trades(equity) : equity \in Equities(window)}

\* _optimize_is: the best of the combinations that traded enough; the first one, with
\* no trades, when none has.
Optimized(traded) ==
    LET enough == {p \in 1 .. Params : traded[p] >= MinTrades}
    IN  IF enough = {} THEN {[params |-> 1, trades |-> 0]}
        ELSE {[params |-> p, trades |-> traded[p]] : p \in enough}

\* validate_window; the ratio of the Sharpes is any.
MayBeValid(inTrades, outTrades) == outTrades >= MinTrades /\ inTrades >= MinTrades

(************************************ the run ***********************************)

Load ==
    /\ stage = "idle"
    /\ history' \in {DOMAIN Path \ holes : holes \in kSubset(MaxHoles, DOMAIN Path) \cup {{}}}
    /\ cursor' = Min(history') /\ stage' = "windows"
    /\ UNCHANGED <<results, combined>>

MoreWindows == cursor + IsDays + OosDays <= Max(history)

\* What a window adds: each point of its equity, less the capital it started from.
Added(equity) == FoldSeq(LAMBDA e, sum : sum + e - WfCapital, 0, Tail(equity))

Window ==
    /\ stage = "windows" /\ MoreWindows
    /\ cursor' = cursor + StepDays
    /\ IF InSample(cursor) = {} \/ OutOfSample(cursor) = {}
       THEN UNCHANGED <<results, combined>>
       ELSE \E best \in UNION {Optimized(traded) :
                               traded \in [1 .. Params -> TradesIn(InSample(cursor))]},
               equity \in Equities(OutOfSample(cursor)), valid \in BOOLEAN :
                 /\ valid => MayBeValid(best.trades, Trades(equity))
                 /\ results' = Append(results,
                         [in |-> InSample(cursor), out |-> OutOfSample(cursor),
                          params |-> best.params, valid |-> valid,
                          pnl |-> Last(equity) - WfCapital])
                 /\ combined' = combined + Added(equity)
    /\ UNCHANGED <<stage, history>>

Conclude ==
    /\ stage = "windows" /\ ~MoreWindows
    /\ stage' = IF results = <<>> THEN "error" ELSE "done"
    /\ UNCHANGED <<history, cursor, results, combined>>

WalkNext == Load \/ Window \/ Conclude
WalkSpec == WfInit /\ [][WalkNext]_wvars

(********************************** properties **********************************)

\* No result rests on days its parameters were fitted to, and no day is counted twice
\* in what the results add up to, where windows move on by at least their length:
\* holes in the history and the day two windows meet at included.
WindowsDoNotLeak ==
    StepDays >= OosDays =>
        \A i, j \in DOMAIN results :
            /\ Max(results[i].in) < Min(results[i].out)
            /\ i < j => results[i].out \cap results[j].out = {}
================================================================================
