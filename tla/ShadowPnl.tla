------------------------------- MODULE ShadowPnl -------------------------------
(* What a closed shadow trade is said to have earned: profit at the quoted prices, *)
(* less fees on the prices a market order would have filled at, the distance of     *)
(* those fills from the quotes, and funding for every payment the trade was open     *)
(* at. Time is in half hours of UTC, rates in units of 1/10000, money in units of    *)
(* 1/10^8 of the price's; both legs have quantity one and nothing is rounded.         *)
EXTENDS Integers, FiniteSets, FiniteSetsExt

CONSTANTS Quotes,                  \* prices trades are opened and closed at
          Times,                   \* half hours they are opened and closed at
          TakerFee, SlippageBps, FundingRate,
          FundingHours             \* funding_interval_hours

ASSUME PnlAssumption == /\ Quotes \subseteq Nat /\ Times \subseteq Nat /\ FundingRate \in Int
                        /\ TakerFee \in 0 .. 1000 /\ SlippageBps \in 0 .. 1000
                        /\ FundingHours \in Nat \ {0} /\ 24 % FundingHours = 0

VARIABLE booked                    \* the trade last closed and its figures

One == 10000
Facing(dir) == IF dir = "LONG" THEN 1 ELSE -1

GrossPnl(t) == Facing(t.dir) * (t.exit - t.entry) * One * One

\* A buy fills above its quote, a sale below: in 1/10000 of the price.
FillPrice(dir, price, isEntry) ==
    price * (IF (dir = "LONG") = isEntry THEN One + SlippageBps ELSE One - SlippageBps)
FillFee(fill) == fill * TakerFee
FillSlippage(price) == price * SlippageBps * One

Interval == 2 * FundingHours
WholeHour(x) == x - (x % 2)
\* Variant: a payment at the very moment of opening counts.
FundingEventsFromOpening(opened, closed) ==
    LET first == Min({x \in WholeHour(opened) .. opened + 48 : x >= opened /\ x % Interval = 0})
    IN  IF closed <= opened THEN 0
        ELSE Cardinality({x \in first .. closed : (x - first) % Interval = 0})

\* funding_event_count: from the hour of opening on, to the first payment after it and
\* from there in steps of the interval.
FundingEvents(opened, closed) ==
    LET first == Min({x \in WholeHour(opened) .. opened + 48 : x > opened /\ x % Interval = 0})
    IN  IF closed <= opened THEN 0
        ELSE Cardinality({x \in first .. closed : (x - first) % Interval = 0})

FundingFee(t) == Facing(t.dir) * (t.entry + t.exit) * (One \div 2) * FundingRate
                  * FundingEvents(t.opened, t.closed)
Fees(t) == FillFee(FillPrice(t.dir, t.entry, TRUE)) + FillFee(FillPrice(t.dir, t.exit, FALSE))
SlippageCost(t) == FillSlippage(t.entry) + FillSlippage(t.exit)

\* calculate_shadow_pnl.
Figures(t) == [gross |-> GrossPnl(t), fees |-> Fees(t), funding |-> FundingFee(t),
               slippage |-> SlippageCost(t),
               net |-> GrossPnl(t) - Fees(t) - FundingFee(t) - SlippageCost(t)]

Closings == [dir : {"LONG", "SHORT"}, entry : Quotes, exit : Quotes,
           opened : Times, closed : Times]

PnlInit == booked = <<>>
\* The monitor books a trade that reached a level, expired or was closed at the end
\* of a test (one trade after another: none depends on the last).
Book(t) == booked' = [trade |-> t, figures |-> Figures(t)]
PnlNext == booked = <<>> /\ \E t \in Closings : t.opened <= t.closed /\ Book(t)
PnlSpec == PnlInit /\ [][PnlNext]_booked

(********************************* properties ***********************************)

\* What the same two market orders move on an account: the cash of the purchase and
\* the sale at their fills, a fee on each, and at every payment after the opening, the
\* one at the close included, the rate on the mean of the two quotes.
Cash(t) ==
    LET bought == IF t.dir = "LONG" THEN t.entry ELSE t.exit
        sold   == IF t.dir = "LONG" THEN t.exit ELSE t.entry
        fees == (bought * (One + SlippageBps) + sold * (One - SlippageBps)) * TakerFee
        payments == {x \in t.opened .. t.closed : x # t.opened /\ x % Interval = 0}
    IN  (sold * (One - SlippageBps) - bought * (One + SlippageBps)) * One - fees
            - Cardinality(payments) * Facing(t.dir) * (bought + sold) * (One \div 2) * FundingRate

\* The net result booked is what the account would hold: no cost is left out, charged
\* twice or given the wrong sign, whichever side the trade was on and however it fell
\* on the funding times.
NetIsCashMoved == booked # <<>> => booked.figures.net = Cash(booked.trade)
================================================================================
