--------------------------------- MODULE Sizing --------------------------------
(* The sizing API: PositionSizingEngine's four methods and the comparison of them, *)
(* with the Kelly fraction of the user's record. Shares of the balance are in      *)
(* hundredths of a percent (50 is 0.5%), risk amounts in ten-thousandths of a      *)
(* dollar and quantities in lots of a thousandth of a coin. An account has one     *)
(* balance, cached: what is available and the total are the same.                  *)
EXTENDS Integers

CONSTANTS
    Requests,   \* prices and leverage asked for, and the settings of the methods
    Balances,   \* cached balances of the accounts, in dollars
    Records     \* trades, wins, average win and average loss of the users

ASSUME BalanceAssumption == Balances \subseteq Nat
ASSUME RequestAssumption ==
    Requests \subseteq [dir : {"LONG", "SHORT"}, entry : Nat, stop : Nat, target : Nat,
                        lev : Nat, pct : Nat, usdt : Nat, kelly : Nat]
ASSUME RecordAssumption == Records \subseteq [trades : Nat, wins : Nat, win : Nat, loss : Nat]

VARIABLES asked, sizes   \* the last request, and a result for every method it asked for

sizeVars == <<asked, sizes>>

Methods == {"fixed_risk", "fixed_dollar", "percent_risk", "kelly"}
NoResult == [error |-> TRUE]
SizeInit == asked = <<>> /\ sizes = [m \in Methods |-> NoResult]

AtMost(n, most) == IF n > most THEN most ELSE n
Within(low, n, high) == IF n < low THEN low ELSE AtMost(n, high)
Gap(a, b) == IF a > b THEN a - b ELSE b - a

RiskMin == 50
RiskMax == 500
KellyFallback == 100
MinTrades == 20

(*************************** the Kelly fraction, in eighths **********************)

Recommended(trades) == CASE trades < 20 -> 0 [] trades < 50 -> 1 [] trades < 100 -> 2 [] OTHER -> 4

\* calculate_kelly: the share that the record's edge, wins times the average win less
\* losses times the average loss, gives; trades that broke even count as losses.
Edge(rec) == rec.wins * rec.win - (rec.trades - rec.wins) * rec.loss
KellyValid(rec) ==
    /\ rec.trades >= MinTrades /\ 100 * rec.wins >= rec.trades
    /\ rec.loss > 0 /\ 100 * rec.win >= rec.loss /\ Edge(rec) > 0
KellyShare(rec, eighths) ==
    IF KellyValid(rec)
    THEN Within(RiskMin, (1250 * eighths * Edge(rec)) \div (rec.trades * rec.win), RiskMax)
    ELSE KellyFallback

(******************************** the four methods ******************************)

Larger(a, b) == IF a > b THEN a ELSE b
FixedRisk(rq, total) == total * Within(RiskMin, rq.pct, RiskMax)
\* Variant: the amount asked for is taken as it is.
FixedDollarUncapped(rq, total) == IF rq.usdt <= 0 THEN 100 * total ELSE 10000 * rq.usdt
FixedDollar(rq, total) ==
    AtMost(IF rq.usdt <= 0 THEN 100 * total ELSE 10000 * rq.usdt, total * RiskMax)
KellyRisk(rq, total, rec) ==
    total * KellyShare(rec, Larger(Recommended(rec.trades), rq.kelly))

Amount(method, rq, balance, rec) ==
    CASE method \in {"fixed_risk", "percent_risk"} -> FixedRisk(rq, balance)
      [] method = "fixed_dollar" -> FixedDollar(rq, balance)
      [] OTHER -> KellyRisk(rq, balance, rec)

\* validate_rr_ratio: a target at least twice as far as the stop, each on its own side.
Worth(rq) ==
    LET side == IF rq.dir = "LONG" THEN 1 ELSE -1
        gain == side * (rq.target - rq.entry)  loss == side * (rq.entry - rq.stop)
    IN  rq.target > 0 /\ loss > 0 /\ gain >= 2 * loss

\* _build_sizing_result; a stop at the entry price, or none, is an error.
Sized(method, rq, balance, rec) ==
    LET risk == Amount(method, rq, balance, rec)
        gap == Gap(rq.entry, rq.stop)
        lots == risk \div (10 * gap)
    IN  IF rq.stop <= 0 \/ gap = 0 THEN NoResult
        ELSE [risk |-> risk, lots |-> lots,
              profit |-> IF Worth(rq) THEN 10 * lots * Gap(rq.target, rq.entry) ELSE 0,
              warnings |-> (IF rq.lev > 10 THEN {"leverage"} ELSE {})
                  \cup (IF 11 * lots * rq.entry > 10000 * balance * rq.lev THEN {"balance"} ELSE {})]

(*********************************** requests ************************************)

Answers(rq, balance, rec, methods) ==
    /\ asked' = <<rq, balance>>
    /\ sizes' = [m \in Methods |-> IF m \in methods THEN Sized(m, rq, balance, rec) ELSE NoResult]

\* SizingService.calculate: no answer without a balance, or for an order without a stop.
Calculate(rq, balance, rec) ==
    /\ balance > 0 /\ rq.stop > 0 /\ rq.stop # rq.entry
    /\ \E method \in Methods : Answers(rq, balance, rec, {method})

\* SizingService.compare_all: ten thousand dollars stand for no balance, a method's error
\* is its result, and the fixed amount is the fixed share of the balance.
Compare(rq, cached, rec) ==
    LET balance == IF cached = 0 THEN 10000 ELSE cached
    IN  Answers([rq EXCEPT !.usdt = (balance * rq.pct) \div 10000], balance, rec, Methods)

\* Nothing is kept between requests: one is enough.
SizeNext == /\ asked = <<>>
            /\ \E rq \in Requests, balance \in Balances, rec \in Records :
                  Calculate(rq, balance, rec) \/ Compare(rq, balance, rec)

SizeSpec == SizeInit /\ [][SizeNext]_sizeVars

\* Whatever method sizes the position and whatever is asked of it, what the quantity loses
\* at the stop is at most the amount shown, and that at most a twentieth of the balance;
\* a profit is shown only when it is at least twice that loss.
SizedLossIsBounded ==
    \A m \in Methods : sizes[m] # NoResult =>
        LET rq == asked[1]
            loss == 10 * sizes[m].lots * Gap(rq.entry, rq.stop)
        IN  /\ loss <= sizes[m].risk /\ sizes[m].risk <= 500 * asked[2]
            /\ sizes[m].profit = 0 \/ sizes[m].profit >= 2 * loss
================================================================================
