----------------------------- MODULE PaperAccount ------------------------------
(* The paper trading engine: PaperTradingEngine with its PaperRiskEngine, its     *)
(* PositionManager and the account they keep in memory. A signal is checked, may  *)
(* close the opposite position first and be checked again, may add to the         *)
(* position it agrees with, or opens one; prices close at the stop or the target. *)
(*                                                                                *)
(* Prices are whole; a quantity counts lots, and money thousandths of lot times   *)
(* price, so that a fee per mille is exact. A position keeps its cost, quantity   *)
(* times entry_price, for the average entry it stands for. Records' rounding to   *)
(* cents is left out.                                                             *)
EXTENDS Integers, Sequences, FiniteSets, FiniteSetsExt, SequencesExt

CONSTANTS
    Signals,       \* [coin, dir, entry, sl, tp, lev, confident]; sl 0: none
    Prices,        \* the prices a coin's ticks, closes and partial closes come with
    Ratios,        \* partial closes, in per cent
    InitialBalance, RiskPct, DailyPct, WeeklyPct, PortfolioPct,
    MaxPositions,  \* least of the user's and the plan's limit
    FeePerMille, MinNotional, Hours,
    Cooldown, Day, Week,   \* in units of the clock
    MaxTrades, MaxTime     \* bounds: trades recorded and entries open, time

ASSUME SignalsAssumption ==
    /\ IsFiniteSet(Signals)
    /\ \A s \in Signals : /\ s.dir \in {"LONG", "SHORT", "HOLD"}
                           /\ {s.entry, s.sl, s.tp} \subseteq Nat /\ s.lev \in Nat \ {0}
ASSUME PricesAssumption ==
    Ratios \subseteq 1 .. 99 /\ \A s \in Signals : Prices[s.coin] \subseteq Nat
ASSUME MoneyAssumption ==
    {InitialBalance, RiskPct, DailyPct, WeeklyPct, PortfolioPct, FeePerMille} \subseteq Nat
ASSUME ClockAssumption == /\ {Cooldown, Day, Week} \subseteq Nat \ {0}
                          /\ Week % Day = 0 /\ Hours \subseteq 0 .. Day - 1

VARIABLES account, now
vars == <<account, now>>

Unit  == 1000
Coins == {s.coin : s \in Signals}
MaxDca == 2
StreakCooldown == 3
StreakHalt == 5

\* dca is dca_count; risk is max_loss_usdt.
None == [dir |-> "NONE", qty |-> 0, cost |-> 0, sl |-> 0, tp |-> 0, lev |-> 1,
         margin |-> 0, risk |-> 0, dca |-> 0]

(***************************** PaperAccountState ********************************)

Held(a)   == {c \in Coins : a.position[c].qty > 0}
Locked(a) == SumFunction([c \in Coins |-> a.position[c].margin])
AtRisk(a) == SumFunction([c \in Coins |-> a.position[c].risk])
Available(a) == IF Locked(a) > a.balance THEN 0 ELSE a.balance - Locked(a)

LossSince(a, start) ==
    SumFunction([i \in DOMAIN a.history |->
        LET t == a.history[i] IN IF t.net < 0 /\ t.at >= start THEN -t.net ELSE 0])
DailyLoss(a)  == LossSince(a, now - (now % Day))
WeeklyLoss(a) == LossSince(a, now - (now % Week))

Streak(a) == LET wins == {i \in DOMAIN a.history : a.history[i].net >= 0}
             IN  Len(a.history) - Max(wins \cup {0})

InCooldown(a) == now < a.cooldown

(******************************* the risk engine ********************************)

Gap(x, y)   == IF x > y THEN x - y ELSE y - x
Signed(dir) == IF dir = "LONG" THEN 1 ELSE -1

\* validate_rr_ratio: both on the right side of the entry, and two for one.
RewardEnough(s) ==
    LET loss   == Signed(s.dir) * (s.entry - s.sl)
        profit == Signed(s.dir) * (s.tp - s.entry)
    IN  loss > 0 /\ profit > 0 /\ profit >= 2 * loss

\* calculate_position_size, from what is available and not locked.
Size(a, s) == LET risk == (Available(a) * RiskPct) \div 100
                  dist == Gap(s.entry, s.sl)
                  qty  == risk \div (dist * Unit)
              IN  [qty |-> qty, margin |-> (qty * s.entry * Unit) \div s.lev,
                   risk |-> qty * dist * Unit]

SizeFits(a, s) == LET z == Size(a, s)
                  IN  /\ z.qty >= 1
                      /\ z.qty * s.entry >= MinNotional
                      /\ 5 * z.margin <= Available(a)
                      /\ 11 * z.margin <= 10 * Available(a)

\* What a signal does to the coin's position (check_same_coin_position).
PreAction(a, s) == LET p == a.position[s.coin]
                   IN  IF p.qty = 0 THEN "open"
                       ELSE IF p.dir = s.dir THEN "dca" ELSE "close_existing"

DailySpent(a) == LET limit == (a.balance * DailyPct) \div 100
                     next  == (a.balance * RiskPct) \div 100
                 IN  \/ limit > 0 /\ DailyLoss(a) >= limit
                     \/ DailyLoss(a) + next > limit
WeeklySpent(a) == LET limit == (a.balance * WeeklyPct) \div 100
                  IN  limit > 0 /\ WeeklyLoss(a) >= limit

\* The checks of validate in their order, each with what it is called when it fails.
Checks(a, s) ==
    << <<"KILL_SWITCH",       a.halted>>,
       <<"HOLD",              s.dir = "HOLD">>,
       <<"ORDER_003",         s.sl <= 0>>,
       <<"ORDER_004",         ~RewardEnough(s)>>,
       <<"LOW_CONFIDENCE",    ~s.confident>>,
       <<"TIME_RESTRICTION",  now % Day \notin Hours>>,
       <<"ORDER_001",         DailySpent(a)>>,
       <<"WEEKLY_LOSS",       WeeklySpent(a)>>,
       <<"COOLDOWN",          InCooldown(a)>>,
       <<"STREAK_HALT",       Streak(a) >= StreakHalt>>,
       <<"STREAK_COOLDOWN",   Streak(a) >= StreakCooldown>>,
       <<"ORDER_002",         Cardinality(Held(a)) >= MaxPositions /\ s.coin \notin Held(a)>>,
       <<"POSITION_CONFLICT", PreAction(a, s) = "dca" /\ a.position[s.coin].dca >= MaxDca>>,
       <<"SIZING",            ~SizeFits(a, s)>>,
       <<"PORTFOLIO_RISK",    100 * ((AtRisk(a) + Size(a, s).risk) \div Unit)
                                  > PortfolioPct * (a.balance \div Unit)>> >>

\* The first check that fails is the only one reached.
Refusal(a, s) == LET checks  == Checks(a, s)
                     failing == SelectInSeq(checks, LAMBDA check : check[2])
                 IN  IF failing = 0 THEN "OK" ELSE checks[failing][1]

\* What validate leaves in the account when it refuses.
Declined(a, s) ==
    LET code == Refusal(a, s) IN
    [a EXCEPT !.halted   = @ \/ code \in {"ORDER_001", "WEEKLY_LOSS", "STREAK_HALT"},
              !.cooldown = IF code = "STREAK_COOLDOWN" THEN now + Cooldown ELSE @]

(***************************** the position manager *****************************)

Fee(cost) == cost * FeePerMille

Trade(gross, cost, proceeds) ==
    [net |-> gross - Fee(proceeds), fee |-> Fee(cost) + Fee(proceeds), gross |-> gross,
     at |-> now]

\* close_position
Closed(a, coin, price) ==
    LET p == a.position[coin]
        t == Trade(Signed(p.dir) * (p.qty * price - p.cost) * Unit, p.cost, p.qty * price)
    IN  [a EXCEPT !.balance = @ + t.net, !.history = Append(@, t), !.position[coin] = None]

\* quantize(quantity.normalize()): the last digit the quantity has that is not zero.
Grains == {1, 10, 100, 1000, 10000, 100000, 1000000}
Grain(qty) == Max({g \in Grains : qty % g = 0})
PartOf(qty, ratio) == LET g == Grain(qty) IN ((qty * ratio) \div (100 * g)) * g

\* partial_close: the quantity is rounded down, the margin is not.
Reduced(a, coin, price, ratio) ==
    LET p    == a.position[coin]
        part == PartOf(p.qty, ratio)
        cost == (p.cost * part) \div p.qty
        t    == Trade(Signed(p.dir) * (part * price - cost) * Unit, cost, part * price)
    IN  [a EXCEPT !.balance = @ + t.net, !.history = Append(@, t),
                  !.position[coin] = [p EXCEPT !.qty = @ - part, !.cost = @ - cost,
                                               !.margin = @ - (@ * ratio) \div 100]]

\* open_position
Opened(a, s) ==
    LET z == Size(a, s) IN
    [a EXCEPT !.balance = @ - Fee(z.qty * s.entry),
              !.position[s.coin] = [dir |-> s.dir, qty |-> z.qty, cost |-> z.qty * s.entry,
                                    sl |-> s.sl, tp |-> s.tp, lev |-> s.lev,
                                    margin |-> z.margin, risk |-> z.risk, dca |-> 0]]

\* Variant: what is added to a position pays no entry fee.
AddedFree(a, s) ==
    LET z == Size(a, s) IN
    [a EXCEPT !.position[s.coin] = [@ EXCEPT !.qty = @ + z.qty, !.cost = @ + z.qty * s.entry,
                                             !.margin = @ + z.margin, !.risk = @ + z.risk,
                                             !.dca = @ + 1]]

\* apply_dca: the stop and the target stay those of the position.
Added(a, s) ==
    LET z == Size(a, s)  p == a.position[s.coin] IN
    [a EXCEPT !.balance = @ - Fee(z.qty * s.entry),
              !.position[s.coin] = [p EXCEPT !.qty = @ + z.qty, !.cost = @ + z.qty * s.entry,
                                             !.margin = @ + z.margin, !.risk = @ + z.risk,
                                             !.dca = @ + 1]]

(******************************** the operations ********************************)

Taken(a, s) == IF PreAction(a, s) = "dca" THEN Added(a, s) ELSE Opened(a, s)

\* Variant: a reversal opens on the strength of the first check.
ReversedOnce(a, s) == Opened(Closed(a, s.coin, s.entry), s)

\* The opposite position is closed at the signal's entry, and the signal is checked
\* again in the account that leaves.
Reversed(a, s) == LET flat == Closed(a, s.coin, s.entry)
                  IN  IF Refusal(flat, s) = "OK" THEN Opened(flat, s) ELSE Declined(flat, s)

\* The bound: trades recorded and entries still open.
Room == Len(account.history)
            + MapThenSumSet(LAMBDA c : 1 + account.position[c].dca, Held(account)) < MaxTrades

\* submit_signal
Submit(s) ==
    /\ Room
    /\ account' = IF Refusal(account, s) # "OK" THEN Declined(account, s)
                  ELSE IF PreAction(account, s) = "close_existing" THEN Reversed(account, s)
                  ELSE Taken(account, s)
    /\ UNCHANGED now

\* tick: update_price tells the target from the stop.
Hit(p, price) == \/ Signed(p.dir) * (price - p.tp) >= 0
                 \/ Signed(p.dir) * (p.sl - price) >= 0

Tick(coin, price) ==
    /\ coin \in Held(account) /\ Hit(account.position[coin], price)
    /\ account' = Closed(account, coin, price)
    /\ UNCHANGED now

\* close_position, by hand.
Close(coin, price) ==
    /\ coin \in Held(account)
    /\ account' = Closed(account, coin, price)
    /\ UNCHANGED now

\* partial_close raises when nothing would be left to close.
PartialClose(coin, price, ratio) ==
    /\ Room
    /\ coin \in Held(account) /\ PartOf(account.position[coin].qty, ratio) > 0
    /\ account' = Reduced(account, coin, price, ratio)
    /\ UNCHANGED now

Halt   == account' = [account EXCEPT !.halted = TRUE] /\ UNCHANGED now
Resume == account' = [account EXCEPT !.halted = FALSE, !.cooldown = 0] /\ UNCHANGED now

Wait == now < MaxTime /\ now' = now + 1 /\ UNCHANGED account

Init == /\ account = [balance |-> InitialBalance, position |-> [c \in Coins |-> None],
                      history |-> <<>>, halted |-> FALSE, cooldown |-> 0]
        /\ now = 0

Next == \/ \E s \in Signals : Submit(s)
        \/ \E c \in Coins : \E p \in Prices[c] : Tick(c, p) \/ Close(c, p)
        \/ \E c \in Coins, r \in Ratios : \E p \in Prices[c] : PartialClose(c, p, r)
        \/ Halt \/ Resume \/ Wait

Spec == Init /\ [][Next]_vars

(********************************* properties ***********************************)

\* Every unit of the balance is explained by the records of the trades and the entry
\* fees of what is open: through additions, partial closes and reversals, the gross
\* results less the fees the records name are what the balance gained.
Results(a)   == SumFunction([i \in DOMAIN a.history |-> a.history[i].gross - a.history[i].fee])
EntryFees(a) == SumFunction([c \in Coins |-> Fee(a.position[c].cost)])
BooksBalance == account.balance = InitialBalance + Results(account) - EntryFees(account)

\* What position p has paid to be entered that q had not.
EntryPaid(p, q) == Fee(p.cost - IF p.dir = q.dir THEN q.cost ELSE 0)
Grows(p, q)   == p.qty > q.qty \/ (p.dir # q.dir /\ p.qty > 0)

\* Whenever a position is opened, reversed or added to, the losses recorded by then,
\* those of a position the same call has just closed included, leave room for one
\* more within the day's limit, of the balance as it was before the entry fee, and
\* fewer than three of them are in a row.
GrowsWithinLimits ==
    [][\A c \in Coins : Grows(account'.position[c], account.position[c]) =>
            LET balance == account'.balance + EntryPaid(account'.position[c], account.position[c])
            IN  /\ Streak(account') < StreakCooldown
                /\ DailyLoss(account') + (balance * RiskPct) \div 100
                      <= (balance * DailyPct) \div 100]_vars
================================================================================
