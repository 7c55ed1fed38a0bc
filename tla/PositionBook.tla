------------------------------ MODULE PositionBook -----------------------------
(* PositionManagerEngine and PortfolioEngine: the positions of one account, from  *)
(* opening through additions (DCA), moved levels, partial closes and ticks to the *)
(* close, and the portfolio's limits a new one must fit. Every operation is the   *)
(* caller's to make at any time; the code checks no more than its guards. A price *)
(* unit is the cent entry prices are rounded to, a quantity unit is one lot, and  *)
(* fees are 1/2500 of the value. Stops, and risks with them, are kept in 1/1250 of  *)
(* a unit, so that break-even is one.                                             *)
EXTENDS Integers, FiniteSets, FiniteSetsExt

CONSTANTS
    Ids,        \* positions that may be opened, by number
    Signals,    \* approved signals: direction, entry, target, stop, leverage, budget at risk
    Ticks,      \* prices the market may show
    Additions,  \* budgets at risk check_dca is asked about
    Quantities,       \* quantities validations of additions may carry, sized by their own stops
    Atr,        \* average true range handed to check_dca
    Contexts,   \* account contexts: available balance, initial balance, limit in percent
    Stats,      \* account statistics: daily and weekly loss and limit, cooldown
    Levels,     \* prices a target or a stop may be moved to
    MaxOps      \* bound: operations on the positions after they are opened

ASSUME BookAssumption ==
    /\ IsFiniteSet(Ids) /\ {Atr, MaxOps} \subseteq Nat
    /\ Ticks \subseteq Nat /\ Additions \subseteq Nat /\ Levels \subseteq Nat
    /\ Quantities \subseteq Nat \ {0}
ASSUME SignalsAssumption ==
    \A sg \in Signals : /\ sg.dir \in {"LONG", "SHORT"}
                        /\ {sg.entry, sg.target, sg.stop, sg.lev, sg.risk} \subseteq Nat
                        /\ sg.entry # sg.stop
ASSUME ContextsAssumption ==
    \A account \in Contexts : account.available \in Int /\ account.limit \in Int

VARIABLES
    book,      \* PositionState of every position
    care,      \* what its last tick said of the distance to liquidation
    context,   \* the account context portfolio checks were last asked with
    ops,       \* operations made
    agreed,    \* ghost: the last addition check_dca agreed to, and what the position risked then
    ledger,    \* ghost: money paid and received for each position, and what rounding moved
    late       \* ghost: positions that were added to after their close

bvars == <<book, care, context, ops, agreed, ledger, late>>

Unopened == [status |-> "none"]
NoPromise == [risk |-> 0]
IsOpen(p) == p.status \in {"open", "partially_closed"}
Side(dir) == IF dir = "LONG" THEN 1 ELSE -1
AtLeast(n, least) == IF n < least THEN least ELSE n
Abs(n) == AtLeast(n, -n)

\* n / d to the nearest whole, halves to the even one, as quantize rounds.
Nearest(n, d) == LET low == n \div d  rest == 2 * (n % d)
                 IN  IF rest > d \/ (rest = d /\ low % 2 = 1) THEN low + 1 ELSE low

BookInit ==
    /\ book = [i \in Ids |-> Unopened] /\ care = [i \in Ids |-> "none"]
    /\ context \in Contexts /\ ops = 0 /\ agreed = NoPromise
    /\ ledger = [i \in Ids |-> [cash |-> 0, fees |-> 0, slack |-> 0]] /\ late = {}

(********************************* the portfolio ********************************)

Beyond(p, q) == Side(p.dir) * (1250 * q - p.stop)     \* how far price q is from the stop
Risk(p) == AtLeast(Beyond(p, p.entry) * p.qty, 0)
\* Variant: a position closed in part is forgotten.
HeldWhole == {i \in Ids : book[i].status = "open"}
Held == {i \in Ids : IsOpen(book[i])}
SumOfRisks(ids) == SumFunctionOnSet([i \in ids |-> Risk(book[i])], ids)
TotalRisk == SumOfRisks(Held)
Limit(account) == 1250 * account.available * account.limit \* in hundredths

Emergency(account) == 10 * account.available < account.initial

CanAdd(risk, account) ==
    ~Emergency(account) /\ 100 * (TotalRisk + 1250 * risk) <= Limit(account)

(********************************* one position *********************************)

Keeps(i, p) == book' = [book EXCEPT ![i] = p]
Counts == ops < MaxOps /\ ops' = ops + 1

\* open_position, once the portfolio lets the signal in.
Open(i, sg) ==
    LET qty == sg.risk \div Abs(sg.entry - sg.stop)
    IN  /\ book[i] = Unopened /\ qty > 0
        /\ \E account \in Contexts : CanAdd(sg.risk, account) /\ context' = account
        /\ Keeps(i, [status |-> "open", dir |-> sg.dir, entry |-> sg.entry, target |-> sg.target,
                     stop |-> 1250 * sg.stop, price |-> sg.entry, qty |-> qty, lev |-> sg.lev,
                     notional0 |-> qty * sg.entry, risk0 |-> sg.risk, dcas |-> 0, realized |-> 0])
        /\ ledger' = [ledger EXCEPT ![i].cash = -(Side(sg.dir) * qty * sg.entry)]
        /\ UNCHANGED <<care, ops, agreed, late>>

\* What leaves at price q earns against the entry price, less the exit fee.
Net(p, q, n) == 2500 * Side(p.dir) * (q - p.entry) * n - q * n
Receives(i, q, n) ==
    ledger' = [ledger EXCEPT ![i].cash = @ + Side(book[i].dir) * q * n, ![i].fees = @ + q * n]

Closed(p, q) == [p EXCEPT !.status = "closed", !.price = q, !.realized = @ + Net(p, q, p.qty)]

Close(i, q) ==
    /\ IsOpen(book[i]) /\ Keeps(i, Closed(book[i], q)) /\ Receives(i, q, book[i].qty)
    /\ Counts /\ UNCHANGED <<care, context, agreed, late>>

PartQuantity(p, pct) == (p.qty * pct) \div 100
PartClosed(p, q, n) ==
    [p EXCEPT !.status = "partially_closed", !.price = q, !.qty = @ - n, !.realized = @ + Net(p, q, n)]

PartialClose(i, q, pct) ==
    LET n == PartQuantity(book[i], pct)
    IN  /\ IsOpen(book[i]) /\ n > 0
        /\ Keeps(i, PartClosed(book[i], q, n)) /\ Receives(i, q, n)
        /\ Counts /\ UNCHANGED <<care, context, agreed, late>>

\* check_tp_sl: the target is looked at first.
Hit(p, q) == IF Side(p.dir) * (q - p.target) >= 0 THEN "tp_hit"
             ELSE IF Beyond(p, q) <= 0 THEN "sl_hit" ELSE "none"

\* check_liquidation_distance; the liquidation price follows the average entry.
LiquidationMargin(p, q) ==   \* distance to liquidation, times 1000 * lev
    1000 * p.lev * Side(p.dir) * q - p.entry * (Side(p.dir) * 1000 * p.lev - 1000 + 4 * p.lev)
Danger(p, q) ==
    LET within(pct) == 100 * LiquidationMargin(p, q) <= pct * 1000 * p.lev * q
    IN  IF within(2) THEN "full_close" ELSE IF within(3) THEN "partial_close"
        ELSE IF within(10) THEN "warning" ELSE "none"

Tick(i, q) ==
    LET p == [book[i] EXCEPT !.price = q]
    IN  /\ IsOpen(book[i])
        /\ IF Hit(p, q) # "none"
           THEN Keeps(i, Closed(p, q)) /\ Receives(i, q, p.qty) /\ care' = [care EXCEPT ![i] = "none"]
           ELSE Keeps(i, p) /\ care' = [care EXCEPT ![i] = Danger(p, q)] /\ UNCHANGED ledger
        /\ Counts /\ UNCHANGED <<context, agreed, late>>

\* update_stop_loss and update_take_profit look at the last price, update_tp_and_sl at nothing.
MoveLevels(i, p) ==
    /\ IsOpen(book[i]) /\ p # book[i] /\ Keeps(i, p)
    /\ Counts /\ UNCHANGED <<care, context, agreed, ledger, late>>
UpdateStop(i, q) ==
    IsOpen(book[i]) /\ Side(book[i].dir) * (book[i].price - q) > 0
        /\ MoveLevels(i, [book[i] EXCEPT !.stop = 1250 * q])
UpdateTarget(i, q) ==
    IsOpen(book[i]) /\ Side(book[i].dir) * (q - book[i].price) > 0
        /\ MoveLevels(i, [book[i] EXCEPT !.target = q])
UpdateBoth(i, target, stop) ==
    IsOpen(book[i]) /\ MoveLevels(i, [book[i] EXCEPT !.target = target, !.stop = 1250 * stop])

(*********************************** additions **********************************)

\* _estimate_position_risk; negative once the stop is past the entry price.
EstimatedRisk(p) == Beyond(p, p.entry) * p.qty
Unrealized(p) == Side(p.dir) * (p.price - p.entry) * p.qty
Drawdown(p, pct) == Unrealized(p) < 0 /\ 100 * p.lev * Abs(Unrealized(p)) >= pct * p.notional0

\* Variant: the addition's risk is compared alone.
EligibleAlone(p, q, risk, st) ==
    /\ p.dcas < 2 /\ Abs(q - p.entry) >= Atr /\ risk <= 2 * p.risk0
    /\ ~st.cooldown /\ ~Drawdown(p, 5)
Eligible(p, q, risk, st) ==
    /\ p.dcas < 2 /\ Abs(q - p.entry) >= Atr
    /\ EstimatedRisk(p) + 1250 * risk <= 1250 * 2 * p.risk0
    /\ st.dailyLimit > 0 => 2 * st.daily < st.dailyLimit
    /\ ~st.cooldown
    /\ st.weeklyLimit > 0 => 4 * st.weekly < 3 * st.weeklyLimit
    /\ ~Drawdown(p, 5)

\* Variant: the two prices weigh the same.
AverageEntryUnweighted(p, q, n) == Nearest(p.entry + q, 2)
AverageEntry(p, q, n) == Nearest(p.qty * p.entry + n * q, p.qty + n)
Added(p, q, n) == [p EXCEPT !.entry = AverageEntry(p, q, n), !.qty = @ + n, !.dcas = @ + 1]

\* check_dca changes nothing; the caller asks it before dca, and may do anything between.
CheckDca(i, q, risk, st) ==
    /\ book[i] # Unopened /\ ops < MaxOps
    /\ agreed' = IF Eligible(book[i], q, risk, st)
                 THEN [of |-> i, risk |-> risk, had |-> EstimatedRisk(book[i])] ELSE NoPromise
    /\ UNCHANGED <<book, care, context, ops, ledger, late>>

\* dca: whatever quantity the validation carries is added, whether check_dca was asked, what
\* it was asked about and where the position's stop is; even to a closed position.
Dca(i, q, n) ==
    LET p == book[i]
    IN  /\ p # Unopened
        /\ Keeps(i, Added(p, q, n))
        /\ ledger' = [ledger EXCEPT ![i].cash = @ - Side(p.dir) * q * n, ![i].slack = @ + p.qty + n]
        /\ late' = late \cup {j \in {i} : ~IsOpen(p)}
        /\ Counts /\ UNCHANGED <<care, context, agreed>>

\* move_sl_to_breakeven: the entry price and the fees of both ways; only forward, and
\* only once the price is past it.
Breakeven(p) == 1250 * p.entry + Side(p.dir) * p.entry
ToBreakeven(i, q) ==
    LET p == book[i]  b == Breakeven(p)  s == Side(p.dir)
    IN  /\ IsOpen(p) /\ s * (1250 * q - b) > 0 /\ s * (b - p.stop) > 0
        /\ MoveLevels(i, [p EXCEPT !.stop = b, !.price = q])

BookNext ==
    \E i \in Ids :
        \/ \E sg \in Signals : Open(i, sg)
        \/ \E q \in Ticks :
              \/ Close(i, q) \/ Tick(i, q) \/ ToBreakeven(i, q)
              \/ \E pct \in {25, 50} : PartialClose(i, q, pct)
              \/ \E risk \in Additions, st \in Stats : CheckDca(i, q, risk, st)
              \/ \E n \in Quantities : Dca(i, q, n)
        \/ \E q \in Levels :
              \/ UpdateStop(i, q) \/ UpdateTarget(i, q)
              \/ \E stop \in Levels : UpdateBoth(i, q, stop)

BookSpec == BookInit /\ [][BookNext]_bvars

(********************************** properties **********************************)

\* What check_dca promises of an addition, and what it leaves to the caller: if the units
\* that were added lose no more at the position's stop than the check was asked about (the
\* validation sizes them by another stop), and the position itself risks no more than it
\* did then, then however it was closed in part, moved or added to before, what it may lose
\* is within twice the risk it was opened with, but for half a unit a lot of rounding.
LossAdded(i) ==      \* what was paid for, less what it brings at the stop
    1250 * (ledger[i].cash - ledger[i].cash')
        - Side(book[i].dir) * book[i].stop * (book[i].qty' - book[i].qty)
AsAgreed(i) ==
    /\ agreed # NoPromise /\ agreed.of = i
    /\ EstimatedRisk(book[i]) <= agreed.had /\ LossAdded(i) <= 1250 * agreed.risk
AddingKeepsRisk ==
    [][\A i \in Ids :
        LET p == book[i]'
        IN  IsOpen(book[i]) /\ p.dcas > book[i].dcas /\ AsAgreed(i)
                => 2 * Risk(p) <= 1250 * (4 * p.risk0 + p.qty)]_bvars

\* The profit a position reports is the money it made: what was received for what was
\* closed, less what was paid for it at each entry, through any order of additions and
\* partial closes; only rounding the average entry may come between. (What is added to a
\* closed position, which dca does not refuse, no operation ever sells.)
CostBasisHolds ==
    \A i \in Ids : i \notin late /\ book[i] # Unopened =>
        LET p == book[i]
            live == IF IsOpen(p) THEN p.qty ELSE 0
            made == 2500 * (ledger[i].cash + Side(p.dir) * live * p.entry) - ledger[i].fees
        IN  2 * Abs(made - p.realized) <= 2500 * ledger[i].slack

\* When a position is opened the whole account, with everything that was added, closed in
\* part or moved since the others were opened, is at most the portfolio's limit at risk.
AtRisk == SumOfRisks({i \in Ids : book[i].status \notin {"none", "closed"}})
NewPositionFits ==
    [][\A i \in Ids : book[i] = Unopened /\ book[i]' # Unopened
            => 100 * AtRisk' <= Limit(context')]_bvars
================================================================================
