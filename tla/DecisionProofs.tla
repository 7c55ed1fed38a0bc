----------------------------- MODULE DecisionProofs ----------------------------
(* Proofs about what decides on a position and keeps it: Sizing and SignalCheck, for   *)
(* every balance, price, leverage, setting, record and open position, PositionBook,    *)
(* for any number of positions and any order of operations on them, DecisionChain,     *)
(* for any readings of the market and any account, and Indicators, for any candles.    *)
(* The arithmetic holds for all numbers, of which the runs try a few.                  *)
EXTENDS Sizing, SignalCheck, PositionBook, DecisionChain, Indicators, SumTheorems

--------------------------------------------------------------------------------
(* Arithmetic.                                                                        *)

(* What whole parts of a give back is no more than a.                                 *)
LEMMA WholeParts ==
    ASSUME NEW a \in Nat, NEW b \in Nat \ {0}
    PROVE  a \div b \in Nat /\ b * (a \div b) <= a
BY Z3

(* A product grows with its factor.                                                    *)
LEMMA LessTimes ==
    ASSUME NEW n \in Nat, NEW x \in Nat, NEW y \in Nat, x <= y
    PROVE  n * x \in Nat /\ n * x <= n * y
OBVIOUS

(* Products of natural numbers.                                                        *)
LEMMA Products ==
    ASSUME NEW x \in Nat, NEW y \in Nat
    PROVE  x * y \in Nat /\ (x > 0 /\ y > 0 => x * y > 0)
OBVIOUS

--------------------------------------------------------------------------------
(* Sizing: the amount at risk, and what a position loses and gains.                   *)

Request(rq) ==
    rq \in [dir : {"LONG", "SHORT"}, entry : Nat, stop : Nat, target : Nat,
            lev : Nat, pct : Nat, usdt : Nat, kelly : Nat]
Record(rec) == rec \in [trades : Nat, wins : Nat, win : Nat, loss : Nat]

(* Whatever the record, the Kelly share stays within a twentieth.                     *)
LEMMA ShareBounded ==
    ASSUME NEW rec, Record(rec), NEW eighths \in Nat
    PROVE  KellyShare(rec, eighths) \in 0 .. 500
<1>1. CASE KellyValid(rec)
  <2>1. Edge(rec) \in Int
    BY DEF Edge, Record
  <2>2. Edge(rec) \in Nat /\ rec.trades > 0 /\ rec.win > 0
    BY <1>1, <2>1 DEF KellyValid, MinTrades, Record
  <2>3. rec.trades * rec.win \in Nat \ {0}
    BY <2>2, Products DEF Record
  <2>4. 1250 * eighths * Edge(rec) \in Nat
    BY <2>2, Products
  <2> DEFINE share == (1250 * eighths * Edge(rec)) \div (rec.trades * rec.win)
  <2>5. share \in Nat
    BY <2>3, <2>4, WholeParts
  <2>6. KellyShare(rec, eighths) = Within(RiskMin, share, RiskMax)
    BY <1>1 DEF KellyShare
  <2> HIDE DEF share
  <2> QED
    BY <2>5, <2>6 DEF Within, AtMost, RiskMin, RiskMax
<1>2. CASE ~KellyValid(rec)
  BY <1>2 DEF KellyShare, KellyFallback
<1> QED
  BY <1>1, <1>2

(* Every method risks at most a twentieth of the balance.                             *)
LEMMA AmountBounded ==
    ASSUME NEW method \in Methods, NEW rq, Request(rq),
           NEW balance \in Nat, NEW rec, Record(rec)
    PROVE  Amount(method, rq, balance, rec) \in Nat
           /\ Amount(method, rq, balance, rec) <= 500 * balance
<1>1. CASE method \in {"fixed_risk", "percent_risk"}
  <2>1. Within(RiskMin, rq.pct, RiskMax) \in 0 .. 500
    BY DEF Within, AtMost, RiskMin, RiskMax, Request
  <2>2. Amount(method, rq, balance, rec) = balance * Within(RiskMin, rq.pct, RiskMax)
    BY <1>1 DEF Amount, FixedRisk
  <2> QED
    BY <2>1, <2>2, LessTimes
<1>2. CASE method = "fixed_dollar"
  BY <1>2 DEF Amount, FixedDollar, AtMost, RiskMax, Request
<1>3. CASE method = "kelly"
  <2>1. Larger(Recommended(rec.trades), rq.kelly) \in Nat
    BY DEF Larger, Recommended, Record, Request
  <2> DEFINE share == KellyShare(rec, Larger(Recommended(rec.trades), rq.kelly))
  <2>2. share \in 0 .. 500
    BY <2>1, ShareBounded
  <2>3. Amount(method, rq, balance, rec) = balance * share
    BY <1>3 DEF Amount, KellyRisk
  <2> HIDE DEF share
  <2> QED
    BY <2>2, <2>3, LessTimes
<1> QED
  BY <1>1, <1>2, <1>3 DEF Methods

(* The property of one result.                                                        *)
Bounded(result, rq, balance) ==
    LET loss == 10 * result.lots * Gap(rq.entry, rq.stop)
    IN  /\ loss <= result.risk /\ result.risk <= 500 * balance
        /\ result.profit = 0 \/ result.profit >= 2 * loss

(* A size that passes the checks loses at the stop no more than the amount at risk.    *)
LEMMA SizedBounded ==
    ASSUME NEW method \in Methods, NEW rq, Request(rq),
           NEW balance \in Nat, NEW rec, Record(rec),
           Sized(method, rq, balance, rec) # NoResult
    PROVE  Bounded(Sized(method, rq, balance, rec), rq, balance)
<1> DEFINE risk == Amount(method, rq, balance, rec)
           gap == Gap(rq.entry, rq.stop)
           lots == risk \div (10 * gap)
           far == Gap(rq.target, rq.entry)
           result == Sized(method, rq, balance, rec)
<1>1. risk \in Nat /\ risk <= 500 * balance
  BY AmountBounded
<1>2. gap \in Nat /\ far \in Nat
  BY DEF Gap, Request
<1>3. gap # 0
  BY DEF Sized
<1>4. result.risk = risk /\ result.lots = lots
      /\ result.profit = IF Worth(rq) THEN 10 * lots * far ELSE 0
  BY DEF Sized
<1>5. Worth(rq) => 2 * gap <= far
  BY DEF Worth, Gap, Request
<1> HIDE DEF risk, gap, far, result
<1>6. 10 * gap \in Nat \ {0}
  BY <1>2, <1>3
<1>7. lots \in Nat /\ (10 * gap) * lots <= risk
  BY <1>1, <1>6, WholeParts
<1> HIDE DEF lots
<1>8. 10 * lots * gap = (10 * gap) * lots
  BY <1>2, <1>7
<1>9. Worth(rq) => (10 * lots) * (2 * gap) <= (10 * lots) * far
  BY <1>2, <1>5, <1>7, LessTimes
<1>10. (10 * lots) * (2 * gap) = 2 * (10 * lots * gap)
  BY <1>2, <1>7
<1>11. 10 * lots * gap <= risk
  BY <1>7, <1>8
<1>12. result.profit = 0 \/ result.profit >= 2 * (10 * lots * gap)
  <2>1. CASE Worth(rq)
    <3>1. result.profit = (10 * lots) * far
      BY <1>4, <2>1
    <3>2. (10 * lots) * far \in Nat /\ 10 * lots * gap \in Nat
      BY <1>2, <1>7, Products
    <3> QED
      BY <1>9, <1>10, <2>1, <3>1, <3>2
  <2>2. CASE ~Worth(rq)
    BY <1>4, <2>2
  <2> QED
    BY <2>1, <2>2
<1> QED
  BY <1>1, <1>4, <1>11, <1>12 DEF Bounded, gap, result

(* An answer to any request keeps every result it shows within the bounds.            *)
LEMMA AnswersBounded ==
    ASSUME NEW rq, Request(rq), NEW balance \in Nat, NEW rec, Record(rec),
           NEW methods, Answers(rq, balance, rec, methods)
    PROVE  SizedLossIsBounded'
<1>1. asked'[1] = rq /\ asked'[2] = balance
  BY DEF Answers
<1>2. ASSUME NEW m \in Methods, sizes'[m] # NoResult
      PROVE  Bounded(sizes'[m], rq, balance)
  <2>1. sizes'[m] = Sized(m, rq, balance, rec)
    BY <1>2 DEF Answers
  <2> QED
    BY <1>2, <2>1, SizedBounded
<1> QED
  BY <1>1, <1>2 DEF SizedLossIsBounded, Bounded

(* No method, whatever is asked of it, sizes a position that loses more at its stop   *)
(* than the amount it shows, nor shows more than a twentieth of the balance.          *)
THEOREM SizedWithinLimit == SizeSpec => []SizedLossIsBounded
<1>1. SizeInit => SizedLossIsBounded
  BY DEF SizeInit, SizedLossIsBounded
<1>2. SizedLossIsBounded /\ [SizeNext]_sizeVars => SizedLossIsBounded'
  <2> SUFFICES ASSUME SizedLossIsBounded, [SizeNext]_sizeVars
               PROVE  SizedLossIsBounded'
    OBVIOUS
  <2>1. ASSUME NEW rq \in Requests, NEW balance \in Balances, NEW rec \in Records,
               Calculate(rq, balance, rec)
        PROVE  SizedLossIsBounded'
    <3>1. Request(rq) /\ Record(rec) /\ balance \in Nat
      BY BalanceAssumption, RequestAssumption, RecordAssumption DEF Request, Record
    <3>2. PICK method \in Methods : Answers(rq, balance, rec, {method})
      BY <2>1 DEF Calculate
    <3> QED
      BY <3>1, <3>2, AnswersBounded
  <2>2. ASSUME NEW rq \in Requests, NEW cached \in Balances, NEW rec \in Records,
               Compare(rq, cached, rec)
        PROVE  SizedLossIsBounded'
    <3> DEFINE balance == IF cached = 0 THEN 10000 ELSE cached
               share == (balance * rq.pct) \div 10000
               shared == [rq EXCEPT !.usdt = share]
    <3>1. Request(rq) /\ Record(rec) /\ balance \in Nat
      BY BalanceAssumption, RequestAssumption, RecordAssumption DEF Request, Record
    <3>2. share \in Nat
      <4> HIDE DEF balance
      <4>1. balance * rq.pct \in Nat
        BY <3>1, Products DEF Request
      <4> QED
        BY <4>1, WholeParts
    <3>3. Answers(shared, balance, rec, Methods)
      BY <2>2 DEF Compare
    <3> HIDE DEF share
    <3>4. Request(shared)
      BY <3>1, <3>2 DEF Request
    <3> QED
      BY <3>1, <3>3, <3>4, AnswersBounded
  <2>3. CASE UNCHANGED sizeVars
    BY <2>3 DEF sizeVars, SizedLossIsBounded
  <2> QED
    BY <2>1, <2>2, <2>3 DEF SizeNext
<1> QED
  BY <1>1, <1>2, PTL DEF SizeSpec

--------------------------------------------------------------------------------
(* Signal validation: the checks, and what a signal that passes them fits.            *)

(* What the assumptions say of one user and one signal.                               *)
LEMMA UserTypes ==
    ASSUME NEW t \in Traders
    PROVE  /\ t.risk \in Nat /\ t.lev \in Nat \ {0} /\ t.balance \in Nat
           /\ t.daily \in Nat \ {0} /\ t.lostToday \in Nat
           /\ PlanLeverage[t.plan] \in Nat \ {0} /\ OpenRisk(t) \in Nat
           /\ PortfolioShare(t.profile) \in Nat
BY TraderAssumption, RiskAssumption DEF PlanLeverage, PortfolioShare

(* An order's numbers, and the distance to its stop.                                   *)
LEMMA OrderTypes ==
    ASSUME NEW o \in Orders
    PROVE  o.entry \in Nat /\ o.stop \in Nat /\ o.lev \in Nat \ {0} /\ StopGap(o) \in Nat
BY OrderAssumption DEF StopGap

(* The leverage of an order is one the plan allows.                                   *)
LEMMA LeverageAllowed ==
    ASSUME NEW o \in Orders, NEW t \in Traders
    PROVE  ResolvedLeverage(o, t) \in 1 .. PlanLeverage[t.plan]
<1> DEFINE S == {o.lev, t.lev, PlanLeverage[t.plan]}
<1>1. S \subseteq Nat \ {0} /\ PlanLeverage[t.plan] \in S
  BY UserTypes, OrderTypes
<1> HIDE DEF S
<1>2. Min(S) \in S /\ Min(S) <= PlanLeverage[t.plan]
  BY <1>1, Least
<1>3. ResolvedLeverage(o, t) = Min(S)
  BY DEF ResolvedLeverage, S
<1>4. Min(S) \in Nat \ {0} /\ PlanLeverage[t.plan] \in Nat
  BY <1>1, <1>2
<1> QED
  BY <1>2, <1>3, <1>4

(* A quantity loses at its stop no more than the share the user risks.                *)
LEMMA LotsLoss ==
    ASSUME NEW o \in Orders, NEW t \in Traders
    PROVE  /\ Lots(o, t) \in Nat
           /\ 10 * (Lots(o, t) * StopGap(o)) <= t.balance * t.risk
           /\ Lots(o, t) > 0 => Lots(o, t) * StopGap(o) > 0
<1> DEFINE gap == StopGap(o)
           risk == t.balance * t.risk
           lots == risk \div (10 * gap)
<1>1. gap \in Nat /\ risk \in Nat
  BY OrderTypes, UserTypes, Products
<1>2. CASE gap = 0
  BY <1>1, <1>2 DEF Lots
<1>3. CASE gap # 0
  <2>1. Lots(o, t) = lots
    BY <1>3 DEF Lots
  <2> HIDE DEF gap, risk
  <2>2. 10 * gap \in Nat \ {0}
    BY <1>1, <1>3
  <2>3. lots \in Nat /\ (10 * gap) * lots <= risk
    BY <1>1, <2>2, WholeParts
  <2> HIDE DEF lots
  <2>4. 10 * (lots * gap) = (10 * gap) * lots
    BY <1>1, <2>3
  <2>5. lots > 0 => lots * gap > 0
    BY <1>1, <1>3, <2>3, Products
  <2> QED
    BY <2>1, <2>3, <2>4, <2>5 DEF gap, risk
<1> QED
  BY <1>2, <1>3

(* A signal is approved only when none of the fifteen checks fails.                   *)
LEMMA NoneFailed ==
    ASSUME NEW o, NEW t, Code(Checked(o, t)) = "approved"
    PROVE  \A i \in 1 .. 15 : ~Checked(o, t)[i][2]
<1> DEFINE checks == Checked(o, t)
           failed == {i \in DOMAIN checks : checks[i][2]}
<1>1. DOMAIN checks = 1 .. 15
  BY DEF Checked
<1>2. \A i \in 1 .. 15 : checks[i][1] # "approved"
  BY DEF Checked
<1> HIDE DEF checks
<1>3. CASE failed # {}
  <2>1. Min(failed) \in failed
    <3>1. failed \subseteq Nat
      BY <1>1
    <3> HIDE DEF failed
    <3> QED
      BY <1>3, <3>1, Least
  <2>2. Min(failed) \in 1 .. 15
    BY <1>1, <2>1
  <2>3. Code(checks) = checks[Min(failed)][1]
    BY <1>3 DEF Code
  <2> QED
    BY <1>2, <2>2, <2>3 DEF checks
<1>4. CASE failed = {}
  BY <1>1, <1>4 DEF checks
<1> QED
  BY <1>3, <1>4

(* A signal that no check rejects keeps to every limit on its loss and its margin.    *)
LEMMA ApprovedFits ==
    ASSUME NEW o \in Orders, NEW t \in Traders, Code(Checked(o, t)) = "approved"
    PROVE  LET loss == Lots(o, t) * StopGap(o)
           IN  /\ loss > 0 /\ 10 * loss <= t.balance * t.risk
               /\ t.lostToday + loss <= 1000 * t.daily
               /\ 10 * (OpenRisk(t) + loss) <= t.balance * PortfolioShare(t.profile)
               /\ Lots(o, t) * o.entry * 5 <= 1000 * t.balance * ResolvedLeverage(o, t)
               /\ ResolvedLeverage(o, t) \in 1 .. PlanLeverage[t.plan]
<1> DEFINE lots == Lots(o, t)
           loss == Lots(o, t) * StopGap(o)
           risk == t.balance * t.risk
           room == 1000 * t.balance * ResolvedLeverage(o, t)
<1>1. lots \in Nat /\ 10 * loss <= risk /\ (lots > 0 => loss > 0)
  BY LotsLoss
<1>2. loss \in Nat /\ risk \in Nat
  BY <1>1, UserTypes, OrderTypes, Products
<1>3. /\ Sizeable(lots, o, t) /\ ~OverDaily(t)
      /\ ~(10 * (OpenRisk(t) + loss) > t.balance * PortfolioShare(t.profile))
  <2>1. ~Checked(o, t)[14][2] /\ ~Checked(o, t)[9][2] /\ ~Checked(o, t)[15][2]
    BY NoneFailed
  <2> QED
    BY <2>1 DEF Checked
<1>4. lots >= 1 /\ 5 * lots * o.entry <= room
  BY <1>3 DEF Sizeable
<1>5. 10 * t.lostToday + risk <= 10 * DailyLimit(t)
  BY <1>2, <1>3, UserTypes DEF OverDaily, DailyLimit
<1>6. DailyLimit(t) \in Nat /\ DailyLimit(t) <= 1000 * t.daily
  BY UserTypes DEF DailyLimit
<1>7. t.balance * PortfolioShare(t.profile) \in Nat /\ OpenRisk(t) \in Nat
  BY UserTypes, Products
<1>8. lots * o.entry * 5 = 5 * lots * o.entry
  BY <1>1, OrderTypes
<1>9. ResolvedLeverage(o, t) \in 1 .. PlanLeverage[t.plan]
  BY LeverageAllowed
<1> HIDE DEF lots, loss, risk, room
<1>10. t.lostToday + loss <= 1000 * t.daily
  BY <1>1, <1>2, <1>5, <1>6, UserTypes
<1>11. 10 * (OpenRisk(t) + loss) <= t.balance * PortfolioShare(t.profile)
  BY <1>2, <1>3, <1>7
<1>12. loss > 0
  BY <1>1, <1>4
<1> QED
  BY <1>1, <1>4, <1>8, <1>9, <1>10, <1>11, <1>12 DEF lots, loss, risk, room

CheckInv == trader \in Traders /\ ApprovedSignalFits

(* No approved signal, whatever the settings, the plan, the balance and the positions  *)
(* of the user, loses at its stop more than what is left for it.                       *)
THEOREM ApprovedWithinLimits == CheckSpec => []ApprovedSignalFits
<1>1. CheckInit => CheckInv
  BY DEF CheckInit, CheckInv, ApprovedSignalFits, NoReply
<1>2. CheckInv /\ [CheckNext]_checkVars => CheckInv'
  <2> SUFFICES ASSUME CheckInv, [CheckNext]_checkVars
               PROVE  CheckInv'
    OBVIOUS
  <2>1. ASSUME NEW o \in Orders, Judge(o)
        PROVE  CheckInv'
    <3> DEFINE code == Code(Checked(o, trader))
    <3>1. trader \in Traders /\ trader' = trader
      BY <2>1 DEF Judge, CheckInv
    <3>2. reply' = IF code = "approved"
                   THEN [code |-> code, order |-> o, lots |-> Lots(o, trader),
                         lev |-> ResolvedLeverage(o, trader), first |-> PreAction(o, trader)]
                   ELSE [code |-> code]
      BY <2>1 DEF Judge
    <3>3. CASE code = "approved"
      <4>1. reply'.order = o /\ reply'.lots = Lots(o, trader)
            /\ reply'.lev = ResolvedLeverage(o, trader)
        BY <3>2, <3>3
      <4> QED
        BY <3>1, <3>3, <4>1, ApprovedFits DEF CheckInv, ApprovedSignalFits
    <3>4. CASE code # "approved"
      BY <3>1, <3>2, <3>4 DEF CheckInv, ApprovedSignalFits
    <3> QED
      BY <3>3, <3>4
  <2>2. CASE reply' = NoReply /\ trader' \in Traders
    BY <2>2 DEF CheckInv, ApprovedSignalFits, NoReply
  <2>3. CASE UNCHANGED checkVars
    BY <2>3 DEF checkVars, CheckInv, ApprovedSignalFits
  <2> QED
    BY <2>1, <2>2, <2>3 DEF CheckNext, Changes, CheckInv
<1>3. CheckInv => ApprovedSignalFits
  BY DEF CheckInv
<1> QED
  BY <1>1, <1>2, <1>3, PTL DEF CheckSpec

--------------------------------------------------------------------------------
(* PositionBook: the money a position reports, and what the account risks.            *)

Position == [status : {"open", "partially_closed", "closed"}, dir : {"LONG", "SHORT"},
             entry : Nat, target : Nat, stop : Int, price : Nat, qty : Nat, lev : Nat,
             notional0 : Nat, risk0 : Nat, dcas : Nat, realized : Int]
Ledger == [cash : Int, fees : Int, slack : Nat]
Blank  == [cash |-> 0, fees |-> 0, slack |-> 0]

\* What the profit a position reports is away from the money it made.
Live(p)   == IF IsOpen(p) THEN p.qty ELSE 0
Off(p, l) == 2500 * (l.cash + Side(p.dir) * Live(p) * p.entry) - l.fees - p.realized

Sound(p, l) ==
    /\ p \in Position \cup {Unopened} /\ l \in Ledger
    /\ p = Unopened => l = Blank
    /\ p # Unopened => /\ 2 * Off(p, l) <= 2500 * l.slack
                       /\ -(2 * Off(p, l)) <= 2500 * l.slack

BookInv ==
    /\ book \in [Ids -> Position \cup {Unopened}] /\ ledger \in [Ids -> Ledger]
    /\ \A i \in Ids \ late : Sound(book[i], ledger[i])
    /\ \A i \in Ids \cap late : book[i] \in Position /\ ~IsOpen(book[i])

\* What check_dca agreed to was within twice the risk the position was opened with.
PromiseInv ==
    agreed # NoPromise =>
        /\ agreed.of \in Ids /\ book[agreed.of] # Unopened
        /\ agreed.risk \in Nat /\ agreed.had \in Int
        /\ agreed.had + 1250 * agreed.risk <= 1250 * 2 * book[agreed.of].risk0

Booked(l, cash, fees, slack) ==
    [cash |-> l.cash + cash, fees |-> l.fees + fees, slack |-> l.slack + slack]

(* An open entry of the book is a position, with all its fields.                        *)
LEMMA OpenIsPosition ==
    ASSUME NEW p \in Position \cup {Unopened}, IsOpen(p)
    PROVE  p \in Position
BY DEF IsOpen, Unopened

(* A position has been opened.                                                         *)
LEMMA PositionIsOpened == \A p \in Position : p # Unopened
BY DEF Position, Unopened

(* A direction counts one way or the other.                                             *)
LEMMA SideType == ASSUME NEW p \in Position PROVE Side(p.dir) \in {1, -1} /\ Side(p.dir) \in Int
BY DEF Position, Side

(* The nearest whole number of n / d is within half a unit of it.                       *)
LEMMA NearestIsNear ==
    ASSUME NEW n \in Nat, NEW d \in Nat \ {0}
    PROVE  /\ Nearest(n, d) \in Nat
           /\ 2 * (Nearest(n, d) * d - n) <= d /\ -d <= 2 * (Nearest(n, d) * d - n)
<1> DEFINE low == n \div d
           part == n % d
           a == low * d
           b == (low + 1) * d
<1>1. low \in Nat /\ part \in Nat /\ part < d /\ n = low * d + part
  BY Z3
<1>2. b = a + d /\ n = a + part /\ a \in Nat
  BY <1>1
<1>3. Nearest(n, d) = IF 2 * part > d \/ (2 * part = d /\ low % 2 = 1) THEN low + 1 ELSE low
  BY DEF Nearest
<1> HIDE DEF low, part
<1>4. CASE 2 * part > d \/ (2 * part = d /\ low % 2 = 1)
  <2>1. Nearest(n, d) = low + 1 /\ Nearest(n, d) * d = b
    BY <1>3, <1>4
  <2> HIDE DEF a, b
  <2> QED
    BY <1>1, <1>2, <1>4, <2>1
<1>5. CASE ~(2 * part > d \/ (2 * part = d /\ low % 2 = 1))
  <2>1. Nearest(n, d) = low /\ Nearest(n, d) * d = a
    BY <1>3, <1>5
  <2>2. 2 * part <= d
    BY <1>1, <1>5
  <2> HIDE DEF a, b
  <2> QED
    BY <1>1, <1>2, <2>2, <2>1
<1> QED
  BY <1>4, <1>5

(* Quantity n leaves the position at price q: what it earns is received.               *)
LEMMA LeavingSound ==
    ASSUME NEW p, NEW l, Sound(p, l), IsOpen(p), NEW q \in Nat, NEW n \in Nat, NEW c \in Position,
           c.dir = p.dir, c.entry = p.entry, Live(c) = p.qty - n,
           c.realized = p.realized + Net(p, q, n)
    PROVE  Sound(c, Booked(l, Side(p.dir) * q * n, q * n, 0))
<1> DEFINE m == Booked(l, Side(p.dir) * q * n, q * n, 0)
           s == Side(p.dir)
<1>1. p \in Position /\ l \in Ledger
  BY OpenIsPosition DEF Sound
<1>2. /\ s \in {1, -1} /\ s \in Int /\ p.qty \in Nat /\ p.entry \in Nat /\ p.realized \in Int
      /\ l.cash \in Int /\ l.fees \in Int
  BY <1>1, SideType DEF Position, Ledger
<1>3. m \in Ledger /\ m.cash = l.cash + s * q * n /\ m.fees = l.fees + q * n /\ m.slack = l.slack
  BY <1>1, <1>2 DEF Booked, Ledger
<1>4. Off(c, m) = Off(p, l)
  <2>1. Off(c, m) = 2500 * (l.cash + s * q * n + s * (p.qty - n) * p.entry) - (l.fees + q * n)
                      - (p.realized + (2500 * s * (q - p.entry) * n - q * n))
    <3> HIDE DEF m
    <3> QED
      BY <1>3 DEF Off, Net
  <2>2. Off(p, l) = 2500 * (l.cash + s * p.qty * p.entry) - l.fees - p.realized
    BY DEF Off, Live
  <2> HIDE DEF m
  <2>3. CASE s = 1
    BY <1>2, <2>1, <2>2, <2>3
  <2>4. CASE s = -1
    BY <1>2, <2>1, <2>2, <2>4
  <2> QED
    BY <1>2, <2>3, <2>4
<1>5. p # Unopened /\ c # Unopened
  BY <1>1, PositionIsOpened
<1> HIDE DEF m
<1>6. 2 * Off(p, l) <= 2500 * l.slack /\ -(2 * Off(p, l)) <= 2500 * l.slack
  BY <1>5 DEF Sound
<1>7. Sound(c, m)
  BY <1>3, <1>4, <1>5, <1>6 DEF Sound
<1> QED
  BY <1>7 DEF m

(* A profit is a whole number of fee units.                                             *)
LEMMA NetType ==
    ASSUME NEW p \in Position, NEW q \in Nat, NEW n \in Nat
    PROVE  Net(p, q, n) \in Int
<1>1. Side(p.dir) \in Int /\ p.entry \in Nat
  BY SideType DEF Position
<1> QED
  BY <1>1 DEF Net

(* A closed position reports the money it made.                                         *)
LEMMA ClosedSound ==
    ASSUME NEW p, NEW l, Sound(p, l), IsOpen(p), NEW q \in Nat
    PROVE  /\ Sound(Closed(p, q), Booked(l, Side(p.dir) * q * p.qty, q * p.qty, 0))
           /\ Closed(p, q).dcas = p.dcas /\ Closed(p, q).risk0 = p.risk0
           /\ ~IsOpen(Closed(p, q)) /\ Closed(p, q) \in Position
<1> DEFINE net == Net(p, q, p.qty)
           c == Closed(p, q)
<1>1. p \in Position /\ p.qty \in Nat /\ p.realized \in Int
  BY OpenIsPosition DEF Sound, Position
<1>2. net \in Int /\ p.realized + net \in Int
  BY <1>1, NetType
<1>3. c = [p EXCEPT !.status = "closed", !.price = q, !.realized = p.realized + net]
  BY DEF Closed
<1> HIDE DEF net, c
<1>4. /\ c \in Position /\ c.status = "closed" /\ c.dir = p.dir /\ c.entry = p.entry
      /\ c.realized = p.realized + net /\ c.dcas = p.dcas /\ c.risk0 = p.risk0
  BY <1>1, <1>2, <1>3 DEF Position
<1>5. Live(c) = p.qty - p.qty /\ ~IsOpen(c)
  BY <1>1, <1>4 DEF Live, IsOpen
<1>6. Sound(c, Booked(l, Side(p.dir) * q * p.qty, q * p.qty, 0))
  BY <1>1, <1>4, <1>5, LeavingSound DEF net
<1> QED
  BY <1>4, <1>5, <1>6 DEF c

(* So does one closed in part.                                                         *)
LEMMA PartSound ==
    ASSUME NEW p, NEW l, Sound(p, l), IsOpen(p), NEW q \in Nat, NEW pct \in {25, 50}
    PROVE  LET n == PartQuantity(p, pct)  c == PartClosed(p, q, n)
           IN  /\ Sound(c, Booked(l, Side(p.dir) * q * n, q * n, 0))
               /\ c.dcas = p.dcas /\ c.risk0 = p.risk0 /\ c \in Position
<1> DEFINE n == PartQuantity(p, pct)
           net == Net(p, q, n)
           c == PartClosed(p, q, n)
<1>1. p \in Position /\ p.qty \in Nat /\ p.realized \in Int
  BY OpenIsPosition DEF Sound, Position
<1>2. n \in Nat /\ p.qty - n \in Nat
  BY <1>1 DEF PartQuantity
<1> HIDE DEF n
<1>3. net \in Int /\ p.realized + net \in Int
  BY <1>1, <1>2, NetType
<1>4. c = [p EXCEPT !.status = "partially_closed", !.price = q, !.qty = p.qty - n,
                    !.realized = p.realized + net]
  BY DEF PartClosed
<1> HIDE DEF net, c
<1>5. /\ c \in Position /\ c.status = "partially_closed" /\ c.dir = p.dir /\ c.entry = p.entry
      /\ c.qty = p.qty - n /\ c.realized = p.realized + net /\ c.dcas = p.dcas
      /\ c.risk0 = p.risk0
  BY <1>1, <1>2, <1>3, <1>4 DEF Position
<1>6. Live(c) = p.qty - n
  BY <1>5 DEF Live, IsOpen
<1>7. Sound(c, Booked(l, Side(p.dir) * q * n, q * n, 0))
  BY <1>2, <1>5, <1>6, LeavingSound DEF net
<1> QED
  BY <1>5, <1>7 DEF c, n

(* Neither levels nor prices make money.                                                *)
LEMMA MovedSound ==
    ASSUME NEW p, NEW l, Sound(p, l), IsOpen(p), NEW c \in Position,
           c.dir = p.dir, c.entry = p.entry, Live(c) = Live(p), c.realized = p.realized
    PROVE  Sound(c, l)
<1>1. p # Unopened /\ c # Unopened /\ Off(c, l) = Off(p, l)
  BY PositionIsOpened, OpenIsPosition DEF Sound, Off
<1> QED
  BY <1>1 DEF Sound

(* The average entry of an addition is within half a unit a lot of what was paid.       *)
LEMMA AveragePaid ==
    ASSUME NEW p \in Position, NEW q \in Nat, NEW n \in Nat \ {0}
    PROVE  LET e == AverageEntry(p, q, n)  d == (p.qty + n) * e - p.qty * p.entry - n * q
           IN  e \in Nat /\ 2 * d <= p.qty + n /\ -(p.qty + n) <= 2 * d
<1> DEFINE total == p.qty * p.entry + n * q
           lots == p.qty + n
           e == Nearest(total, lots)
<1>1. p.qty \in Nat /\ p.entry \in Nat
  BY DEF Position
<1>2. total \in Nat /\ lots \in Nat \ {0}
  BY <1>1
<1>3. AverageEntry(p, q, n) = e
  BY DEF AverageEntry
<1> HIDE DEF total, lots
<1>4. e \in Nat /\ 2 * (e * lots - total) <= lots /\ -lots <= 2 * (e * lots - total)
  BY <1>2, NearestIsNear
<1> HIDE DEF e
<1>5. e * lots = lots * e
  BY <1>2, <1>4
<1>6. lots * e - total = (p.qty + n) * e - p.qty * p.entry - n * q
  <2>1. (p.qty + n) * e \in Int /\ p.qty * p.entry \in Int /\ n * q \in Int
    BY <1>1, <1>4
  <2> QED
    BY <2>1 DEF lots, total
<1> QED
  BY <1>3, <1>4, <1>5, <1>6 DEF lots

(* The fields of a position that was added to.                                          *)
LEMMA AddedIs ==
    ASSUME NEW p \in Position, NEW q \in Nat, NEW n \in Nat \ {0}
    PROVE  LET c == Added(p, q, n)
           IN  /\ c \in Position /\ c.status = p.status /\ c.dir = p.dir /\ c.stop = p.stop
               /\ c.entry = AverageEntry(p, q, n) /\ c.qty = p.qty + n
               /\ c.realized = p.realized /\ c.risk0 = p.risk0
<1> DEFINE e == AverageEntry(p, q, n)
           c == Added(p, q, n)
           lots == p.qty + n
           more == p.dcas + 1
<1>1. p.qty \in Nat /\ p.dcas \in Nat
  BY DEF Position
<1>2. lots \in Nat /\ more \in Nat /\ e \in Nat
  <2>1. e \in Nat
    BY AveragePaid
  <2> QED
    BY <1>1, <2>1
<1>3. c = [p EXCEPT !.entry = e, !.qty = lots, !.dcas = more]
  BY DEF Added
<1> HIDE DEF c, e, lots, more
<1>4. /\ c \in Position /\ c.status = p.status /\ c.dir = p.dir /\ c.stop = p.stop
      /\ c.entry = e /\ c.qty = lots /\ c.realized = p.realized /\ c.risk0 = p.risk0
  BY <1>2, <1>3 DEF Position
<1> QED
  BY <1>4 DEF c, e, lots

(* An addition moves what is reported by at most half a unit a lot.                     *)
LEMMA AddedSound ==
    ASSUME NEW p, NEW l, Sound(p, l), IsOpen(p), NEW q \in Nat, NEW n \in Nat \ {0}
    PROVE  /\ Sound(Added(p, q, n), Booked(l, -(Side(p.dir) * q * n), 0, p.qty + n))
           /\ Added(p, q, n) \in Position
<1> DEFINE e == AverageEntry(p, q, n)
           c == Added(p, q, n)
           s == Side(p.dir)
           m == Booked(l, -(s * q * n), 0, p.qty + n)
           d == (p.qty + n) * e - p.qty * p.entry - n * q
<1>1. p \in Position /\ l \in Ledger
  BY OpenIsPosition DEF Sound
<1>2. /\ s \in {1, -1} /\ s \in Int /\ p.qty \in Nat /\ p.entry \in Nat /\ p.realized \in Int
      /\ l.cash \in Int /\ l.fees \in Int /\ l.slack \in Nat /\ p.dcas \in Nat
  BY <1>1, SideType DEF Position, Ledger
<1>3. e \in Nat /\ 2 * d <= p.qty + n /\ -(p.qty + n) <= 2 * d
  BY <1>1, AveragePaid
<1>5. /\ c \in Position /\ c.status = p.status /\ c.dir = p.dir /\ c.entry = e /\ c.qty = p.qty + n
      /\ c.realized = p.realized
  BY <1>1, AddedIs
<1> HIDE DEF c, e
<1>6. /\ m \in Ledger /\ m.cash = l.cash - s * q * n /\ m.fees = l.fees
      /\ m.slack = l.slack + (p.qty + n)
  <2>1. s * q * n \in Int
    BY <1>2
  <2> DEFINE a == s * q * n
  <2>2. a \in Int
    BY <2>1
  <2> HIDE DEF a
  <2>3. m = [cash |-> l.cash + (-a), fees |-> l.fees + 0, slack |-> l.slack + (p.qty + n)]
    BY DEF Booked, a
  <2> HIDE DEF m
  <2>4. m \in Ledger /\ m.cash = l.cash - a /\ m.fees = l.fees /\ m.slack = l.slack + (p.qty + n)
    BY <1>2, <2>2, <2>3 DEF Ledger
  <2> QED
    BY <2>4 DEF a
<1>7. IsOpen(c) /\ Live(c) = p.qty + n /\ Live(p) = p.qty
  BY <1>5 DEF Live, IsOpen
<1> HIDE DEF m
<1>8. Off(c, m) = Off(p, l) + 2500 * (s * d)
  <2>1. Off(c, m) = 2500 * ((l.cash - s * q * n) + s * (p.qty + n) * e) - l.fees - p.realized
    BY <1>5, <1>6, <1>7 DEF Off
  <2>2. Off(p, l) = 2500 * (l.cash + s * p.qty * p.entry) - l.fees - p.realized
    BY <1>7 DEF Off
  <2>3. CASE s = 1
    BY <1>2, <1>3, <2>1, <2>2, <2>3
  <2>4. CASE s = -1
    BY <1>2, <1>3, <2>1, <2>2, <2>4
  <2> QED
    BY <1>2, <2>3, <2>4
<1>9. p # Unopened /\ c # Unopened
  BY <1>1, <1>5, PositionIsOpened
<1>10. /\ 2 * Off(p, l) <= 2500 * l.slack /\ -(2 * Off(p, l)) <= 2500 * l.slack
  BY <1>9 DEF Sound
<1>11. Off(p, l) \in Int /\ d \in Int
  <2>1. s * p.qty * p.entry \in Int
    BY <1>2
  <2> QED
    BY <1>2, <1>3, <1>7, <2>1 DEF Off
<1> HIDE DEF d
<1>12. 2 * Off(c, m) <= 2500 * m.slack /\ -(2 * Off(c, m)) <= 2500 * m.slack
  <2>1. CASE s = 1
    BY <1>2, <1>3, <1>6, <1>8, <1>10, <1>11, <2>1
  <2>2. CASE s = -1
    BY <1>2, <1>3, <1>6, <1>8, <1>10, <1>11, <2>2
  <2> QED
    BY <1>2, <2>1, <2>2
<1>13. Sound(c, m)
  BY <1>5, <1>6, <1>9, <1>12 DEF Sound
<1> QED
  BY <1>5, <1>13 DEF c, m

(********************************* the steps ************************************)

\* Operation on position i leaves it p and its ledger l.
Makes(i, p, l) ==
    book' = [book EXCEPT ![i] = p] /\ ledger' = [ledger EXCEPT ![i] = l]

(* An operation on one position keeps the invariant where its outcome is sound.         *)
LEMMA MakesKeeps ==
    ASSUME BookInv, NEW i \in Ids, i \notin late, NEW p, NEW l, Makes(i, p, l), Sound(p, l),
           late' = late
    PROVE  BookInv'
<1>1. p \in Position \cup {Unopened} /\ l \in Ledger
  BY DEF Sound
<1>2. book' \in [Ids -> Position \cup {Unopened}] /\ ledger' \in [Ids -> Ledger]
  BY <1>1 DEF BookInv, Makes
<1>3. ASSUME NEW j \in Ids \ late PROVE Sound(book'[j], ledger'[j])
  BY DEF BookInv, Makes
<1>4. ASSUME NEW j \in Ids \cap late PROVE book'[j] \in Position /\ ~IsOpen(book'[j])
  BY DEF BookInv, Makes
<1> QED
  BY <1>2, <1>3, <1>4 DEF BookInv, Sound, Off, Live, IsOpen

(* What is open or was not opened yet was not added to after its close.                 *)
LEMMA NotLate ==
    ASSUME BookInv, NEW i \in Ids, IsOpen(book[i]) \/ book[i] = Unopened
    PROVE  i \notin late /\ Sound(book[i], ledger[i])
BY PositionIsOpened DEF BookInv

(* What an exit receives, as an entry of the ledger.                                    *)
LEMMA Received ==
    ASSUME BookInv, NEW i \in Ids, NEW q, NEW n, Receives(i, q, n)
    PROVE  ledger' = [ledger EXCEPT ![i] = Booked(ledger[i], Side(book[i].dir) * q * n, q * n, 0)]
<1>1. /\ ledger \in [Ids -> Ledger] /\ ledger[i] \in Ledger
  BY DEF BookInv
<1> DEFINE l == ledger[i]
           a == Side(book[i].dir) * q * n
           b == q * n
           x == l.cash + a
           y == l.fees + b
<1>2. ledger' = [ledger EXCEPT ![i] = [l EXCEPT !.cash = l.cash + a, !.fees = l.fees + b]]
  BY <1>1 DEF Receives
<1>3. l.slack + 0 = l.slack
  BY <1>1 DEF Ledger
<1>4. Booked(l, a, b, 0) = [cash |-> x, fees |-> y, slack |-> l.slack]
  BY <1>3 DEF Booked
<1> HIDE DEF a, b, x, y
<1>5. [l EXCEPT !.cash = x, !.fees = y] = [cash |-> x, fees |-> y, slack |-> l.slack]
  <2> DEFINE m == [l EXCEPT !.cash = x, !.fees = y]
  <2>1. m.cash = x /\ m.fees = y /\ m.slack = l.slack /\ DOMAIN m = {"cash", "fees", "slack"}
        /\ m = [k \in DOMAIN m |-> m[k]]
    BY <1>1 DEF Ledger
  <2>2. m = [k \in {"cash", "fees", "slack"} |-> m[k]]
    BY <2>1
  <2> HIDE DEF m
  <2>3. m = [cash |-> m.cash, fees |-> m.fees, slack |-> m.slack]
    BY <2>2
  <2> QED
    BY <2>1, <2>3 DEF m
<1> QED
  BY <1>2, <1>4, <1>5 DEF a, b, x, y

(* close_position.                                                                     *)
LEMMA CloseStep ==
    ASSUME BookInv, NEW i \in Ids, NEW q \in Nat, Close(i, q)
    PROVE  BookInv' /\ book' = [book EXCEPT ![i] = Closed(book[i], q)]
<1>1. IsOpen(book[i]) /\ late' = late
  BY DEF Close
<1>2. Makes(i, Closed(book[i], q),
            Booked(ledger[i], Side(book[i].dir) * q * book[i].qty, q * book[i].qty, 0))
  BY Received DEF Close, Keeps, Makes
<1> QED
  BY <1>1, <1>2, NotLate, ClosedSound, MakesKeeps DEF Makes

(* partial_close.                                                                      *)
LEMMA PartialCloseStep ==
    ASSUME BookInv, NEW i \in Ids, NEW q \in Nat, NEW pct \in {25, 50}, PartialClose(i, q, pct)
    PROVE  BookInv'
<1> DEFINE n == PartQuantity(book[i], pct)
           c == PartClosed(book[i], q, n)
           l == Booked(ledger[i], Side(book[i].dir) * q * n, q * n, 0)
<1>1. i \notin late /\ Sound(book[i], ledger[i]) /\ IsOpen(book[i]) /\ late' = late
  BY NotLate DEF PartialClose
<1>2. Makes(i, c, l)
  BY Received DEF PartialClose, Keeps, Makes
<1>3. Sound(c, l)
  BY <1>1, PartSound
<1> QED
  BY <1>1, <1>2, <1>3, MakesKeeps

(* A tick closes the position at a level, or moves its price.                           *)
LEMMA TickStep ==
    ASSUME BookInv, NEW i \in Ids, NEW q \in Nat, Tick(i, q)
    PROVE  /\ BookInv' /\ book'[i].dcas = book[i].dcas /\ book'[i].risk0 = book[i].risk0
           /\ book'[i] # Unopened
<1> DEFINE p == [book[i] EXCEPT !.price = q]
<1>1. /\ Sound(book[i], ledger[i]) /\ IsOpen(book[i]) /\ book[i] \in Position
      /\ i \notin late /\ late' = late
  BY NotLate, OpenIsPosition DEF Tick, Sound
<1>2. /\ p \in Position /\ p.dir = book[i].dir /\ p.entry = book[i].entry /\ p.qty = book[i].qty
      /\ p.status = book[i].status /\ p.realized = book[i].realized /\ p.dcas = book[i].dcas
      /\ p.risk0 = book[i].risk0
  BY <1>1 DEF Position
<1>3. /\ \/ Hit(p, q) # "none" /\ Keeps(i, Closed(p, q)) /\ Receives(i, q, p.qty)
         \/ Keeps(i, p) /\ UNCHANGED ledger
  BY DEF Tick
<1> HIDE DEF p
<1>4. IsOpen(p) /\ Live(p) = Live(book[i])
  BY <1>1, <1>2 DEF IsOpen, Live
<1>5. Sound(p, ledger[i])
  BY <1>1, <1>2, <1>4, MovedSound
<1>6. i \in DOMAIN book
  BY DEF BookInv
<1>7. CASE Keeps(i, Closed(p, q)) /\ Receives(i, q, p.qty)
  <2> DEFINE l == Booked(ledger[i], Side(p.dir) * q * p.qty, q * p.qty, 0)
  <2>1. Makes(i, Closed(p, q), l)
    BY <1>2, <1>7, Received DEF Keeps, Makes
  <2>2. /\ Sound(Closed(p, q), l) /\ Closed(p, q).dcas = p.dcas /\ Closed(p, q).risk0 = p.risk0
        /\ Closed(p, q) \in Position
    BY <1>4, <1>5, ClosedSound
  <2>3. BookInv'
    BY <1>1, <2>1, <2>2, MakesKeeps
  <2>4. book'[i] = Closed(p, q)
    BY <1>6, <1>7 DEF Keeps
  <2> QED
    BY <1>2, <2>2, <2>3, <2>4, PositionIsOpened
<1>8. CASE Keeps(i, p) /\ UNCHANGED ledger
  <2>1. Makes(i, p, ledger[i])
    BY <1>8 DEF Keeps, Makes, BookInv
  <2>2. BookInv'
    BY <1>1, <1>5, <2>1, MakesKeeps
  <2>3. book'[i] = p
    BY <1>6, <1>8 DEF Keeps
  <2> QED
    BY <1>2, <2>2, <2>3, PositionIsOpened
<1> QED
  BY <1>3, <1>7, <1>8

(* A moved level changes nothing a profit depends on.                                   *)
LEMMA LevelStep ==
    ASSUME BookInv, NEW i \in Ids, NEW c \in Position, MoveLevels(i, c),
           c.status = book[i].status, c.dir = book[i].dir, c.entry = book[i].entry,
           c.qty = book[i].qty, c.realized = book[i].realized, c.dcas = book[i].dcas,
           c.risk0 = book[i].risk0
    PROVE  /\ BookInv' /\ book'[i].dcas = book[i].dcas /\ book'[i].risk0 = book[i].risk0
           /\ book'[i] # Unopened
<1>1. /\ Sound(book[i], ledger[i]) /\ IsOpen(book[i]) /\ i \in DOMAIN book
      /\ i \notin late /\ late' = late
  BY NotLate DEF BookInv, MoveLevels
<1>2. Live(c) = Live(book[i])
  BY DEF Live, IsOpen
<1>3. Sound(c, ledger[i])
  BY <1>1, <1>2, MovedSound
<1>4. Makes(i, c, ledger[i]) /\ book'[i] = c
  BY <1>1 DEF MoveLevels, Keeps, Makes, BookInv
<1> QED
  BY <1>1, <1>3, <1>4, MakesKeeps, PositionIsOpened

(* The four operations that move levels.                                               *)
LEMMA LevelsStep ==
    ASSUME BookInv, NEW i \in Ids, NEW q \in Nat, NEW stop \in Nat,
           \/ ToBreakeven(i, q) \/ UpdateStop(i, q) \/ UpdateTarget(i, q) \/ UpdateBoth(i, q, stop)
    PROVE  /\ BookInv' /\ book'[i].dcas = book[i].dcas /\ book'[i].risk0 = book[i].risk0
           /\ book'[i] # Unopened
<1> DEFINE p == book[i]
<1>1. p \in Position
  BY OpenIsPosition DEF BookInv, ToBreakeven, UpdateStop, UpdateTarget, UpdateBoth
<1>2. p.entry \in Nat /\ Side(p.dir) \in Int
  BY <1>1, SideType DEF Position
<1>3. ASSUME NEW a \in Int, NEW t \in Nat, NEW z \in Nat,
             MoveLevels(i, [p EXCEPT !.stop = a, !.target = t, !.price = z])
      PROVE  BookInv' /\ book'[i].dcas = p.dcas /\ book'[i].risk0 = p.risk0 /\ book'[i] # Unopened
  <2> DEFINE c == [p EXCEPT !.stop = a, !.target = t, !.price = z]
  <2>1. /\ c \in Position /\ c.status = p.status /\ c.dir = p.dir /\ c.entry = p.entry
        /\ c.qty = p.qty /\ c.realized = p.realized /\ c.dcas = p.dcas /\ c.risk0 = p.risk0
    BY <1>1 DEF Position
  <2>2. MoveLevels(i, c)
    BY <1>3
  <2> HIDE DEF c
  <2> QED
    BY <2>1, <2>2, LevelStep
<1>4. p.target \in Nat /\ p.price \in Nat /\ p.stop \in Int
  BY <1>1 DEF Position
<1>5. CASE ToBreakeven(i, q)
  <2> DEFINE b == Breakeven(p)
  <2>1. b \in Int
    BY <1>2 DEF Breakeven
  <2>2. MoveLevels(i, [p EXCEPT !.stop = b, !.price = q])
    BY <1>5 DEF ToBreakeven
  <2> HIDE DEF b
  <2>3. [p EXCEPT !.stop = b, !.price = q] = [p EXCEPT !.stop = b, !.target = p.target, !.price = q]
    BY <1>1 DEF Position
  <2> QED
    BY <1>3, <1>4, <2>1, <2>2, <2>3
<1>6. CASE UpdateStop(i, q)
  <2> DEFINE b == 1250 * q
           c == [p EXCEPT !.stop = b]
           e == [p EXCEPT !.stop = b, !.target = p.target, !.price = p.price]
  <2>1. b \in Int /\ MoveLevels(i, c)
    BY <1>6 DEF UpdateStop
  <2> HIDE DEF b
  <2>2. c = e
    BY <1>1 DEF Position
  <2>3. MoveLevels(i, e)
    BY <2>1, <2>2
  <2> QED
    BY <1>3, <1>4, <2>1, <2>3
<1>7. CASE UpdateTarget(i, q)
  <2>1. MoveLevels(i, [p EXCEPT !.target = q])
    BY <1>7 DEF UpdateTarget
  <2>2. [p EXCEPT !.target = q] = [p EXCEPT !.stop = p.stop, !.target = q, !.price = p.price]
    BY <1>1 DEF Position
  <2> QED
    BY <1>3, <1>4, <2>1, <2>2
<1>8. CASE UpdateBoth(i, q, stop)
  <2> DEFINE b == 1250 * stop
  <2>1. b \in Int /\ MoveLevels(i, [p EXCEPT !.target = q, !.stop = b])
    BY <1>8 DEF UpdateBoth
  <2> HIDE DEF b
  <2>2. [p EXCEPT !.target = q, !.stop = b] = [p EXCEPT !.stop = b, !.target = q, !.price = p.price]
    BY <1>1 DEF Position
  <2> QED
    BY <1>3, <1>4, <2>1, <2>2
<1> QED
  BY <1>5, <1>6, <1>7, <1>8

(* What the position loses at its stop is counted whole by estimate and by rule.       *)
LEMMA RiskType ==
    ASSUME NEW p \in Position, NEW q \in Nat
    PROVE  Beyond(p, q) \in Int /\ EstimatedRisk(p) \in Int /\ Risk(p) \in Nat
<1>1. /\ Side(p.dir) \in {1, -1} /\ p.stop \in Int /\ p.entry \in Nat /\ p.qty \in Nat
  BY SideType DEF Position
<1>2. Beyond(p, q) \in Int /\ Beyond(p, p.entry) \in Int
  BY <1>1 DEF Beyond
<1> DEFINE r == Beyond(p, p.entry) * p.qty
<1>3. r \in Int
  BY <1>1, <1>2
<1>4. EstimatedRisk(p) = r /\ Risk(p) = IF r < 0 THEN 0 ELSE r
  BY DEF EstimatedRisk, Risk, AtLeast
<1> HIDE DEF r
<1> QED
  BY <1>2, <1>3, <1>4

(* An addition the rule allows keeps what is lost at the stop under twice the first     *)
(* risk, but for what rounding moves.                                                  *)
LEMMA AddedRisk ==
    ASSUME NEW p \in Position, NEW q \in Nat, NEW risk \in Nat, NEW n \in Nat \ {0},
           Beyond(p, q) * n <= 1250 * risk,
           NEW had \in Int, EstimatedRisk(p) <= had, had + 1250 * risk <= 1250 * 2 * p.risk0,
           NEW c \in Position, c.dir = p.dir, c.stop = p.stop, c.risk0 = p.risk0,
           c.entry = AverageEntry(p, q, n), c.qty = p.qty + n
    PROVE  2 * Risk(c) <= 1250 * (4 * c.risk0 + c.qty)
<1> DEFINE e == AverageEntry(p, q, n)
           s == Side(p.dir)
           d == (p.qty + n) * e - p.qty * p.entry - n * q
           lots == p.qty + n
           r == Beyond(c, c.entry) * c.qty
           x == EstimatedRisk(p)
           y == Beyond(p, q) * n
<1>1. /\ s \in {1, -1} /\ s \in Int /\ p.qty \in Nat /\ p.entry \in Nat /\ p.stop \in Int
      /\ p.risk0 \in Nat
  BY SideType DEF Position
<1>2. e \in Nat /\ 2 * d <= p.qty + n /\ -(p.qty + n) <= 2 * d
  BY AveragePaid
<1> HIDE DEF e
<1>3. x = s * (1250 * p.entry - p.stop) * p.qty /\ y = s * (1250 * q - p.stop) * n
  BY DEF EstimatedRisk, Beyond
<1>4. r = s * (1250 * e - p.stop) * (p.qty + n)
  BY DEF Beyond, e
<1>5. d \in Int /\ lots \in Nat /\ lots >= 0
  BY <1>1, <1>2
<1>6. r = x + y + s * (1250 * d) /\ x \in Int /\ y \in Int
  <2> HIDE DEF x, y, r
  <2>1. CASE s = 1
    BY <1>1, <1>2, <1>3, <1>4, <2>1
  <2>2. CASE s = -1
    BY <1>1, <1>2, <1>3, <1>4, <2>2
  <2> QED
    BY <1>1, <2>1, <2>2
<1>7. Risk(c) = IF r < 0 THEN 0 ELSE r
  BY DEF Risk, AtLeast
<1>8. y <= 1250 * risk /\ x + 1250 * risk <= 1250 * 2 * p.risk0
  BY <1>1, <1>6
<1>9. 2 * d <= lots /\ -lots <= 2 * d /\ c.qty = lots /\ c.risk0 = p.risk0
  BY <1>2
<1> HIDE DEF d, lots, r, x, y
<1>10. r \in Int /\ 2 * r <= 1250 * (4 * p.risk0 + lots)
  <2>1. CASE s = 1
    BY <1>1, <1>5, <1>6, <1>8, <1>9, <2>1
  <2>2. CASE s = -1
    BY <1>1, <1>5, <1>6, <1>8, <1>9, <2>2
  <2> QED
    BY <1>1, <2>1, <2>2
<1> QED
  BY <1>1, <1>5, <1>7, <1>9, <1>10

(* What an addition writes to the book and the ledger.                                  *)
LEMMA DcaWrites ==
    ASSUME BookInv, NEW i \in Ids, NEW q \in Nat, NEW n \in Nat \ {0}, Dca(i, q, n)
    PROVE  /\ book[i] \in Position /\ ledger[i] \in Ledger
           /\ Makes(i, Added(book[i], q, n),
                    Booked(ledger[i], -(Side(book[i].dir) * q * n), 0, book[i].qty + n))
           /\ late' = late \cup {j \in {i} : ~IsOpen(book[i])}
<1> DEFINE p == book[i]
           s == Side(p.dir)
           k == ledger[i]
           l == Booked(k, -(s * q * n), 0, p.qty + n)
           a == s * q * n
           x == k.cash - a
           z == k.slack + p.qty + n
<1>1. ledger \in [Ids -> Ledger] /\ k \in Ledger /\ p \in Position
  BY DEF BookInv, Dca
<1>2. ledger' = [ledger EXCEPT ![i].cash = @ - s * q * n, ![i].slack = @ + p.qty + n]
  BY DEF Dca
<1>3. ledger' = [ledger EXCEPT ![i] = [k EXCEPT !.cash = x, !.slack = z]]
  BY <1>1, <1>2
<1>4. a \in Int /\ p.qty \in Nat
  BY <1>1, SideType DEF Position
<1> HIDE DEF a
<1>5. k.cash + (-a) = x /\ k.fees + 0 = k.fees /\ k.slack + (p.qty + n) = z
  BY <1>1, <1>4 DEF Ledger
<1>6. l = [cash |-> x, fees |-> k.fees, slack |-> z]
  BY <1>5 DEF Booked, a
<1> HIDE DEF x, z
<1>7. [k EXCEPT !.cash = x, !.slack = z] = [cash |-> x, fees |-> k.fees, slack |-> z]
  <2> DEFINE m == [k EXCEPT !.cash = x, !.slack = z]
  <2>1. m.cash = x /\ m.fees = k.fees /\ m.slack = z
        /\ m = [f \in {"cash", "fees", "slack"} |-> m[f]]
    BY <1>1 DEF Ledger
  <2> HIDE DEF m
  <2>2. m = [cash |-> m.cash, fees |-> m.fees, slack |-> m.slack]
    BY <2>1
  <2> QED
    BY <2>1, <2>2 DEF m
<1>8. ledger' = [ledger EXCEPT ![i] = l]
  BY <1>3, <1>6, <1>7
<1>9. book' = [book EXCEPT ![i] = Added(p, q, n)] /\ late' = late \cup {j \in {i} : ~IsOpen(p)}
  BY DEF Dca, Keeps
<1> QED
  BY <1>1, <1>8, <1>9 DEF Makes

(* An addition leaves an open position sound, and marks a closed one.                    *)
LEMMA DcaStep ==
    ASSUME BookInv, NEW i \in Ids, NEW q \in Nat, NEW n \in Nat \ {0}, Dca(i, q, n)
    PROVE  BookInv' /\ book'[i] # Unopened /\ book'[i].risk0 = book[i].risk0
<1> DEFINE p == book[i]
           c == Added(p, q, n)
           l == Booked(ledger[i], -(Side(p.dir) * q * n), 0, p.qty + n)
<1>1. p \in Position /\ ledger[i] \in Ledger /\ Makes(i, c, l)
      /\ late' = late \cup {j \in {i} : ~IsOpen(p)}
  BY DcaWrites
<1>2. c \in Position /\ c.status = p.status /\ c.risk0 = p.risk0
  BY <1>1, AddedIs
<1>3. l \in Ledger
  <2> DEFINE a == -(Side(p.dir) * q * n)
             z == p.qty + n
  <2>1. a \in Int /\ z \in Nat
    BY <1>1, SideType DEF Position
  <2> HIDE DEF a, z
  <2>2. Booked(ledger[i], a, 0, z) \in Ledger
    BY <1>1, <2>1 DEF Booked, Ledger
  <2> QED
    BY <2>2 DEF a, z
<1>4. book'[i] = c
  BY <1>1 DEF Makes, BookInv
<1> HIDE DEF c, l
<1>5. CASE IsOpen(p)
  <2>1. i \notin late /\ Sound(p, ledger[i]) /\ late' = late
    BY <1>1, <1>5, NotLate
  <2>2. Sound(c, l)
    BY <1>5, <2>1, AddedSound DEF c, l
  <2> QED
    BY <1>1, <1>2, <1>4, <2>1, <2>2, MakesKeeps, PositionIsOpened
<1>6. CASE ~IsOpen(p)
  <2>1. late' = late \cup {i} /\ ~IsOpen(c)
    BY <1>1, <1>2, <1>6 DEF IsOpen
  <2>2. book' \in [Ids -> Position \cup {Unopened}] /\ ledger' \in [Ids -> Ledger]
    BY <1>1, <1>2, <1>3 DEF BookInv, Makes
  <2>3. ASSUME NEW j \in Ids \ late' PROVE Sound(book'[j], ledger'[j])
    BY <1>1, <2>1 DEF BookInv, Makes
  <2>4. ASSUME NEW j \in Ids \cap late' PROVE book'[j] \in Position /\ ~IsOpen(book'[j])
    BY <1>1, <1>2, <1>4, <2>1 DEF BookInv, Makes
  <2>5. BookInv'
    BY <2>2, <2>3, <2>4 DEF BookInv, Sound, Off, Live, IsOpen
  <2> QED
    BY <1>2, <1>4, <2>5, PositionIsOpened
<1> QED
  BY <1>5, <1>6

(* An addition as it was agreed to keeps the risk within the rule.                       *)
LEMMA DcaRisk ==
    ASSUME BookInv, PromiseInv, NEW i \in Ids, NEW q \in Nat, NEW n \in Nat \ {0}, Dca(i, q, n),
           AsAgreed(i)
    PROVE  2 * Risk(book'[i]) <= 1250 * (4 * book'[i].risk0 + book'[i].qty)
<1> DEFINE p == book[i]
           s == Side(p.dir)
           c == Added(p, q, n)
           l == Booked(ledger[i], -(s * q * n), 0, p.qty + n)
           a == s * q * n
<1>1. p \in Position /\ ledger[i] \in Ledger /\ Makes(i, c, l)
  BY DcaWrites
<1>2. /\ c \in Position /\ c.dir = p.dir /\ c.stop = p.stop /\ c.risk0 = p.risk0
      /\ c.entry = AverageEntry(p, q, n) /\ c.qty = p.qty + n
  BY <1>1, AddedIs
<1>3. book'[i] = c /\ ledger'[i] = l
  BY <1>1 DEF Makes, BookInv
<1>4. /\ agreed.risk \in Nat /\ agreed.had \in Int /\ EstimatedRisk(p) <= agreed.had
      /\ agreed.had + 1250 * agreed.risk <= 1250 * 2 * p.risk0
      /\ LossAdded(i) <= 1250 * agreed.risk
  BY DEF PromiseInv, AsAgreed
<1>5. s \in {1, -1} /\ p.stop \in Int /\ p.qty \in Nat /\ ledger[i].cash \in Int
  BY <1>1, SideType DEF Position, Ledger
<1>6. l.cash = ledger[i].cash + (-a)
  BY DEF Booked
<1> HIDE DEF c, l
<1>7. LossAdded(i) = 1250 * (ledger[i].cash - l.cash) - s * p.stop * (c.qty - p.qty)
  BY <1>3 DEF LossAdded
<1>8. a \in Int
  BY <1>5
<1>9. ledger[i].cash - l.cash = a /\ c.qty - p.qty = n
  <2> HIDE DEF a
  <2> QED
    BY <1>2, <1>5, <1>6, <1>8
<1>10. LossAdded(i) = Beyond(p, q) * n
  <2>1. LossAdded(i) = 1250 * (s * q * n) - s * p.stop * n
    BY <1>7, <1>9
  <2>2. Beyond(p, q) = s * (1250 * q - p.stop)
    BY DEF Beyond
  <2>3. CASE s = 1
    BY <1>5, <2>1, <2>2, <2>3
  <2>4. CASE s = -1
    BY <1>5, <2>1, <2>2, <2>4
  <2> QED
    BY <1>5, <2>3, <2>4
<1>11. 2 * Risk(c) <= 1250 * (4 * c.risk0 + c.qty)
  BY <1>1, <1>2, <1>4, <1>10, AddedRisk
<1> QED
  BY <1>3, <1>11

(* A new position loses at most its budget at its stop.                                *)
LEMMA NewRisk ==
    ASSUME NEW p \in Position, NEW stop \in Nat, p.stop = 1250 * stop, p.entry # stop,
           NEW risk \in Nat, p.qty = risk \div Abs(p.entry - stop)
    PROVE  Risk(p) <= 1250 * risk
<1> DEFINE d == Abs(p.entry - stop)
           n == p.qty
           e == p.entry
           s == Side(p.dir)
           r == Beyond(p, e) * n
<1>1. s \in {1, -1} /\ n \in Nat /\ e \in Nat
  BY SideType DEF Position
<1>2. d \in Nat \ {0} /\ (d = e - stop \/ d = stop - e)
  BY <1>1 DEF Abs, AtLeast
<1>3. n = risk \div d
  OBVIOUS
<1> HIDE DEF n, d
<1>4. d * n <= risk
  BY <1>2, <1>3, WholeParts
<1>5. d * n \in Nat
  BY <1>1, <1>2
<1>6. r = s * (1250 * e - 1250 * stop) * n
  BY DEF Beyond
<1>7. Risk(p) = IF r < 0 THEN 0 ELSE r
  BY DEF Risk, AtLeast, n
<1>8. r = 1250 * (d * n) \/ r = -(1250 * (d * n))
  <2> HIDE DEF r, e, s
  <2>1. CASE d = e - stop
    <3>1. CASE s = 1
      BY <1>1, <1>2, <1>6, <2>1, <3>1
    <3>2. CASE s = -1
      BY <1>1, <1>2, <1>6, <2>1, <3>2
    <3> QED
      BY <1>1, <3>1, <3>2
  <2>2. CASE d = stop - e
    <3>1. CASE s = 1
      BY <1>1, <1>2, <1>6, <2>2, <3>1
    <3>2. CASE s = -1
      BY <1>1, <1>2, <1>6, <2>2, <3>2
    <3> QED
      BY <1>1, <3>1, <3>2
  <2> QED
    BY <1>2, <2>1, <2>2
<1> DEFINE dn == d * n
<1>9. dn \in Nat /\ dn <= risk /\ (r = 1250 * dn \/ r = -(1250 * dn))
  BY <1>4, <1>5, <1>8
<1> HIDE DEF r, dn
<1>10. r \in Int /\ r <= 1250 * risk
  BY <1>9
<1>11. Risk(p) = 0 \/ Risk(p) = r
  BY <1>7
<1>12. 0 <= 1250 * risk
  OBVIOUS
<1> QED
  BY <1>10, <1>11, <1>12

(* A new position is sound, and risks its budget at most.                               *)
LEMMA OpenStep ==
    ASSUME BookInv, NEW i \in Ids, NEW sg \in Signals, Open(i, sg)
    PROVE  /\ BookInv' /\ book[i] = Unopened /\ book' = [book EXCEPT ![i] = book'[i]]
           /\ book'[i] \in Position /\ IsOpen(book'[i]) /\ book'[i].dcas = 0
           /\ Risk(book'[i]) <= 1250 * sg.risk
           /\ \E acct \in Contexts : CanAdd(sg.risk, acct) /\ context' = acct
<1> DEFINE qty == sg.risk \div Abs(sg.entry - sg.stop)
           s == Side(sg.dir)
           value == qty * sg.entry
           c == [status |-> "open", dir |-> sg.dir, entry |-> sg.entry, target |-> sg.target,
                 stop |-> 1250 * sg.stop, price |-> sg.entry, qty |-> qty, lev |-> sg.lev,
                 notional0 |-> qty * sg.entry, risk0 |-> sg.risk, dcas |-> 0, realized |-> 0]
           l == [cash |-> -(s * qty * sg.entry), fees |-> 0, slack |-> 0]
<1>1. /\ sg.dir \in {"LONG", "SHORT"} /\ sg.entry \in Nat /\ sg.target \in Nat /\ sg.stop \in Nat
      /\ sg.lev \in Nat /\ sg.risk \in Nat /\ sg.entry # sg.stop
  BY SignalsAssumption
<1>2. Abs(sg.entry - sg.stop) \in Nat \ {0}
  BY <1>1 DEF Abs, AtLeast
<1>3. qty \in Nat
  <2> DEFINE d == Abs(sg.entry - sg.stop)
  <2>1. d \in Nat \ {0} /\ qty = sg.risk \div d
    BY <1>2
  <2> HIDE DEF d, qty
  <2> QED
    BY <1>1, <2>1, WholeParts
<1>4. /\ book[i] = Unopened /\ Keeps(i, c) /\ ledger' = [ledger EXCEPT ![i].cash = l.cash]
      /\ late' = late
  BY DEF Open
<1>5. \E acct \in Contexts : CanAdd(sg.risk, acct) /\ context' = acct
  BY DEF Open
<1> HIDE DEF qty
<1>6. s \in {1, -1} /\ s \in Int /\ value \in Nat /\ s * qty * sg.entry \in Int
  BY <1>1, <1>3 DEF Side
<1>7. c \in Position
  BY <1>1, <1>3, <1>6 DEF Position
<1>8. IsOpen(c) /\ Live(c) = qty
  BY DEF IsOpen, Live
<1>9. Off(c, l) = 0
  <2>1. Off(c, l) = 2500 * (-(s * qty * sg.entry) + s * qty * sg.entry) - 0 - 0
    BY <1>8 DEF Off
  <2> DEFINE a == s * qty * sg.entry
  <2>2. a \in Int /\ Off(c, l) = 2500 * ((-a) + a) - 0 - 0
    BY <1>6, <2>1
  <2> HIDE DEF a
  <2>3. (-a) + a = 0
    BY <2>2
  <2> QED
    BY <2>2, <2>3
<1>10. l \in Ledger
  <2> DEFINE a == -(s * qty * sg.entry)
  <2>1. a \in Int
    BY <1>6
  <2> HIDE DEF a
  <2>2. [cash |-> a, fees |-> 0, slack |-> 0] \in Ledger
    BY <2>1 DEF Ledger
  <2> QED
    BY <2>2 DEF a
<1>11. Sound(c, l)
  <2>1. l.slack = 0 /\ c # Unopened
    BY <1>7, PositionIsOpened
  <2> HIDE DEF c, l
  <2> QED
    BY <1>7, <1>9, <1>10, <2>1 DEF Sound
<1>12. ledger' = [ledger EXCEPT ![i] = l]
  <2>1. ledger[i] = Blank /\ ledger \in [Ids -> Ledger]
    BY <1>4, NotLate DEF BookInv, Sound
  <2> DEFINE a == -(s * qty * sg.entry)
  <2>2. ledger' = [ledger EXCEPT ![i] = [Blank EXCEPT !.cash = a]]
    BY <1>4, <2>1
  <2> HIDE DEF a
  <2>3. [Blank EXCEPT !.cash = a] = [cash |-> a, fees |-> 0, slack |-> 0]
    BY DEF Blank
  <2> QED
    BY <2>2, <2>3 DEF a
<1>13. book' = [book EXCEPT ![i] = c] /\ book'[i] = c
  BY <1>4 DEF Keeps, BookInv
<1>14. BookInv'
  <2>1. Makes(i, c, l)
    BY <1>12, <1>13 DEF Makes
  <2> HIDE DEF c, l
  <2> QED
    BY <1>4, <1>11, <2>1, NotLate, MakesKeeps
<1>15. Risk(c) <= 1250 * sg.risk
  <2>1. c.stop = 1250 * sg.stop /\ c.entry = sg.entry /\ c.qty = sg.risk \div Abs(sg.entry - sg.stop)
    BY DEF qty
  <2> HIDE DEF c
  <2> QED
    BY <1>1, <1>7, <2>1, NewRisk
<1>16. c.dcas = 0
  OBVIOUS
<1>17. book[i] = Unopened
  BY <1>4
<1>18. book' = [book EXCEPT ![i] = book'[i]]
  <2> HIDE DEF c
  <2> QED
    BY <1>13
<1> HIDE DEF c, l
<1>19. book'[i] \in Position /\ IsOpen(book'[i]) /\ book'[i].dcas = 0
       /\ Risk(book'[i]) <= 1250 * sg.risk
  BY <1>7, <1>8, <1>13, <1>15, <1>16
<1> QED
  BY <1>5, <1>14, <1>17, <1>18, <1>19

(* What the account risks once the position is opened.                                  *)
LEMMA OpenFits ==
    ASSUME BookInv, NEW i \in Ids, NEW sg \in Signals, Open(i, sg)
    PROVE  100 * AtRisk' <= Limit(context')
<1> DEFINE H == Held
           T == {j \in Ids : book'[j].status \notin {"none", "closed"}}
           v == [j \in H |-> Risk(book[j])]
           w == [j \in T |-> Risk(book'[j])]
<1>1. /\ BookInv' /\ book[i] = Unopened /\ book' = [book EXCEPT ![i] = book'[i]]
      /\ book'[i] \in Position /\ IsOpen(book'[i])
      /\ Risk(book'[i]) <= 1250 * sg.risk
  BY OpenStep
<1>2. PICK acct \in Contexts : CanAdd(sg.risk, acct) /\ context' = acct
  BY OpenStep
<1>3. IsFiniteSet(H)
  BY BookAssumption, FS_Subset DEF Held
<1>4. i \notin H /\ T = H \cup {i}
  <2>1. \A j \in Ids : book[j] \in Position \cup {Unopened}
    BY DEF BookInv
  <2>2. \A j \in Ids : j # i => book'[j] = book[j]
    BY <1>1 DEF BookInv
  <2>3. \A j \in Ids : IsOpen(book[j]) <=> book[j].status \notin {"none", "closed"}
    BY <2>1 DEF Position, Unopened, IsOpen
  <2>4. book'[i].status \notin {"none", "closed"}
    BY <1>1 DEF IsOpen
  <2>5. i \notin H
    BY <1>1 DEF Held, IsOpen, Unopened
  <2> QED
    BY <2>2, <2>3, <2>4, <2>5 DEF Held
<1>5. \A j \in H : v[j] \in Nat /\ w[j] = v[j]
  <2>1. \A j \in H : book[j] \in Position
    BY OpenIsPosition DEF Held, BookInv
  <2>2. \A j \in H : book'[j] = book[j] /\ j \in T
    BY <1>1, <1>4 DEF BookInv, Held
  <2>3. \A j \in H : Risk(book[j]) \in Nat
    <3>1. \A p \in Position : Risk(p) \in Nat
      <4>1. 0 \in Nat
        OBVIOUS
      <4> QED
        BY <4>1, RiskType
    <3> QED
      BY <2>1, <3>1
  <2> QED
    BY <2>2, <2>3
<1>6. w[i] = Risk(book'[i]) /\ w[i] \in Nat
  <2>1. 0 \in Nat
    OBVIOUS
  <2> QED
    BY <1>1, <1>4, <2>1, RiskType
<1>7. TotalRisk = SumFunctionOnSet(v, H) /\ AtRisk' = SumFunctionOnSet(w, T)
  BY DEF TotalRisk, AtRisk, SumOfRisks
<1>8. sg.risk \in Nat
  BY SignalsAssumption
<1>9. 100 * (TotalRisk + 1250 * sg.risk) <= Limit(context')
  BY <1>2 DEF CanAdd
<1>10. Limit(context') \in Int
  BY <1>2, ContextsAssumption DEF Limit
<1> HIDE DEF H, T, v, w
<1>11. SumFunctionOnSet(w, H) = SumFunctionOnSet(v, H)
  BY <1>3, <1>5, SumOfEqual
<1>12. SumFunctionOnSet(w, T) = w[i] + SumFunctionOnSet(w, H)
  BY <1>3, <1>4, <1>5, <1>6, SumWith
<1>13. SumFunctionOnSet(v, H) \in Int
  BY <1>3, <1>5, SumIsInteger
<1> QED
  BY <1>1, <1>6, <1>7, <1>8, <1>9, <1>10, <1>11, <1>12, <1>13

Grown == \A i \in Ids :
            IsOpen(book[i]) /\ book'[i].dcas > book[i].dcas /\ AsAgreed(i)
                => 2 * Risk(book'[i]) <= 1250 * (4 * book'[i].risk0 + book'[i].qty)
Fitted == \A i \in Ids :
            book[i] = Unopened /\ book'[i] # Unopened => 100 * AtRisk' <= Limit(context')

\* Nothing that was opened is forgotten, nor what it was to risk; nor what was agreed.
Remembered ==
    /\ agreed' = agreed
    /\ \A i \in Ids : book[i] # Unopened
            => book'[i] # Unopened /\ book'[i].risk0 = book[i].risk0

(* What was agreed to stays within the rule.                                           *)
LEMMA PromiseStays ==
    ASSUME PromiseInv, Remembered
    PROVE  PromiseInv'
BY DEF PromiseInv, Remembered

(* An operation on one position leaves the others, and opens none.                     *)
LEMMA OnOne ==
    ASSUME BookInv, PromiseInv, NEW i \in Ids, NEW c, book[i] # Unopened, Keeps(i, c),
           agreed' = agreed, book'[i] # Unopened, book'[i].risk0 = book[i].risk0,
           book'[i].dcas > book[i].dcas /\ AsAgreed(i)
                => 2 * Risk(book'[i]) <= 1250 * (4 * book'[i].risk0 + book'[i].qty)
    PROVE  Grown /\ Fitted /\ PromiseInv'
<1>1. \A j \in Ids : j # i => book'[j] = book[j]
  BY DEF Keeps, BookInv
<1>2. Fitted
  BY <1>1 DEF Fitted
<1>3. ASSUME NEW j \in Ids, IsOpen(book[j]), book'[j].dcas > book[j].dcas, j # i PROVE FALSE
  <2>1. book[j] \in Position /\ book'[j] = book[j]
    BY <1>1, <1>3, OpenIsPosition DEF BookInv
  <2>2. book[j].dcas \in Nat
    BY <2>1 DEF Position
  <2> QED
    BY <1>3, <2>1, <2>2
<1>4. Remembered
  BY <1>1 DEF Remembered
<1> QED
  BY <1>2, <1>3, <1>4, PromiseStays DEF Grown

(* An unchanged count of additions has not grown.                                       *)
LEMMA Unmoved ==
    ASSUME BookInv, NEW i \in Ids, IsOpen(book[i]), book'[i].dcas = book[i].dcas
    PROVE  ~(book'[i].dcas > book[i].dcas) /\ book[i] # Unopened
<1>1. book[i] \in Position
  BY OpenIsPosition DEF BookInv
<1>2. book[i].dcas \in Nat
  BY <1>1 DEF Position
<1> QED
  BY <1>1, <1>2, PositionIsOpened

(* check_dca changes nothing but what is agreed, and agrees within the rule.             *)
LEMMA CheckStep ==
    ASSUME BookInv, NEW i \in Ids, NEW q \in Nat, NEW risk \in Nat, NEW st,
           CheckDca(i, q, risk, st)
    PROVE  BookInv' /\ PromiseInv' /\ Grown /\ Fitted
<1>1. /\ book[i] # Unopened /\ UNCHANGED <<book, ledger, late>>
      /\ agreed' = IF Eligible(book[i], q, risk, st)
                   THEN [of |-> i, risk |-> risk, had |-> EstimatedRisk(book[i])] ELSE NoPromise
  BY DEF CheckDca
<1>2. book[i] \in Position
  BY <1>1 DEF BookInv
<1>3. BookInv'
  BY <1>1 DEF BookInv, Sound, Off, Live, IsOpen
<1>4. EstimatedRisk(book[i]) \in Int
  BY <1>2, RiskType
<1>5. ASSUME Eligible(book[i], q, risk, st) PROVE PromiseInv'
  <2> DEFINE had == EstimatedRisk(book[i])
  <2>1. had + 1250 * risk <= 1250 * 2 * book[i].risk0 /\ had \in Int
    BY <1>4, <1>5 DEF Eligible
  <2> HIDE DEF had
  <2>2. agreed' = [of |-> i, risk |-> risk, had |-> had]
    BY <1>1, <1>5 DEF had
  <2>3. agreed'.of = i /\ agreed'.risk = risk /\ agreed'.had = had
    BY <2>2
  <2>4. book' = book /\ book[i] # Unopened
    BY <1>1
  <2> QED
    BY <2>1, <2>3, <2>4 DEF PromiseInv, Unopened
<1>6. ASSUME ~Eligible(book[i], q, risk, st) PROVE PromiseInv'
  <2>1. agreed' = NoPromise
    BY <1>1, <1>6
  <2> QED
    BY <2>1 DEF PromiseInv, NoPromise
<1>7. Fitted
  BY <1>1 DEF Fitted
<1>8. ASSUME NEW j \in Ids, IsOpen(book[j]), book'[j].dcas > book[j].dcas PROVE FALSE
  <2>1. book[j] \in Position /\ book'[j] = book[j]
    BY <1>1, <1>8, OpenIsPosition DEF BookInv
  <2>2. book[j].dcas \in Nat
    BY <2>1 DEF Position
  <2> QED
    BY <1>8, <2>1, <2>2
<1> QED
  BY <1>3, <1>5, <1>6, <1>7, <1>8 DEF Grown

(* Every operation keeps the invariants and makes the two action properties true.       *)
LEMMA BookStep ==
    ASSUME BookInv, PromiseInv, BookNext
    PROVE  BookInv' /\ PromiseInv' /\ Grown /\ Fitted
<1> DEFINE Goal == BookInv' /\ PromiseInv' /\ Grown /\ Fitted
<1>1. PICK i \in Ids :
        \/ \E sg \in Signals : Open(i, sg)
        \/ \E q \in Ticks :
              \/ Close(i, q) \/ Tick(i, q) \/ ToBreakeven(i, q)
              \/ \E pct \in {25, 50} : PartialClose(i, q, pct)
              \/ \E risk \in Additions, st \in Stats : CheckDca(i, q, risk, st)
              \/ \E n \in Quantities : Dca(i, q, n)
        \/ \E q \in Levels :
              \/ UpdateStop(i, q) \/ UpdateTarget(i, q)
              \/ \E stop \in Levels : UpdateBoth(i, q, stop)
  BY DEF BookNext
<1>2. /\ Ticks \subseteq Nat /\ Additions \subseteq Nat /\ Levels \subseteq Nat
      /\ Quantities \subseteq Nat \ {0}
  BY BookAssumption
<1>3. IsOpen(book[i]) => book[i] \in Position /\ Sound(book[i], ledger[i])
  BY OpenIsPosition, NotLate DEF BookInv
<1>4. CASE \E sg \in Signals : Open(i, sg)
  <2>1. PICK sg \in Signals : Open(i, sg)
    BY <1>4
  <2>2. /\ BookInv' /\ book[i] = Unopened /\ book' = [book EXCEPT ![i] = book'[i]]
        /\ 100 * AtRisk' <= Limit(context')
    BY <2>1, OpenStep, OpenFits
  <2>3. Fitted
    BY <2>2 DEF Fitted
  <2>4. ASSUME NEW j \in Ids, IsOpen(book[j]), book'[j].dcas > book[j].dcas PROVE FALSE
    <3>1. j # i
      BY <2>2, <2>4 DEF IsOpen, Unopened
    <3>2. book[j] \in Position /\ book'[j] = book[j]
      BY <2>2, <2>4, <3>1, OpenIsPosition DEF BookInv
    <3>3. book[j].dcas \in Nat
      BY <3>2 DEF Position
    <3> QED
      BY <2>4, <3>2, <3>3
  <2>5. agreed' = agreed
    BY <2>1 DEF Open
  <2>6. \A j \in Ids : book[j] # Unopened => book'[j] = book[j]
    BY <2>2 DEF BookInv
  <2>7. PromiseInv'
    BY <2>5, <2>6, PromiseStays DEF Remembered
  <2> QED
    BY <2>2, <2>3, <2>4, <2>7 DEF Grown
<1>5. ASSUME NEW q \in Nat, Close(i, q) PROVE Goal
  <2>1. IsOpen(book[i]) /\ Keeps(i, Closed(book[i], q)) /\ agreed' = agreed
    BY <1>5 DEF Close
  <2>2. BookInv' /\ book'[i] = Closed(book[i], q)
    BY <1>5, CloseStep DEF BookInv
  <2>3. /\ book'[i].dcas = book[i].dcas /\ book'[i].risk0 = book[i].risk0
        /\ book'[i] # Unopened
    BY <1>3, <2>1, <2>2, ClosedSound, PositionIsOpened
  <2> QED
    BY <2>1, <2>2, <2>3, OnOne, Unmoved
<1>6. ASSUME NEW q \in Nat, Tick(i, q) PROVE Goal
  <2>1. IsOpen(book[i]) /\ (\E c : Keeps(i, c)) /\ agreed' = agreed
    BY <1>6 DEF Tick
  <2>2. /\ BookInv' /\ book'[i].dcas = book[i].dcas /\ book'[i].risk0 = book[i].risk0
        /\ book'[i] # Unopened
    BY <1>6, TickStep
  <2> QED
    BY <2>1, <2>2, OnOne, Unmoved
<1>7. ASSUME NEW q \in Nat, NEW stop \in Nat,
             \/ ToBreakeven(i, q) \/ UpdateStop(i, q) \/ UpdateTarget(i, q)
             \/ UpdateBoth(i, q, stop)
      PROVE  Goal
  <2>1. IsOpen(book[i]) /\ (\E c : Keeps(i, c)) /\ agreed' = agreed
    BY <1>7 DEF ToBreakeven, UpdateStop, UpdateTarget, UpdateBoth, MoveLevels
  <2>2. /\ BookInv' /\ book'[i].dcas = book[i].dcas /\ book'[i].risk0 = book[i].risk0
        /\ book'[i] # Unopened
    BY <1>7, LevelsStep
  <2> QED
    BY <2>1, <2>2, OnOne, Unmoved
<1>8. ASSUME NEW q \in Nat, NEW pct \in {25, 50}, PartialClose(i, q, pct) PROVE Goal
  <2> DEFINE c == PartClosed(book[i], q, PartQuantity(book[i], pct))
  <2>1. IsOpen(book[i]) /\ Keeps(i, c) /\ agreed' = agreed
    BY <1>8 DEF PartialClose
  <2>2. BookInv' /\ book'[i] = c
    BY <1>8, <2>1, PartialCloseStep DEF BookInv, Keeps
  <2>3. c.dcas = book[i].dcas /\ c.risk0 = book[i].risk0 /\ c # Unopened
    BY <1>3, <2>1, PartSound, PositionIsOpened
  <2> HIDE DEF c
  <2> QED
    BY <2>1, <2>2, <2>3, OnOne, Unmoved
<1>9. ASSUME NEW q \in Nat, NEW n \in Nat \ {0}, Dca(i, q, n) PROVE Goal
  <2>1. book[i] # Unopened /\ (\E c : Keeps(i, c)) /\ agreed' = agreed
    BY <1>9 DEF Dca
  <2>2. BookInv' /\ book'[i] # Unopened /\ book'[i].risk0 = book[i].risk0
    BY <1>9, DcaStep
  <2>3. AsAgreed(i) => 2 * Risk(book'[i]) <= 1250 * (4 * book'[i].risk0 + book'[i].qty)
    BY <1>9, DcaRisk
  <2> QED
    BY <2>1, <2>2, <2>3, OnOne
<1>10. ASSUME NEW q \in Nat, NEW risk \in Nat, NEW st, CheckDca(i, q, risk, st) PROVE Goal
  BY <1>10, CheckStep
<1>11. 0 \in Nat
  OBVIOUS
<1> HIDE DEF Goal
<1>12. Goal
  BY <1>1, <1>2, <1>5, <1>6, <1>7, <1>8, <1>9, <1>10, <1>11, <1>4 DEF Goal
<1> QED
  BY <1>12 DEF Goal

(* The empty book.                                                                     *)
LEMMA BookStarts == BookInit => BookInv /\ PromiseInv
<1> SUFFICES ASSUME BookInit PROVE BookInv /\ PromiseInv
  OBVIOUS
<1>1. Blank \in Ledger
  BY DEF Blank, Ledger
<1>2. \A i \in Ids : book[i] = Unopened /\ ledger[i] = Blank
  BY DEF BookInit, Blank
<1>3. book \in [Ids -> Position \cup {Unopened}] /\ ledger \in [Ids -> Ledger]
  BY <1>1 DEF BookInit, Blank
<1>4. late = {} /\ agreed = NoPromise
  BY DEF BookInit
<1> QED
  BY <1>1, <1>2, <1>3, <1>4 DEF BookInv, Sound, PromiseInv

(* Nothing happens, or an operation does.                                              *)
LEMMA BookStays == BookInv /\ PromiseInv /\ [BookNext]_bvars => BookInv' /\ PromiseInv'
<1>1. BookInv /\ UNCHANGED bvars => BookInv'
  BY DEF BookInv, bvars, Sound, Off, Live, IsOpen
<1>2. PromiseInv /\ UNCHANGED bvars => PromiseInv'
  BY DEF PromiseInv, bvars
<1> QED
  BY <1>1, <1>2, BookStep

(* Every position ever opened, by any operations in any order, reports the money that    *)
(* was paid and received for it but for half a unit for each lot an addition averaged;   *)
(* and what check_dca agreed to is within twice the first risk of the position it judged. *)
THEOREM BookInvariance == BookSpec => [](BookInv /\ PromiseInv)
<1>1. BookInv /\ PromiseInv /\ [BookNext]_bvars => (BookInv /\ PromiseInv)'
  BY BookStays
<1> QED
  BY <1>1, BookStarts, PTL DEF BookSpec

(* The invariant's two bounds are one on the difference.                                *)
LEMMA SoundTells ==
    ASSUME NEW p, NEW l, Sound(p, l), p # Unopened
    PROVE  2 * Abs(Off(p, l)) <= 2500 * l.slack
<1>1. p \in Position /\ l \in Ledger
  BY DEF Sound
<1>2. /\ Side(p.dir) \in Int /\ Live(p) \in Nat /\ p.entry \in Nat /\ p.realized \in Int
      /\ l.cash \in Int /\ l.fees \in Int /\ l.slack \in Nat
  BY <1>1, SideType DEF Position, Ledger, Live
<1> DEFINE a == Side(p.dir) * Live(p) * p.entry
           o == Off(p, l)
<1>3. a \in Int
  BY <1>2
<1>4. o = 2500 * (l.cash + a) - l.fees - p.realized
  BY DEF Off
<1>5. 2 * o <= 2500 * l.slack /\ -(2 * o) <= 2500 * l.slack
  BY DEF Sound
<1> HIDE DEF a, o
<1>6. o \in Int
  BY <1>2, <1>3, <1>4
<1>7. 2 * Abs(o) <= 2500 * l.slack
  BY <1>2, <1>5, <1>6 DEF Abs, AtLeast
<1> QED
  BY <1>7 DEF o

(* A reported profit is the money made (lifecycle.py, dca.py), for any positions.        *)
THEOREM CostBasis == BookSpec => []CostBasisHolds
<1>1. BookInv => CostBasisHolds
  <2> SUFFICES ASSUME BookInv, NEW i \in Ids, i \notin late, book[i] # Unopened
               PROVE  2 * Abs(Off(book[i], ledger[i])) <= 2500 * ledger[i].slack
    BY DEF CostBasisHolds, Off, Live
  <2> QED
    BY SoundTells DEF BookInv
<1> QED
  BY <1>1, BookInvariance, PTL

(* What check_dca agreed to (dca.py:53-63) bounds what is at risk after the addition, if   *)
(* the units that are added risk no more than was asked and the position no more than it   *)
(* did: whatever else was done to the account between the check and the addition.          *)
THEOREM AdditionsKeepRisk == BookSpec => AddingKeepsRisk
<1>1. BookInv /\ PromiseInv /\ [BookNext]_bvars =>
        [\A i \in Ids :
            LET p == book[i]'
            IN  IsOpen(book[i]) /\ p.dcas > book[i].dcas /\ AsAgreed(i)
                    => 2 * Risk(p) <= 1250 * (4 * p.risk0 + p.qty)]_bvars
  BY BookStep DEF Grown
<1> QED
  BY <1>1, BookInvariance, PTL DEF BookSpec, AddingKeepsRisk

(* A new position fits the portfolio's limit with all that is open (portfolio/engine.py). *)
THEOREM NewOnesFit == BookSpec => NewPositionFits
<1>1. BookInv /\ PromiseInv /\ [BookNext]_bvars =>
        [\A i \in Ids : book[i] = Unopened /\ book[i]' # Unopened
            => 100 * AtRisk' <= Limit(context')]_bvars
  BY BookStep DEF Fitted
<1> QED
  BY <1>1, BookInvariance, PTL DEF BookSpec, NewPositionFits

--------------------------------------------------------------------------------
(* DecisionChain: what the strategies give the decision engine.                        *)

Leverages == {3, 5, 7, 10, 15}
Given(s) == s.stop \in Int /\ s.leverage \in Int
Rated(s) == s.stop \in Int /\ s.conf \in Nat /\ s.rr \in Int

(* The leverages a confidence stands for.                                              *)
LEMMA LeverageType == ASSUME NEW conf PROVE Leverage(conf) \in Leverages
BY DEF Leverage, Leverages

WholeCents == {4 * k : k \in Int}

(* A price rounded to cents is a multiple of four quarters.                            *)
LEMMA CentsType == ASSUME NEW x \in Int PROVE Cents(x) \in WholeCents /\ Cents(x) \in Int
<1> DEFINE q == (x + 2) \div 4
<1>1. q \in Int
  BY Z3
<1> HIDE DEF q
<1>2. q * 4 \in Int /\ q * 4 = 4 * q
  BY <1>1
<1>3. Cents(x) = 4 * q
  BY <1>2 DEF Cents, q
<1> QED
  BY <1>1, <1>2, <1>3 DEF WholeCents

(* The sign of a direction.                                                            *)
LEMMA SignType == ASSUME NEW dir PROVE Sign(dir) \in {1, -1} /\ Sign(dir) \in Int
BY DEF Sign

(* A distance from the current price is a number.                                      *)
LEMMA DistanceType == ASSUME NEW dir, NEW p \in Int PROVE Distance(dir, p) \in Int
BY SignType DEF Distance, Entry

(* A quotient is an integer.                                                           *)
LEMMA Quotient == ASSUME NEW a \in Int, NEW b \in Nat \ {0} PROVE a \div b \in Int
BY Z3

(* A signal built at a positive stop distance has numbers in it.                       *)
LEMMA SignalRated ==
    ASSUME NEW dir, NEW conf \in Nat, NEW stop \in Nat \ {0}, NEW target \in Int
    PROVE  Rated(Signal(dir, conf, stop, target)) 
<1>1. Entry - Sign(dir) * stop \in Int /\ 200 * target + stop \in Int /\ 2 * stop \in Nat \ {0}
  BY SignType DEF Entry
<1>2. Cents(Entry - Sign(dir) * stop) \in Int
  BY <1>1, CentsType
<1>3. (200 * target + stop) \div (2 * stop) \in Int
  BY <1>1, Quotient
<1> QED
  BY <1>2, <1>3 DEF Signal, Rated

(* The multiples of an ATR the strategies work with.                                   *)
LEMMA AtrParts ==
    ASSUME NEW atr \in Nat \ {0}
    PROVE  /\ (atr * 3) \div 2 \in Nat \ {0} /\ (atr * 15) \div 4 \in Nat
           /\ (atr * 5) \div 2 \in Nat /\ atr \div 2 \in Nat
BY Z3

(* So has the absence of a signal.                                                     *)
LEMMA NoSignalRated == Rated(NoSignal)
BY DEF NoSignal, Rated

(* The trend strategy's signal.                                                        *)
LEMMA EmaRated == ASSUME NEW t \in Technicals PROVE Rated(EmaTrend(t))
<1> DEFINE dir == t.stack
           conf == 55 + Bonus(Aligned(t, dir), 10) + Bonus(Crossed(t, dir), 8)
                     + Either(t.vol >= 15, 5, Bonus(t.vol >= 10, 2))
                     + Bonus(Favours(dir, t.rsi < 60, t.rsi > 40), 5)
           stop == (t.atr * 3) \div 2
           target == (t.atr * 15) \div 4
<1>1. conf \in Nat
  BY DEF Bonus, Either
<1>2. stop \in Nat \ {0} /\ target \in Nat
  BY AtrParts, TechnicalsAssumption
<1>3. EmaTrend(t) = IF t.stack \notin {"LONG", "SHORT"} \/ t.hist # Sign(t.stack) THEN NoSignal
                    ELSE Signal(dir, conf, stop, target)
  BY DEF EmaTrend
<1> HIDE DEF conf, stop, target
<1>4. Rated(Signal(dir, conf, stop, target))
  BY <1>1, <1>2, SignalRated
<1> QED
  BY <1>3, <1>4, NoSignalRated

(* The reversal strategy's signal.                                                     *)
LEMMA RsiRated == ASSUME NEW t \in Technicals PROVE Rated(RsiReversal(t))
<1> DEFINE dir == IF t.rsi <= 35 /\ t.pctB <= 25 THEN "LONG"
               ELSE IF t.rsi >= 65 /\ t.pctB >= 75 THEN "SHORT" ELSE "NO_TRADE"
           depth == Favours(dir, t.rsi, 100 - t.rsi)
           conf == (IF depth <= 25 THEN 78 ELSE IF depth <= 30 THEN 68 ELSE 58)
                + Bonus(Favours(dir, t.pctB <= 10, t.pctB >= 90), 5)
                + Either(Crossed(t, dir), 8, Bonus(t.hist = Sign(dir), 3))
           target == (t.atr * 5) \div 2
<1>1. conf \in Nat
  BY DEF Bonus, Either
<1>2. t.atr \in Nat \ {0} /\ target \in Nat
  BY AtrParts, TechnicalsAssumption
<1>3. RsiReversal(t) = IF dir = "NO_TRADE" THEN NoSignal ELSE Signal(dir, conf, t.atr, target)
  BY DEF RsiReversal
<1> HIDE DEF conf, target, dir
<1>4. Rated(Signal(dir, conf, t.atr, target))
  BY <1>1, <1>2, SignalRated
<1> QED
  BY <1>3, <1>4, NoSignalRated

(* The levels that lie in a direction.                                                 *)
LEMMA LevelsType ==
    ASSUME NEW t \in Technicals, NEW dir
    PROVE  Favours(dir, t.resistances, t.supports) \subseteq Int
BY TechnicalsAssumption DEF Favours, Either

(* A level just broken is within 2% of the price.                                      *)
LEMMA BrokenType ==
    ASSUME NEW t \in Technicals, NEW dir
    PROVE  Broken(t, dir) \subseteq 1 .. 800
<1>1. Entry \div 50 = 800
  BY Z3 DEF Entry
<1> QED
  BY <1>1 DEF Broken

(* The greater of two numbers is one of them.                                          *)
LEMMA GreaterOfTwo ==
    ASSUME NEW x \in Nat, NEW y \in Nat
    PROVE  Max({x, y}) \in {x, y} /\ Max({x, y}) >= x
<1>1. {x, y} \subseteq Nat /\ {x, y} # {} /\ x + y \in Nat /\ \A z \in {x, y} : z <= x + y
  OBVIOUS
<1>2. Max({x, y}) \in {x, y} /\ \A z \in {x, y} : z <= Max({x, y})
  BY <1>1, Greatest
<1> QED
  BY <1>2

(* The breakout strategy's signal: its stop is a positive distance away, because a     *)
(* level was broken.                                                                   *)
LEMMA BreakoutRated == ASSUME NEW t \in Technicals PROVE Rated(Breakout(t))
<1> DEFINE up == Broken(t, "LONG")
           down == Broken(t, "SHORT")
           dir == IF up # {} /\ (down = {} \/ Min(up) <= Min(down)) THEN "LONG" ELSE "SHORT"
           level == Min(Broken(t, dir))
           next == {d \in {Distance(dir, p) : p \in Favours(dir, t.resistances, t.supports)} :
                    d > 0}
           stop == Max({level + (3 * (Entry - Sign(dir) * level)) \div 1000, t.atr \div 2})
           target == Max({(stop * 5) \div 2} \cup (IF next = {} THEN {} ELSE {Min(next)}))
           conf == 60 + (IF t.vol >= 25 THEN 10 ELSE IF t.vol >= 20 THEN 6 ELSE 2)
                + Bonus(Favours(dir, TechScore(t) >= 30000, TechScore(t) <= -30000), 5)
                + Bonus(Aligned(t, dir), 5)
<1>1. Breakout(t) = IF t.vol < 15 \/ up \cup down = {} THEN NoSignal
                    ELSE Signal(dir, conf, stop, target)
  BY DEF Breakout
<1>2. conf \in Nat
  BY DEF Bonus
<1>3. CASE up \cup down # {}
  <2>1. Broken(t, dir) # {}
    BY <1>3
  <2>2. Broken(t, dir) \subseteq 1 .. 800
    BY BrokenType
  <2>3. level \in 1 .. 800
    <3> DEFINE S == Broken(t, dir)
    <3>1. S \subseteq 1 .. 800 /\ S # {}
      BY <2>1, <2>2
    <3>2. level = Min(S)
      OBVIOUS
    <3> HIDE DEF S, level
    <3>3. S \subseteq Nat
      BY <3>1
    <3>4. level \in S
      BY <3>1, <3>2, <3>3, Least
    <3> QED
      BY <3>1, <3>4
  <2>4. next \subseteq Nat
    BY LevelsType, DistanceType
  <2> HIDE DEF dir, level, next
  <2>5. t.atr \div 2 \in Nat
    BY AtrParts, TechnicalsAssumption
  <2> DEFINE near == level + (3 * (Entry - Sign(dir) * level)) \div 1000
  <2>6. near \in Nat \ {0}
    <3> DEFINE x == 3 * (Entry - Sign(dir) * level)
    <3>1. x \in Nat
      BY <2>3, SignType DEF Entry
    <3> HIDE DEF x
    <3>2. x \div 1000 \in Nat
      BY <3>1, Z3
    <3> QED
      BY <2>3, <3>2 DEF x
  <2> HIDE DEF near
  <2>7. stop \in Nat \ {0}
    <3>1. Max({near, t.atr \div 2}) \in {near, t.atr \div 2} /\ Max({near, t.atr \div 2}) >= near
      BY <2>5, <2>6, GreaterOfTwo
    <3>2. stop = Max({near, t.atr \div 2})
      BY DEF near
    <3> HIDE DEF stop
    <3> QED
      BY <2>5, <2>6, <3>1, <3>2
  <2> HIDE DEF stop
  <2> DEFINE far == (stop * 5) \div 2
  <2>8. far \in Nat
    BY <2>7, AtrParts
  <2>9. target \in Nat
    <3> HIDE DEF far
    <3>1. CASE next = {}
      <4>1. target = Max({far})
        BY <3>1 DEF far
      <4>2. {far} = {far, far}
        OBVIOUS
      <4> QED
        BY <2>8, <4>1, <4>2, GreaterOfTwo
    <3>2. CASE next # {}
      <4>1. target = Max({far, Min(next)})
        <5>1. {far} \cup {Min(next)} = {far, Min(next)}
          OBVIOUS
        <5> QED
          BY <3>2, <5>1 DEF far
      <4>2. Min(next) \in Nat
        BY <2>4, <3>2, Least
      <4> QED
        BY <2>8, <4>1, <4>2, GreaterOfTwo
    <3> QED
      BY <3>1, <3>2
  <2> HIDE DEF target, conf
  <2>10. Rated(Signal(dir, conf, stop, target))
    BY <1>2, <2>7, <2>9, SignalRated
  <2> QED
    BY <1>1, <2>10, NoSignalRated
<1>4. CASE up \cup down = {}
  BY <1>1, <1>4, NoSignalRated
<1> QED
  BY <1>3, <1>4

--------------------------------------------------------------------------------

Names == {"ema_trend", "rsi_reversal", "breakout"}
AllRated(signals) == DOMAIN signals = Names /\ \A s \in Names : Rated(signals[s])

(* The three strategies' signals.                                                      *)
LEMMA StrategiesRated == ASSUME NEW t \in Technicals PROVE AllRated(StrategySignals(t))
<1> DEFINE signals == StrategySignals(t)
<1>1. /\ DOMAIN signals = Names /\ signals["ema_trend"] = EmaTrend(t)
      /\ signals["rsi_reversal"] = RsiReversal(t) /\ signals["breakout"] = Breakout(t)
  BY DEF StrategySignals, Names
<1> HIDE DEF signals
<1>2. \A s \in Names : Rated(signals[s])
  BY <1>1, EmaRated, RsiRated, BreakoutRated DEF Names
<1> QED
  BY <1>1, <1>2 DEF AllRated, signals

(* Among a few strategies one ranks highest.                                          *)
LEMMA HighestRank ==
    ASSUME NEW S, S \subseteq Names, S # {}, NEW rank, \A s \in S : rank[s] \in Int
    PROVE  \E s \in S : \A u \in S : rank[u] <= rank[s]
<1>1. PICK s \in S : TRUE
  OBVIOUS
<1>2. PICK u \in S : rank[s] <= rank[u] /\ ("ema_trend" \in S => rank["ema_trend"] <= rank[u])
  BY <1>1
<1>3. PICK v \in S : rank[u] <= rank[v] /\ ("rsi_reversal" \in S => rank["rsi_reversal"] <= rank[v])
  BY <1>2
<1>4. PICK w \in S : rank[v] <= rank[w] /\ ("breakout" \in S => rank["breakout"] <= rank[w])
  BY <1>3
<1>5. \A x \in S : rank[x] <= rank[w]
  <2>1. rank[u] \in Int /\ rank[v] \in Int /\ rank[w] \in Int
    OBVIOUS
  <2>2. rank[u] <= rank[w]
    BY <1>3, <1>4, <2>1
  <2> TAKE x \in S
  <2>3. CASE x = "ema_trend"
    BY <1>2, <2>1, <2>2, <2>3
  <2>4. CASE x = "rsi_reversal"
    BY <1>3, <1>4, <2>1, <2>4
  <2>5. CASE x = "breakout"
    BY <1>4, <2>5
  <2> QED
    BY <2>3, <2>4, <2>5 DEF Names
<1> QED
  BY <1>5

(* The places that break ties.                                                         *)
LEMMA PlaceType == \A s \in Names : Place(s) \in Int
BY DEF Place, Names

(* The candidate the engine prefers is one of the strategies'.                         *)
LEMMA PreferredIsOne ==
    ASSUME NEW signals, AllRated(signals), NEW regime, Preferred(signals, regime) # "none"
    PROVE  Preferred(signals, regime) \in Names
<1> DEFINE allowed == {s \in DOMAIN Playbook(regime) : signals[s].dir # "NO_TRADE"}
           rank(s) == 1000000 * signals[s].conf + 10 * signals[s].rr + Place(s)
           ranks == [s \in Names |-> rank(s)]
           best == CHOOSE s \in allowed : \A u \in allowed : rank(u) <= rank(s)
<1>1. Preferred(signals, regime) = IF allowed = {} THEN "none" ELSE best
  BY DEF Preferred
<1>2. allowed \subseteq Names
  BY DEF Playbook, Names
<1>3. \A s \in Names : ranks[s] \in Int
  BY PlaceType DEF AllRated, Rated
<1> HIDE DEF allowed
<1>4. CASE allowed # {}
  <2>1. \A s \in allowed : ranks[s] \in Int
    BY <1>2, <1>3
  <2>2. \A s \in allowed : ranks[s] = rank(s)
    BY <1>2
  <2> HIDE DEF ranks, rank
  <2>3. \E s \in allowed : \A u \in allowed : ranks[u] <= ranks[s]
    BY <1>2, <1>4, <2>1, HighestRank
  <2>4. \E s \in allowed : \A u \in allowed : rank(u) <= rank(s)
    BY <2>2, <2>3
  <2>5. best \in allowed
    BY <2>4
  <2> QED
    BY <1>1, <1>2, <1>4, <2>5
<1> QED
  BY <1>1, <1>4

(* What is left of a signal keeps its stop and has a leverage.                         *)
LEMMA OfferGiven ==
    ASSUME NEW s, Rated(s), NEW n \in Int
    PROVE  Given(Offer(s, n))
BY DEF Offer, Given, Rated

(* The vote's stop and leverage are numbers: the majority is never empty.              *)
LEMMA VoteGiven == ASSUME NEW signals, AllRated(signals) PROVE Given(Aggregate(signals))
<1> DEFINE of(dir) == {s \in DOMAIN signals : signals[s].dir = dir}
           dir == CHOOSE d \in {"LONG", "SHORT"} :
                  Cardinality(of(d)) >= Cardinality(of(Opposite(d)))
           conf == MapThenSumSet(LAMBDA s : 100 * signals[s].conf, of(dir))
                  \div Cardinality(of(dir))
           rank(s) == 10 * signals[s].conf + Place(s)
           ranks == [s \in Names |-> rank(s)]
           best == CHOOSE s \in of(dir) : \A u \in of(dir) : rank(u) <= rank(s)
           none == Cardinality(of("LONG")) = Cardinality(of("SHORT")) \/ conf < 6000
<1>1. Aggregate(signals) = IF none THEN Offer(NoSignal, 1)
                           ELSE Offer(signals[best], Leverage(conf \div 100))
  BY DEF Aggregate
<1>2. Given(Offer(NoSignal, 1))
  BY NoSignalRated, OfferGiven
<1> HIDE DEF conf
<1>3. ASSUME ~none PROVE best \in Names
  <2>1. Cardinality(of("LONG")) # Cardinality(of("SHORT"))
    <3> HIDE DEF of
    <3> QED
      BY <1>3
  <2>2. \A d : of(d) \subseteq Names
    BY DEF AllRated
  <2>3. \A d : IsFiniteSet(of(d)) /\ Cardinality(of(d)) \in Nat
    <3>1. IsFiniteSet(Names)
      <4>1. IsFiniteSet({} \cup {"ema_trend"})
        BY FS_EmptySet, FS_AddElement
      <4>2. IsFiniteSet(({} \cup {"ema_trend"}) \cup {"rsi_reversal"})
        BY <4>1, FS_AddElement
      <4>3. IsFiniteSet((({} \cup {"ema_trend"}) \cup {"rsi_reversal"}) \cup {"breakout"})
        BY <4>2, FS_AddElement
      <4>4. Names = (({} \cup {"ema_trend"}) \cup {"rsi_reversal"}) \cup {"breakout"}
        BY DEF Names
      <4> QED
        BY <4>3, <4>4
    <3> TAKE d
    <3> HIDE DEF of
    <3> QED
      BY <2>2, <3>1, FS_Subset, FS_CardinalityType
  <2>4. \E d \in {"LONG", "SHORT"} : Cardinality(of(d)) >= Cardinality(of(Opposite(d)))
    <3> HIDE DEF of
    <3>1. Opposite("LONG") = "SHORT" /\ Opposite("SHORT") = "LONG"
      BY DEF Opposite
    <3>2. Cardinality(of("LONG")) \in Nat /\ Cardinality(of("SHORT")) \in Nat
      BY <2>3
    <3> QED
      BY <3>1, <3>2
  <2>5. dir \in {"LONG", "SHORT"} /\ Cardinality(of(dir)) >= Cardinality(of(Opposite(dir)))
    <3> HIDE DEF of
    <3> QED
      BY <2>4
  <2>6. of(dir) # {}
    <3> HIDE DEF of, dir
    <3>1. Opposite("LONG") = "SHORT" /\ Opposite("SHORT") = "LONG"
      BY DEF Opposite
    <3>2. Cardinality(of(dir)) # 0
      BY <2>1, <2>3, <2>5, <3>1
    <3> QED
      BY <3>2, FS_EmptySet
  <2> HIDE DEF of, dir
  <2>7. \A s \in Names : ranks[s] \in Int /\ ranks[s] = rank(s)
    BY PlaceType DEF AllRated, Rated
  <2> HIDE DEF ranks, rank
  <2>8. \E s \in of(dir) : \A u \in of(dir) : ranks[u] <= ranks[s]
    BY <2>2, <2>6, <2>7, HighestRank
  <2>9. \E s \in of(dir) : \A u \in of(dir) : rank(u) <= rank(s)
    BY <2>2, <2>7, <2>8
  <2>10. best \in of(dir)
    BY <2>9
  <2> QED
    BY <2>2, <2>10
<1> HIDE DEF none, best
<1>4. CASE ~none
  <2>1. Leverage(conf \div 100) \in Int
    BY LeverageType DEF Leverages
  <2>2. Rated(signals[best])
    BY <1>3, <1>4 DEF AllRated
  <2> QED
    BY <1>1, <1>4, <2>1, <2>2, OfferGiven
<1> QED
  BY <1>1, <1>2, <1>4

ViewGiven(v) ==
    Given(v.signal) /\ v.atr \in Nat \ {0} /\ v.supports \cup v.resistances \subseteq Int

(* A candidate that is an order: its stop is on the losing side, and its net loss is  *)
(* what is lost there and the costs.                                                  *)
Priced(c) ==
    LET loss == -Distance(c.action, c.stop)
    IN  /\ c.action \in {"LONG", "SHORT"} /\ c.leverage \in 1 .. 10 /\ c.stop \in WholeCents
        /\ loss > 0 /\ c.notional = 20000 * c.leverage
        /\ c.netLoss = (c.notional * loss) \div Entry + (c.notional * 16) \div 10000
        /\ c.liquidation = Entry - Sign(c.action) * (Entry \div c.leverage)

(* Whichever of the signal's stop, the levels and the ATR it comes from, the stop is a *)
(* whole number of cents.                                                              *)
LEMMA StopType ==
    ASSUME NEW v, ViewGiven(v), NEW dir
    PROVE  Exits(v, dir, v.signal).stop \in WholeCents
<1> DEFINE signal == v.signal
           ahead(price) == Distance(dir, price)
           stopLevels == {-ahead(p) : p \in {q \in Favours(dir, v.supports, v.resistances) :
                                              ahead(q) < 0}}
           fallback == Max({(v.atr * 3) \div 2, (3 * Entry) \div 1000})
           stop == IF signal.stop > 0 /\ ahead(signal.stop) < 0 THEN -ahead(signal.stop)
                ELSE IF stopLevels # {} THEN Min(stopLevels) ELSE fallback
<1>1. Exits(v, dir, signal).stop \in {0, Cents(Entry - Sign(dir) * stop)}
  BY DEF Exits, NoExits
<1>2. stopLevels \subseteq Nat
  BY DistanceType DEF ViewGiven, Favours, Either
<1>3. fallback \in Int
  <2>1. (3 * Entry) \div 1000 \in Nat
    BY Z3 DEF Entry
  <2>2. (v.atr * 3) \div 2 \in Nat
    BY AtrParts DEF ViewGiven
  <2> QED
    BY <2>1, <2>2, GreaterOfTwo
<1>4. ahead(signal.stop) \in Int
  BY DistanceType DEF ViewGiven, Given
<1> HIDE DEF stopLevels, fallback, ahead
<1>5. stopLevels # {} => Min(stopLevels) \in Int
  <2>1. ASSUME stopLevels # {} PROVE Min(stopLevels) \in Nat
    BY <1>2, <2>1, Least
  <2> QED
    BY <2>1
<1>6. stop \in Int
  BY <1>3, <1>4, <1>5
<1> HIDE DEF stop, signal
<1>7. Cents(Entry - Sign(dir) * stop) \in WholeCents /\ 0 \in WholeCents
  <2>1. Entry - Sign(dir) * stop \in Int
    BY <1>6, SignType DEF Entry
  <2>2. 0 = 4 * 0
    OBVIOUS
  <2> QED
    BY <2>1, <2>2, CentsType DEF WholeCents
<1> QED
  BY <1>1, <1>7 DEF signal

(* A candidate is a HOLD or an order with its stop on the losing side.                 *)
LEMMA CandidatePriced ==
    ASSUME NEW v, ViewGiven(v), NEW m, NEW strategy, NEW adjust, NEW risk, NEW noTrade,
           NEW c, c = Candidate(v, m, strategy, v.signal, v.signal.leverage, adjust, risk, noTrade)
    PROVE  c = Hold \/ Priced(c)
<1> DEFINE strong(d) == Bound(v[d] + adjust[d], 0, 10000) >= MinScore
        dir   == IF strong("LONG") THEN "LONG" ELSE "SHORT"
        exits == Exits(v, dir, v.signal)
        loss  == -Distance(dir, exits.stop)
        gain  == Distance(dir, exits.target)
        leverage == Bound(v.signal.leverage, 1, MaxLeverage)
        notional == (Total \div 50) * leverage
        costs == (notional * 16) \div 10000
        no == \/ strategy = "UNKNOWN" \/ noTrade \/ risk > 5500
              \/ strong("LONG") = strong("SHORT") \/ exits = NoExits
              \/ loss <= 0 \/ gain <= 0
        order == [action |-> dir, strategy |-> strategy, leverage |-> leverage,
              stop |-> exits.stop, target |-> exits.target, notional |-> notional,
              lowRR |-> 20000 * gain < 39999 * loss,
              netLoss |-> (notional * loss) \div Entry + costs,
              netProfit |-> (notional * gain) \div Entry - costs,
              liquidation |-> Entry - Sign(dir) * (Entry \div leverage),
              spread |-> m.spread, minutesToFunding |-> m.minutesToFunding]
<1>1. c = IF no THEN Hold ELSE order
  BY DEF Candidate
<1>2. exits.stop \in WholeCents /\ exits.stop \in Int
  <2>1. exits.stop \in WholeCents
    BY StopType
  <2>2. WholeCents \subseteq Int
    BY DEF WholeCents
  <2> HIDE DEF exits
  <2> QED
    BY <2>1, <2>2
<1>3. leverage \in 1 .. 10
  BY DEF Bound, MaxLeverage, ViewGiven, Given
<1>4. notional = 20000 * leverage
  <2>1. Total \div 50 = 20000
    BY Z3 DEF Total
  <2> QED
    BY <2>1
<1>5. dir \in {"LONG", "SHORT"}
  OBVIOUS
<1>6. loss \in Int
  <2> HIDE DEF exits, dir
  <2> QED
    BY <1>2, DistanceType
<1>7. no \/ loss > 0
  <2> HIDE DEF loss
  <2> QED
    BY <1>6
<1> HIDE DEF no
<1>8. CASE ~no
  <2>1. c = order
    BY <1>1, <1>8
  <2>2. /\ order.action = dir /\ order.leverage = leverage /\ order.stop = exits.stop
        /\ order.notional = notional
        /\ order.netLoss = (notional * loss) \div Entry + costs
        /\ order.liquidation = Entry - Sign(dir) * (Entry \div leverage)
    <3> HIDE DEF dir, exits, loss, gain, leverage, notional, costs
    <3> QED
      OBVIOUS
  <2> HIDE DEF order
  <2>3. loss = -Distance(dir, exits.stop) /\ costs = (notional * 16) \div 10000
    OBVIOUS
  <2> HIDE DEF dir, exits, loss, leverage, notional, costs
  <2> QED
    BY <1>2, <1>3, <1>4, <1>5, <1>7, <1>8, <2>1, <2>2, <2>3 DEF Priced
<1> QED
  BY <1>1, <1>8

--------------------------------------------------------------------------------

(* A tuple is a sequence over its members: here of nine,                               *)
LEMMA Nine ==
    ASSUME NEW x1, NEW x2, NEW x3, NEW x4, NEW x5, NEW x6, NEW x7, NEW x8, NEW x9
    PROVE  LET s == <<x1, x2, x3, x4, x5, x6, x7, x8, x9>>
           IN  Len(s) = 9 /\ s \in Seq({x1, x2, x3, x4, x5, x6, x7, x8, x9}) /\ s[5] = x5
OBVIOUS

(* of three,                                                                           *)
LEMMA Three ==
    ASSUME NEW x1, NEW x2, NEW x3
    PROVE  LET s == <<x1, x2, x3>>
           IN  Len(s) = 3 /\ s \in Seq({x1, x2, x3}) /\ s[2] = x2 /\ s[3] = x3
OBVIOUS

(* and of six.                                                                         *)
LEMMA Six ==
    ASSUME NEW x1, NEW x2, NEW x3, NEW x4, NEW x5, NEW x6
    PROVE  LET s == <<x1, x2, x3, x4, x5, x6>>
           IN  Len(s) = 6 /\ s \in Seq({x1, x2, x3, x4, x5, x6})
OBVIOUS

(* The elements of a concatenation.                                                    *)
LEMMA Joined ==
    ASSUME NEW S, NEW x \in Seq(S), NEW y \in Seq(S)
    PROVE  /\ x \o y \in Seq(S) /\ Len(x \o y) = Len(x) + Len(y)
           /\ \A i \in 1 .. Len(x) : (x \o y)[i] = x[i]
           /\ \A i \in 1 .. Len(y) : (x \o y)[Len(x) + i] = y[i]
OBVIOUS

(* An element of a sequence.                                                           *)
LEMMA Element == ASSUME NEW S, NEW s \in Seq(S), NEW i \in 1 .. Len(s) PROVE s[i] \in S
OBVIOUS

(* A sequence over a set is one over a larger set.                                     *)
LEMMA Wider == ASSUME NEW A, NEW B, A \subseteq B, NEW s \in Seq(A) PROVE s \in Seq(B)
OBVIOUS

(* The checks of the account come first, five of them before the day's limit's end.    *)
LEMMA NoneFailing ==
    ASSUME NEW c, NEW a, NEW regime, Verdict(c, a, regime) = "approved"
    PROVE  /\ ~(a.daily + c.netLoss > a.dailyLimit \/ a.daily >= a.dailyLimit)
           /\ ~(100 * c.netLoss > Total * a.riskPct)
           /\ ~(Sign(c.action) * 1000 * c.liquidation >= (Sign(c.action) * 1000 - 1) * c.stop)
<1> DEFINE first == AccountChecks(c, a)
           second == OrderChecks(c, a)
           third == MarketChecks(c, a, regime)
           checks == (first \o second) \o third
           failed == {i \in DOMAIN checks : checks[i][2]}
           Named(S) == \A z \in S : z[1] # "approved"
<1>1. Verdict(c, a, regime) = IF failed = {} THEN "approved" ELSE checks[Min(failed)][1]
  BY DEF Verdict
<1>2. PICK A : Named(A) /\ first \in Seq(A) /\ Len(first) = 9
  <2> DEFINE x1 == <<"KILL_SWITCH",       a.halted>>
             x2 == <<"TRADING_INACTIVE",  ~a.active>>
             x3 == <<"STRATEGY_RR",       c.lowRR>>
             x4 == <<"LEVERAGE_LIMIT",    c.leverage > Min({MaxLeverage, a.maxLeverage})>>
             x5 == <<"ORDER_001",         a.daily + c.netLoss > a.dailyLimit \/ a.daily >= a.dailyLimit>>
             x6 == <<"WEEKLY_LOSS",       a.weeklyLimit > 0 /\ a.weekly >= a.weeklyLimit>>
             x7 == <<"CONSEC_LOSS",       a.streak >= 3>>
             x8 == <<"ORDER_002",         a.open >= a.maxOpen /\ ~a.holdsCoin>>
             x9 == <<"POSITION_CONFLICT", a.holdsCoin>>
             A == {x1, x2, x3, x4, x5, x6, x7, x8, x9}
  <2>1. first = <<x1, x2, x3, x4, x5, x6, x7, x8, x9>>
    BY DEF AccountChecks
  <2>2. Named(A)
    OBVIOUS
  <2> HIDE DEF first, x1, x2, x3, x4, x5, x6, x7, x8, x9, Named
  <2>3. first \in Seq({x1, x2, x3, x4, x5, x6, x7, x8, x9}) /\ Len(first) = 9
    BY <2>1, Nine
  <2>4. first \in Seq(A)
    BY <2>3
  <2> HIDE DEF A
  <2> QED
    BY <2>2, <2>3, <2>4
<1>3. PICK B : Named(B) /\ second \in Seq(B) /\ Len(second) = 3
  <2> DEFINE x1 == <<"EXPECTED_PROFIT",      1000 * c.netProfit <= c.notional>>
             x2 == <<"EXPECTED_LOSS",        100 * c.netLoss > Total * a.riskPct>>
             x3 == <<"LIQUIDATION_DISTANCE", Sign(c.action) * 1000 * c.liquidation
                                 >= (Sign(c.action) * 1000 - 1) * c.stop>>
             B == {x1, x2, x3}
  <2>1. second = <<x1, x2, x3>>
    BY DEF OrderChecks
  <2>2. Named(B)
    OBVIOUS
  <2> HIDE DEF second, x1, x2, x3, Named
  <2>3. second \in Seq({x1, x2, x3}) /\ Len(second) = 3
    BY <2>1, Three
  <2>4. second \in Seq(B)
    BY <2>3
  <2> HIDE DEF B
  <2> QED
    BY <2>2, <2>3, <2>4
<1>4. PICK C : Named(C) /\ third \in Seq(C) /\ Len(third) = 6
  <2> DEFINE limits == Thresholds[c.strategy]
             x1 == <<"SPREAD_LIMIT",    c.spread > limits.spread>>
             x2 == <<"FUNDING_WINDOW",  c.minutesToFunding \in -5 .. 10>>
             x3 == <<"HIGH_VOLATILITY", regime = "HIGH_VOLATILITY">>
             x4 == <<"NEWS_EVENT",      regime = "NEWS_EVENT">>
             x5 == <<"HOLDING_TIME",    limits.holding \notin 1 .. limits.minutes>>
             x6 == <<"PORTFOLIO_RISK",  100 * (a.openRisk + c.netLoss) > Total * a.portfolioPct>>
             C == {x1, x2, x3, x4, x5, x6}
  <2>1. third = <<x1, x2, x3, x4, x5, x6>>
    BY DEF MarketChecks
  <2>2. Named(C)
    OBVIOUS
  <2> HIDE DEF third, x1, x2, x3, x4, x5, x6, Named
  <2>3. third \in Seq({x1, x2, x3, x4, x5, x6}) /\ Len(third) = 6
    BY <2>1, Six
  <2>4. third \in Seq(C)
    BY <2>3
  <2> HIDE DEF C
  <2> QED
    BY <2>2, <2>3, <2>4
<1>5. /\ first[5][2] = (a.daily + c.netLoss > a.dailyLimit \/ a.daily >= a.dailyLimit)
      /\ second[2][2] = (100 * c.netLoss > Total * a.riskPct)
      /\ second[3][2] = (Sign(c.action) * 1000 * c.liquidation
                            >= (Sign(c.action) * 1000 - 1) * c.stop)
  <2>1. first[5] = <<"ORDER_001", a.daily + c.netLoss > a.dailyLimit \/ a.daily >= a.dailyLimit>>
    BY DEF AccountChecks
  <2>2. /\ second[2] = <<"EXPECTED_LOSS", 100 * c.netLoss > Total * a.riskPct>>
        /\ second[3] = <<"LIQUIDATION_DISTANCE", Sign(c.action) * 1000 * c.liquidation
                            >= (Sign(c.action) * 1000 - 1) * c.stop>>
    BY DEF OrderChecks
  <2> HIDE DEF first, second
  <2> QED
    BY <2>1, <2>2
<1> HIDE DEF first, second, third
<1> DEFINE S == A \cup B \cup C
<1>6. first \in Seq(S) /\ second \in Seq(S) /\ third \in Seq(S) /\ Named(S)
  BY <1>2, <1>3, <1>4, Wider
<1> HIDE DEF S
<1>7. /\ checks \in Seq(S) /\ Len(checks) = 18
      /\ checks[5] = first[5] /\ checks[11] = second[2] /\ checks[12] = second[3]
  <2> DEFINE both == first \o second
  <2>1. /\ both \in Seq(S) /\ Len(both) = Len(first) + Len(second)
        /\ \A i \in 1 .. Len(first) : both[i] = first[i]
        /\ \A i \in 1 .. Len(second) : both[Len(first) + i] = second[i]
    BY <1>6, Joined
  <2>2. checks = both \o third
    OBVIOUS
  <2> HIDE DEF both, checks, Named
  <2>3. /\ checks \in Seq(S) /\ Len(checks) = Len(both) + Len(third)
        /\ \A i \in 1 .. Len(both) : checks[i] = both[i]
    <3>1. both \in Seq(S) /\ third \in Seq(S)
      BY <1>6, <2>1
    <3>2. /\ both \o third \in Seq(S) /\ Len(both \o third) = Len(both) + Len(third)
          /\ \A i \in 1 .. Len(both) : (both \o third)[i] = both[i]
      BY <3>1, Joined
    <3> QED
      BY <2>2, <3>2
  <2>4. Len(first) = 9 /\ Len(second) = 3 /\ Len(third) = 6
    BY <1>2, <1>3, <1>4
  <2>5. Len(both) = 12 /\ both[5] = first[5] /\ both[9 + 2] = second[2] /\ both[9 + 3] = second[3]
    BY <2>1, <2>4
  <2>6. checks[5] = both[5] /\ checks[11] = both[11] /\ checks[12] = both[12]
    BY <2>3, <2>5
  <2> QED
    BY <2>3, <2>4, <2>5, <2>6
<1> HIDE DEF checks, failed
<1>8. DOMAIN checks = 1 .. 18 /\ \A i \in 1 .. 18 : checks[i] \in S
  <2>1. checks \in Seq(S) /\ Len(checks) = 18
    BY <1>7
  <2> HIDE DEF Named
  <2>2. DOMAIN checks = 1 .. Len(checks)
    BY <2>1
  <2>3. \A i \in 1 .. Len(checks) : checks[i] \in S
    BY <2>1, Element
  <2> QED
    BY <2>1, <2>2, <2>3
<1>9. failed = {}
  <2> SUFFICES ASSUME failed # {} PROVE FALSE
    OBVIOUS
  <2>1. failed \subseteq 1 .. 18
    BY <1>8 DEF failed
  <2>2. failed \subseteq Nat
    BY <2>1
  <2>3. Min(failed) \in failed
    BY <2>2, Least
  <2>4. checks[Min(failed)] \in S
    BY <1>8, <2>1, <2>3
  <2> QED
    BY <1>1, <1>6, <2>4
<1>10. ~checks[5][2] /\ ~checks[11][2] /\ ~checks[12][2]
  BY <1>8, <1>9 DEF failed
<1>11. ~first[5][2] /\ ~second[2][2] /\ ~second[3][2]
  BY <1>7, <1>10
<1> DEFINE daily == a.daily + c.netLoss > a.dailyLimit \/ a.daily >= a.dailyLimit
           large == 100 * c.netLoss > Total * a.riskPct
           close == Sign(c.action) * 1000 * c.liquidation >= (Sign(c.action) * 1000 - 1) * c.stop
<1>12. first[5][2] = daily /\ second[2][2] = large /\ second[3][2] = close
  BY <1>5
<1> HIDE DEF daily, large, close
<1>13. ~daily /\ ~large /\ ~close
  BY <1>11, <1>12
<1> QED
  BY <1>13 DEF daily, large, close

--------------------------------------------------------------------------------

(* A product grows with both factors.                                                  *)
LEMMA ProductsGrow ==
    ASSUME NEW n \in Nat, NEW x \in Nat, NEW m \in Nat, NEW y \in Nat, m <= n, y <= x
    PROVE  n * x \in Nat /\ n * x >= m * y
OBVIOUS

(* An order that passed the checks is bounded.                                         *)
LossBounded(c, a) ==
    LET atStop == (c.notional * (-Distance(c.action, c.stop))) \div Entry
    IN  /\ atStop > 0 /\ 100 * atStop <= Total * a.riskPct
        /\ atStop + a.daily <= a.dailyLimit
        /\ Distance(c.action, c.liquidation) < Distance(c.action, c.stop)

(* An approved order: at the stop it loses at least something, because a stop is a     *)
(* whole cent away; less than the net loss the checks are about; and the liquidation   *)
(* price, which is positive, lies beyond the stop.                                     *)
LEMMA ApprovedIsBounded ==
    ASSUME NEW c, Priced(c), NEW a \in Accounts, NEW regime, Verdict(c, a, regime) = "approved"
    PROVE  LossBounded(c, a)
<1> DEFINE loss == -Distance(c.action, c.stop)
           atStop == (c.notional * loss) \div Entry
           costs == (c.notional * 16) \div 10000
           room == Entry \div c.leverage
           sign == Sign(c.action)
<1>1. /\ ~(a.daily + c.netLoss > a.dailyLimit \/ a.daily >= a.dailyLimit)
      /\ ~(100 * c.netLoss > Total * a.riskPct)
      /\ ~(Sign(c.action) * 1000 * c.liquidation >= (Sign(c.action) * 1000 - 1) * c.stop)
  BY NoneFailing
<1>2. /\ c.action \in {"LONG", "SHORT"} /\ c.leverage \in 1 .. 10 /\ c.stop \in WholeCents
      /\ loss > 0 /\ c.notional = 20000 * c.leverage /\ c.netLoss = atStop + costs
      /\ c.liquidation = Entry - sign * room
  BY DEF Priced
<1>3. /\ sign \in {1, -1} /\ Distance(c.action, c.stop) = sign * (c.stop - 40000)
      /\ Distance(c.action, c.liquidation) = sign * (c.liquidation - 40000)
      /\ loss = -(sign * (c.stop - 40000))
  BY <1>2 DEF Distance, Entry, Sign
<1>4. {a.daily, a.dailyLimit, a.riskPct} \subseteq Int
  BY AccountsAssumption
<1>5. a.daily \in Int /\ a.dailyLimit \in Int /\ a.riskPct \in Int
  BY <1>4
<1>6. room \in Nat /\ room <= 40000
  <2>1. c.leverage \in Nat \ {0} /\ 40000 \in Nat
    BY <1>2
  <2>2. 40000 \div c.leverage \in Nat /\ 40000 \div c.leverage <= 40000
    BY <2>1, Z3
  <2> QED
    BY <2>2 DEF Entry
<1> HIDE DEF sign, room
<1>7. PICK k \in Int : c.stop = 4 * k
  BY <1>2 DEF WholeCents
<1> DEFINE value == c.notional * loss
<1>8. value \in Nat /\ value >= 40000
  <2>1. loss = -(sign * (4 * k - 40000)) /\ loss > 0
    BY <1>2, <1>3, <1>7
  <2> HIDE DEF loss
  <2>2. loss \in Nat /\ loss >= 4
    BY <1>3, <2>1
  <2>3. c.notional \in Nat /\ c.notional >= 20000
    BY <1>2
  <2>4. c.notional * loss \in Nat /\ c.notional * loss >= 20000 * 4
    BY <2>2, <2>3, ProductsGrow
  <2> QED
    BY <2>4
<1>9. atStop \in Nat /\ atStop > 0
  <2>1. atStop = value \div 40000
    BY DEF Entry
  <2> HIDE DEF value
  <2>2. value \div 40000 \in Nat /\ value \div 40000 > 0
    BY <1>8, Z3
  <2> QED
    BY <2>1, <2>2
<1>10. costs \in Nat
  <2> DEFINE all == c.notional * 16
  <2>1. all \in Nat
    BY <1>2
  <2> HIDE DEF all
  <2>2. all \div 10000 \in Nat
    BY <2>1, Z3
  <2> QED
    BY <2>2 DEF all
<1> HIDE DEF atStop, costs
<1>11. 100 * atStop <= Total * a.riskPct
  BY <1>1, <1>2, <1>5, <1>9, <1>10 DEF Total
<1>12. atStop + a.daily <= a.dailyLimit
  BY <1>1, <1>2, <1>5, <1>9, <1>10
<1>13. sign * (c.liquidation - 40000) < sign * (c.stop - 40000)
  <2>1. c.stop \in Int /\ c.liquidation = 40000 - sign * room /\ -(sign * (c.stop - 40000)) > 0
        /\ ~(sign * 1000 * c.liquidation >= (sign * 1000 - 1) * c.stop)
    BY <1>1, <1>2, <1>3, <1>7 DEF Entry, sign
  <2> HIDE DEF loss
  <2>2. CASE sign = 1
    BY <1>6, <2>1, <2>2
  <2>3. CASE sign = -1
    BY <1>6, <2>1, <2>3
  <2> QED
    BY <1>3, <2>2, <2>3
<1>14. LossBounded(c, a)
  <2>1. (c.notional * (-Distance(c.action, c.stop))) \div Entry = atStop
    BY DEF atStop
  <2> HIDE DEF loss
  <2> QED
    BY <1>3, <1>9, <1>11, <1>12, <1>13, <2>1 DEF LossBounded
<1> QED
  BY <1>14

ChainInv ==
    /\ stage = "decide" => ViewGiven(view)
    /\ stage \in {"review", "validate"} => Priced(candidate)
    /\ verdict = "approved" => stage \in {"assemble", "done"} /\ LossIsBounded

(* Every call of the chain keeps the invariant.                                        *)
LEMMA ChainStep == ChainInv /\ [Next]_vars => ChainInv'
<1> SUFFICES ASSUME ChainInv, [Next]_vars PROVE ChainInv'
  OBVIOUS
<1>1. CASE Score
  <2>1. PICK t \in Technicals : view' = Scored(t)
    BY <1>1 DEF Score
  <2> DEFINE signals == StrategySignals(t)
             regime == Regime(t, Aggregate(signals).dir)
             pick == Preferred(signals, regime)
  <2>2. /\ view'.signal = IF pick = "none" THEN Aggregate(signals)
                          ELSE Offer(signals[pick], Leverage(signals[pick].conf))
        /\ view'.atr = t.atr /\ view'.supports = t.supports /\ view'.resistances = t.resistances
    BY <2>1 DEF Scored
  <2>3. AllRated(signals)
    BY StrategiesRated
  <2> HIDE DEF signals, regime
  <2>4. ASSUME pick = "none" PROVE Given(view'.signal)
    BY <2>2, <2>3, <2>4, VoteGiven
  <2>5. ASSUME pick # "none" PROVE Given(view'.signal)
    <3>1. Rated(signals[pick])
      BY <2>3, <2>5, PreferredIsOne DEF AllRated
    <3>2. Leverage(signals[pick].conf) \in Int
      BY LeverageType DEF Leverages
    <3> HIDE DEF pick
    <3> QED
      BY <2>2, <2>5, <3>1, <3>2, OfferGiven
  <2>6. ViewGiven(view')
    BY <2>2, <2>4, <2>5, TechnicalsAssumption DEF ViewGiven
  <2>7. stage = "score" /\ stage' = "decide" /\ verdict' = verdict
    BY <1>1 DEF Score, Keep
  <2> QED
    BY <2>6, <2>7 DEF ChainInv
<1>2. CASE Decide
  <2>1. stage = "decide" /\ verdict' = verdict
        /\ stage' = IF candidate'.action = "HOLD" THEN "done" ELSE "review"
    BY <1>2 DEF Decide, Keep
  <2>2. ViewGiven(view) /\ verdict # "approved"
    BY <2>1 DEF ChainInv
  <2>3. candidate' = Hold \/ Priced(candidate')
    <3>1. \E m, strategy, adjust, risk, noTrade :
             candidate' = Candidate(view, m, strategy, view.signal, view.signal.leverage,
                                    adjust, risk, noTrade)
      BY <1>2 DEF Decide
    <3> QED
      BY <2>2, <3>1, CandidatePriced
  <2>4. Hold.action = "HOLD"
    BY DEF Hold
  <2> QED
    BY <2>1, <2>2, <2>3, <2>4 DEF ChainInv
<1>3. CASE Review
  <2>1. /\ stage = "review" /\ stage' \in {"done", "validate"}
        /\ candidate' = candidate /\ verdict' = verdict
    BY <1>3 DEF Review, Keep
  <2> QED
    BY <2>1 DEF ChainInv
<1>4. CASE Validate
  <2>1. PICK a \in Accounts : /\ account' = a
                              /\ verdict' = Verdict(candidate, a, view.regime)
    BY <1>4 DEF Validate
  <2>2. /\ stage = "validate" /\ candidate' = candidate
        /\ stage' = IF verdict' = "approved" THEN "assemble" ELSE "done"
    BY <1>4 DEF Validate, Keep
  <2>3. verdict' = "approved" => LossBounded(candidate, a)
    BY <2>1, <2>2, ApprovedIsBounded DEF ChainInv
  <2>4. verdict' = "approved" => LossIsBounded'
    BY <2>1, <2>2, <2>3 DEF LossIsBounded, LossBounded
  <2> QED
    BY <2>2, <2>4 DEF ChainInv
<1>5. CASE Assemble
  BY <1>5 DEF Assemble, Keep, ChainInv, LossIsBounded
<1>6. CASE UNCHANGED vars
  BY <1>6 DEF vars, ChainInv, LossIsBounded
<1> QED
  BY <1>1, <1>2, <1>3, <1>4, <1>5, <1>6 DEF Next

(* In every reachable state the candidate that waits for a verdict is priced, and an   *)
(* approved one is bounded.                                                            *)
THEOREM ChainInvariance == Spec => []ChainInv
<1>1. Init => ChainInv
  BY DEF Init, ChainInv
<1> QED
  BY <1>1, ChainStep, PTL DEF Spec

(* LossIsBounded, for any readings of the market and any account: an approved trade    *)
(* loses at its stop no more than the share the user risks and what is left for the    *)
(* day, and reaches the stop before it is liquidated.                                  *)
THEOREM ApprovedIsSafe == Spec => []LossIsBounded
<1>1. ChainInv => LossIsBounded
  BY DEF ChainInv, LossIsBounded
<1> QED
  BY <1>1, ChainInvariance, PTL

--------------------------------------------------------------------------------

(* The six pieces of evidence add up to 66 points at most.                             *)
LEMMA EvidenceSum ==
    ASSUME NEW t, NEW dir
    PROVE  SumFunction(Evidence(t, dir)) \in Nat /\ SumFunction(Evidence(t, dir)) <= 6600
<1> DEFINE e == Evidence(t, dir)
           sum(S) == SumFunctionOnSet(e, S)
<1>1. /\ DOMAIN e = 1 .. 6
      /\ e[1] \in Nat /\ e[2] \in Nat /\ e[3] \in Nat /\ e[4] \in Nat /\ e[5] \in Nat
      /\ e[6] \in Nat /\ e[1] <= 1200 /\ e[2] <= 1200 /\ e[3] <= 1400 /\ e[4] <= 1000
      /\ e[5] <= 1000 /\ e[6] <= 800
  BY DEF Evidence, Bonus, Either
<1>2. SumFunction(e) = sum(1 .. 6)
  BY <1>1 DEF SumFunction
<1> HIDE DEF e
<1>3. \A n \in 0 .. 5 : IsFiniteSet(1 .. n) /\ (1 .. n + 1) = (1 .. n) \cup {n + 1}
  <2> TAKE n \in 0 .. 5
  <2>1. 1 \in Int /\ n \in Int
    OBVIOUS
  <2>2. IsFiniteSet(1 .. n)
    BY <2>1, FS_Interval
  <2> QED
    BY <2>2
<1>4. \A i \in 1 .. 6 : e[i] \in Int
  BY <1>1
<1>5. \A n \in 0 .. 5 : sum(1 .. n + 1) = e[n + 1] + sum(1 .. n)
  <2> TAKE n \in 0 .. 5
  <2>1. IsFiniteSet(1 .. n) /\ (1 .. n + 1) = (1 .. n) \cup {n + 1}
    BY <1>3
  <2>2. (\A i \in 1 .. n : e[i] \in Int) /\ e[n + 1] \in Int /\ n + 1 \notin 1 .. n
    BY <1>4
  <2> QED
    BY <2>1, <2>2, SumWith
<1>6. sum(1 .. 0) = 0
  BY SumEmpty
<1> HIDE DEF sum
<1>7. /\ sum(1 .. 1) = e[1] + sum(1 .. 0) /\ sum(1 .. 2) = e[2] + sum(1 .. 1)
      /\ sum(1 .. 3) = e[3] + sum(1 .. 2) /\ sum(1 .. 4) = e[4] + sum(1 .. 3)
      /\ sum(1 .. 5) = e[5] + sum(1 .. 4) /\ sum(1 .. 6) = e[6] + sum(1 .. 5)
  <2>1. sum(1 .. 0 + 1) = e[0 + 1] + sum(1 .. 0) /\ sum(1 .. 1 + 1) = e[1 + 1] + sum(1 .. 1)
        /\ sum(1 .. 2 + 1) = e[2 + 1] + sum(1 .. 2) /\ sum(1 .. 3 + 1) = e[3 + 1] + sum(1 .. 3)
        /\ sum(1 .. 4 + 1) = e[4 + 1] + sum(1 .. 4) /\ sum(1 .. 5 + 1) = e[5 + 1] + sum(1 .. 5)
    BY <1>5
  <2> QED
    BY <2>1
<1> DEFINE s0 == sum(1 .. 0)  s1 == sum(1 .. 1)  s2 == sum(1 .. 2)  s3 == sum(1 .. 3)
           s4 == sum(1 .. 4)  s5 == sum(1 .. 5)  s6 == sum(1 .. 6)
<1>8. s0 = 0 /\ s1 = e[1] + s0 /\ s2 = e[2] + s1 /\ s3 = e[3] + s2 /\ s4 = e[4] + s3
      /\ s5 = e[5] + s4 /\ s6 = e[6] + s5
  BY <1>6, <1>7
<1> HIDE DEF s0, s1, s2, s3, s4, s5, s6
<1>9. s6 \in Nat /\ s6 <= 6600
  <2>2. s3 \in Nat /\ s3 <= 3800
    BY <1>1, <1>8
  <2> QED
    BY <1>1, <1>8, <2>2
<1> QED
  BY <1>2, <1>9 DEF e, s6

(* A regime takes points away or leaves them.                                          *)
LEMMA DampingType == ASSUME NEW dir, NEW regime PROVE Damping(dir, regime) \in {55, 60, 65, 70, 100}
BY DEF Damping

(* A share of a number is at most the number.                                          *)
LEMMA Hundredth ==
    ASSUME NEW x \in Nat, NEW d \in 0 .. 100
    PROVE  Hundredths(x, d) \in Nat /\ Hundredths(x, d) <= x
<1> DEFINE y == x * d
<1>1. y \in Nat /\ y <= 100 * x
  BY ProductsGrow
<1> HIDE DEF y
<1>2. y \div 100 \in Nat /\ y \div 100 <= x
  BY <1>1, Z3
<1> QED
  BY <1>2 DEF Hundredths, y

\* A regime in which the code trades the direction.
Suits(regime, dir) == regime = "RANGE" \/ regime = Favours(dir, "TREND_UP", "TREND_DOWN")

(* In a regime that does not suit the direction, the chart gives it 66 points at most. *)
LEMMA ChartBounded ==
    ASSUME NEW t, NEW dir, NEW regime, ~Suits(regime, dir)
    PROVE  ChartScore(t, dir, regime) \in Nat /\ ChartScore(t, dir, regime) <= 6600
<1> DEFINE evidence == Evidence(t, dir)
           sum == SumFunction(evidence)
           score == Hundredths(sum + Setup(t, dir, regime), Damping(dir, regime))
           lone == Count([i \in DOMAIN evidence |-> evidence[i] > 0]) = 1
<1>1. ChartScore(t, dir, regime) = Bound(Either(lone, Hundredths(score, 55), score), 0, 10000)
  BY DEF ChartScore
<1>2. sum \in Nat /\ sum <= 6600
  BY EvidenceSum
<1>3. Setup(t, dir, regime) = 0
  BY DEF Setup, Suits, Bonus
<1> HIDE DEF sum, lone
<1>4. score \in Nat /\ score <= 6600
  <2>1. Damping(dir, regime) \in 0 .. 100
    BY DampingType
  <2>2. sum + Setup(t, dir, regime) = sum
    BY <1>2, <1>3
  <2>3. sum \in Nat
    BY <1>2
  <2> DEFINE damping == Damping(dir, regime)
  <2>4. score = Hundredths(sum, damping) /\ damping \in 0 .. 100
    BY <2>1, <2>2
  <2> HIDE DEF damping, score
  <2>5. Hundredths(sum, damping) \in Nat /\ Hundredths(sum, damping) <= sum
    BY <2>3, <2>4, Hundredth
  <2> QED
    BY <1>2, <2>4, <2>5
<1> HIDE DEF score
<1>5. Hundredths(score, 55) \in Nat /\ Hundredths(score, 55) <= 6600
  <2>1. score \in Nat /\ 55 \in 0 .. 100
    BY <1>4
  <2>2. Hundredths(score, 55) \in Nat /\ Hundredths(score, 55) <= score
    BY <2>1, Hundredth
  <2> QED
    BY <1>4, <2>2
<1>6. /\ Either(lone, Hundredths(score, 55), score) \in Nat
      /\ Either(lone, Hundredths(score, 55), score) <= 6600
  BY <1>4, <1>5 DEF Either
<1> DEFINE points == Either(lone, Hundredths(score, 55), score)
<1>7. ChartScore(t, dir, regime) = Bound(points, 0, 10000) /\ points \in Nat /\ points <= 6600
  BY <1>1, <1>6
<1> HIDE DEF points
<1> QED
  BY <1>7 DEF Bound

(* The derivatives market adds 8 points at most: what it adds for joining a rise and   *)
(* what it adds for a crowd of shorts exclude each other.                              *)
LEMMA DerivativesBounded ==
    ASSUME NEW m, NEW v, v.change \in Int, NEW regime, NEW dir \in {"LONG", "SHORT"}
    PROVE  Derivatives(m, v, regime)[dir] \in Int /\ Derivatives(m, v, regime)[dir] <= 800
<1> DEFINE rising    == v.change > 25 /\ m.openInterest > 50
           falling   == v.change < -25 /\ m.openInterest > 50
           hotLong   == rising  /\ m.funding >= 10  /\ Crowded(m) = "LONG"
           hotShort  == falling /\ m.funding <= -10 /\ Crowded(m) = "SHORT"
           squeeze(d) == m.openInterest <= -200 /\ v.change * Sign(d) >= 200
           joined    == rising /\ m.funding \in -3 .. 3
           long  == Bonus(joined, 800)
                   - Either(hotLong, 1400, Bonus(m.funding >= 10, 600))
                   + Bonus(hotShort, 400) - Bonus(squeeze("SHORT"), 400)
           short == Bonus(hotLong, 400)
                   - Either(hotShort, 1400, Bonus(m.funding <= -10, 600))
                   - Bonus(squeeze("LONG"), 400)
<1>1. ~(joined /\ hotShort)
  OBVIOUS
<1> HIDE DEF joined, hotShort, hotLong, squeeze
<1>2. long \in Int /\ long <= 800 /\ short \in Int /\ short <= 800
  BY <1>1 DEF Bonus, Either
<1>3. ~m.known => Derivatives(m, v, regime)[dir] = 0
  BY DEF Derivatives
<1>4. m.known => /\ Derivatives(m, v, regime)["LONG"] = long
                 /\ Derivatives(m, v, regime)["SHORT"] = short
  BY DEF Derivatives, joined, hotShort, hotLong, squeeze
<1> HIDE DEF long, short
<1> QED
  BY <1>2, <1>3, <1>4

\* The view's scores are those of a direction its regime suits, or low.
ScoresLow(v) ==
    /\ v.change \in Int
    /\ \A dir \in {"LONG", "SHORT"} : ~Suits(v.regime, dir) => v[dir] \in Nat /\ v[dir] <= 6600

(* An order has a regime that suits it, whatever the strategy and the risk.            *)
LEMMA CandidateSuits ==
    ASSUME MinScore > 7400, NEW v, ScoresLow(v), NEW m, NEW strategy, NEW signal,
           NEW leverageAsked, NEW risk, NEW noTrade,
           NEW c, c = Candidate(v, m, strategy, signal, leverageAsked,
                                Derivatives(m, v, v.regime), risk, noTrade),
           c.action # "HOLD"
    PROVE  Suits(v.regime, c.action)
<1> DEFINE adjust == Derivatives(m, v, v.regime)
           points(d) == Bound(v[d] + adjust[d], 0, 10000)
           strong(d) == points(d) >= MinScore
           dir == IF strong("LONG") THEN "LONG" ELSE "SHORT"
<1>1. c.action \in {"HOLD", dir} /\ (strong("LONG") = strong("SHORT") => c.action = "HOLD")
      /\ strong("LONG") \in BOOLEAN /\ strong("SHORT") \in BOOLEAN
  BY DEF Candidate, Hold
<1>2. ASSUME NEW d \in {"LONG", "SHORT"}, strong(d) PROVE Suits(v.regime, d)
  <2> SUFFICES ASSUME ~Suits(v.regime, d) PROVE FALSE
    OBVIOUS
  <2>1. v[d] \in Nat /\ v[d] <= 6600 /\ v.change \in Int
    BY DEF ScoresLow
  <2>2. adjust[d] \in Int /\ adjust[d] <= 800
    BY <2>1, DerivativesBounded
  <2> HIDE DEF adjust
  <2>3. v[d] + adjust[d] \in Int /\ v[d] + adjust[d] <= 7400
    BY <2>1, <2>2
  <2>4. points(d) \in Int /\ points(d) <= 7400
    BY <2>3 DEF Bound
  <2> HIDE DEF points
  <2>5. MinScore \in Int
    BY MinScoreAssumption
  <2> QED
    BY <1>2, <2>4, <2>5
<1> HIDE DEF strong
<1>3. c.action = dir /\ strong(dir)
  BY <1>1
<1>4. dir \in {"LONG", "SHORT"}
  OBVIOUS
<1> HIDE DEF dir
<1> QED
  BY <1>2, <1>3, <1>4

RegimeInv ==
    /\ stage \in {"score", "decide"} => candidate = Hold
    /\ stage = "decide" => ScoresLow(view)
    /\ TradesFollowTheRegime

(* Every call of the chain keeps that.                                                 *)
LEMMA RegimeStep == ASSUME MinScore > 7400, RegimeInv, [Next]_vars PROVE RegimeInv'
<1>1. CASE Score
  <2>1. PICK t \in Technicals : view' = Scored(t)
    BY <1>1 DEF Score
  <2> DEFINE regime == Regime(t, Aggregate(StrategySignals(t)).dir)
  <2>2. /\ view'.regime = regime /\ view'["LONG"] = ChartScore(t, "LONG", regime)
        /\ view'["SHORT"] = ChartScore(t, "SHORT", regime) /\ view'.change = t.change
    BY <2>1 DEF Scored
  <2> HIDE DEF regime
  <2>3. ScoresLow(view')
    BY <2>2, ChartBounded, TechnicalsAssumption DEF ScoresLow
  <2>4. stage = "score" /\ stage' = "decide" /\ candidate' = candidate /\ Hold.action = "HOLD"
    BY <1>1 DEF Score, Keep, Hold
  <2> QED
    BY <2>3, <2>4 DEF RegimeInv, TradesFollowTheRegime
<1>2. CASE Decide
  <2>1. PICK m, strategy, risk, noTrade :
           candidate' = Candidate(view, m, strategy, view.signal, view.signal.leverage,
                                  Derivatives(m, view, view.regime), risk, noTrade)
    BY <1>2 DEF Decide
  <2>2. /\ stage = "decide" /\ stage' \in {"done", "review"} /\ view' = [regime |-> view.regime]
    BY <1>2 DEF Decide
  <2>3. candidate'.action # "HOLD" => Suits(view.regime, candidate'.action)
    BY <2>1, <2>2, CandidateSuits DEF RegimeInv
  <2>4. view'.regime = view.regime
    BY <2>2
  <2> QED
    BY <2>2, <2>3, <2>4 DEF RegimeInv, TradesFollowTheRegime, Suits
<1>3. CASE Review \/ Validate \/ Assemble
  <2>1. view' = view /\ candidate' = candidate /\ stage' \notin {"score", "decide"}
    <3>1. CASE Review
      BY <3>1 DEF Review, Keep
    <3>2. CASE Validate
      BY <3>2 DEF Validate, Keep
    <3>3. CASE Assemble
      BY <3>3 DEF Assemble, Keep
    <3> QED
      BY <1>3, <3>1, <3>2, <3>3
  <2> QED
    BY <2>1 DEF RegimeInv, TradesFollowTheRegime
<1>4. CASE UNCHANGED vars
  BY <1>4 DEF vars, RegimeInv, TradesFollowTheRegime
<1> QED
  BY <1>1, <1>2, <1>3, <1>4 DEF Next

(* TradesFollowTheRegime, for any readings, as long as a direction needs more than 74  *)
(* points (the default asks for 75): no order is made against the trend or without a   *)
(* regime.                                                                             *)
THEOREM TradesFollow == ASSUME MinScore > 7400 PROVE Spec => []TradesFollowTheRegime
<1>1. Init => RegimeInv
  BY DEF Init, RegimeInv, TradesFollowTheRegime, Hold
<1>2. RegimeInv /\ [Next]_vars => RegimeInv'
  BY RegimeStep
<1>3. RegimeInv => TradesFollowTheRegime
  BY DEF RegimeInv
<1> QED
  BY <1>1, <1>2, <1>3, PTL DEF Spec

--------------------------------------------------------------------------------
(* Moving averages: they exist, and those of opposite values are opposite.            *)

(* A share of a whole number is whole, as large either side of zero, and not          *)
(* negative of a natural one.                                                         *)
LEMMA ShareIs ==
    ASSUME NEW x \in Int, NEW a \in Nat \ {0}
    PROVE  /\ Share(x, a) \in Int /\ Share(-x, a) = -Share(x, a)
           /\ x >= 0 => Share(x, a) >= 0
<1>1. x \div a \in Int /\ (-x) \div a \in Int /\ 0 \div a = 0
  BY Z3
<1>2. x >= 0 => x \div a >= 0
  BY Z3
<1>3. -(-x) = x
  OBVIOUS
<1> QED BY <1>1, <1>2, <1>3 DEF Share

(* A product with an opposite number.                                                 *)
LEMMA OppositeProduct == ASSUME NEW k \in Int, NEW v \in Int PROVE k * v \in Int /\ k * (-v) = -(k * v)
OBVIOUS

(* y is the moving average of xs.                                                     *)
IsEwm(y, xs, a) ==
    y = [i \in DOMAIN xs |-> IF i = 1 THEN xs[1] ELSE Share((a - 1) * y[i - 1] + xs[i], a)]

(* The average is one: the equation has a solution.                                   *)
LEMMA EwmIs ==
    ASSUME NEW N \in Nat, NEW xs \in [1 .. N -> Int], NEW a \in Nat \ {0}
    PROVE  IsEwm(Ewm(xs, a), xs, a)
<1> DEFINE f == [n \in 1 .. N |-> [v \in Int |-> IF n = 1 THEN xs[1]
                                                  ELSE Share((a - 1) * v + xs[n], a)]]
<1>1. f \in [1 .. N -> [Int -> Int]]
  <2> SUFFICES ASSUME NEW n \in 1 .. N, NEW v \in Int
               PROVE  xs[1] \in Int /\ Share((a - 1) * v + xs[n], a) \in Int
    OBVIOUS
  <2>1. 1 \in 1 .. N /\ xs[n] \in Int /\ a - 1 \in Int
    OBVIOUS
  <2>2. (a - 1) * v + xs[n] \in Int
    BY <2>1, OppositeProduct
  <2> QED BY <2>1, <2>2, ShareIs
<1>2. PICK h : IsPass(h, N, Int, 0, f)
  <2>1. 0 \in Int
    OBVIOUS
  <2> HIDE DEF f
  <2> QED BY <1>1, <2>1, PassExists, Zenon
<1> DEFINE y == [i \in 1 .. N |-> h[i]]
<1>3. IsEwm(y, xs, a)
  <2>1. ASSUME NEW i \in 1 .. N
        PROVE  y[i] = IF i = 1 THEN xs[1] ELSE Share((a - 1) * y[i - 1] + xs[i], a)
    <3>0. h \in [0 .. N -> Int] /\ h[i] = f[i][h[i - 1]]
      <4> HIDE DEF f
      <4> QED BY <1>2 DEF IsPass
    <3>1. i - 1 \in 0 .. N /\ h[i - 1] \in Int
      BY <3>0
    <3>2. i # 1 => y[i - 1] = h[i - 1]
      OBVIOUS
    <3> QED BY <3>0, <3>1, <3>2
  <2>2. DOMAIN xs = 1 .. N
    OBVIOUS
  <2>3. y = [i \in 1 .. N |-> y[i]]
    OBVIOUS
  <2> HIDE DEF y
  <2> QED BY <2>1, <2>2, <2>3 DEF IsEwm
<1> HIDE DEF y
<1> DEFINE z == CHOOSE z : IsEwm(z, xs, a)
<1>4. IsEwm(z, xs, a)
  BY <1>3
<1>5. Ewm(xs, a) = z
  BY DEF Ewm, IsEwm
<1> QED BY <1>4, <1>5

(* The first average is the first value, and each other a share of the one before.    *)
LEMMA EwmSteps ==
    ASSUME NEW N \in Nat, NEW xs \in [1 .. N -> Int], NEW a \in Nat \ {0}
    PROVE  /\ Ewm(xs, a) \in [1 .. N -> Int]
           /\ N > 0 => Ewm(xs, a)[1] = xs[1]
           /\ \A i \in 1 .. N : i # 1 =>
                Ewm(xs, a)[i] = Share((a - 1) * Ewm(xs, a)[i - 1] + xs[i], a)
<1> DEFINE y == Ewm(xs, a)
<1>1. DOMAIN xs = 1 .. N
  OBVIOUS
<1>2. y = [i \in 1 .. N |-> IF i = 1 THEN xs[1] ELSE Share((a - 1) * y[i - 1] + xs[i], a)]
  BY <1>1, EwmIs DEF IsEwm
<1> HIDE DEF y
<1>3. \A i \in 1 .. N : y[i] = IF i = 1 THEN xs[1] ELSE Share((a - 1) * y[i - 1] + xs[i], a)
  BY <1>2, Zenon
<1>4. DOMAIN y = 1 .. N /\ y = [i \in 1 .. N |-> y[i]]
  BY <1>2, Zenon
<1> DEFINE F == {n \in Nat : n \in 1 .. N => y[n] \in Int}
<1>5. 0 \in F
  OBVIOUS
<1>6. ASSUME NEW n \in Nat, n \in F PROVE n + 1 \in F
  <2> SUFFICES ASSUME n + 1 \in 1 .. N PROVE y[n + 1] \in Int
    OBVIOUS
  <2>1. CASE n = 0
    BY <1>3, <2>1
  <2>2. CASE n # 0
    <3>1. n \in 1 .. N /\ n + 1 # 1 /\ n + 1 - 1 = n
      BY <2>2
    <3>2. y[n] \in Int
      BY <1>6, <3>1
    <3>3. y[n + 1] = Share((a - 1) * y[n] + xs[n + 1], a)
      BY <1>3, <3>1
    <3>4. (a - 1) * y[n] + xs[n + 1] \in Int
      BY <3>2, OppositeProduct
    <3> QED BY <3>3, <3>4, ShareIs
  <2> QED BY <2>1, <2>2
<1> HIDE DEF F
<1>7. \A n \in Nat : n \in F
  BY <1>5, <1>6, AllNumbers
<1>8. \A n \in 1 .. N : y[n] \in Int
  BY <1>7 DEF F
<1>9. y \in [1 .. N -> Int]
  BY <1>4, <1>8, Zenon
<1>10. N > 0 => y[1] = xs[1]
  BY <1>3
<1> QED BY <1>3, <1>9, <1>10 DEF y

(* The averages of natural numbers are natural ...                                    *)
LEMMA EwmNatural ==
    ASSUME NEW N \in Nat, NEW xs \in [1 .. N -> Nat], NEW a \in Nat \ {0}
    PROVE  Ewm(xs, a) \in [1 .. N -> Nat]
<1> DEFINE y == Ewm(xs, a)
<1>1. xs \in [1 .. N -> Int]
  OBVIOUS
<1>2. /\ y \in [1 .. N -> Int] /\ (N > 0 => y[1] = xs[1])
      /\ \A i \in 1 .. N : i # 1 => y[i] = Share((a - 1) * y[i - 1] + xs[i], a)
  BY <1>1, EwmSteps
<1> HIDE DEF y
<1> DEFINE F == {n \in Nat : n \in 1 .. N => y[n] \in Nat}
<1>5. 0 \in F
  OBVIOUS
<1>6. ASSUME NEW n \in Nat, n \in F PROVE n + 1 \in F
  <2> SUFFICES ASSUME n + 1 \in 1 .. N PROVE y[n + 1] \in Nat
    OBVIOUS
  <2>1. CASE n = 0
    BY <1>2, <2>1
  <2>2. CASE n # 0
    <3>1. n \in 1 .. N /\ n + 1 # 1 /\ n + 1 - 1 = n
      BY <2>2
    <3>2. y[n] \in Nat /\ a - 1 \in Nat /\ xs[n + 1] \in Nat
      BY <1>6, <3>1
    <3>3. y[n + 1] = Share((a - 1) * y[n] + xs[n + 1], a)
      BY <1>2, <3>1
    <3>4. (a - 1) * y[n] \in Nat
      BY <3>2, Products
    <3>5. (a - 1) * y[n] + xs[n + 1] \in Int /\ (a - 1) * y[n] + xs[n + 1] >= 0
      BY <3>2, <3>4
    <3>6. Share((a - 1) * y[n] + xs[n + 1], a) \in Int /\ Share((a - 1) * y[n] + xs[n + 1], a) >= 0
      BY <3>5, ShareIs
    <3> QED BY <3>3, <3>6
  <2> QED BY <2>1, <2>2
<1> HIDE DEF F
<1>7. \A n \in Nat : n \in F
  BY <1>5, <1>6, AllNumbers
<1>8. \A n \in 1 .. N : y[n] \in Nat
  BY <1>7 DEF F
<1>9. y \in [1 .. N -> Nat]
  BY <1>2, <1>8
<1> QED BY <1>9 DEF y

(* ... and those of the opposite values are opposite.                                 *)
LEMMA EwmOpposite ==
    ASSUME NEW N \in Nat, NEW xs \in [1 .. N -> Int], NEW zs \in [1 .. N -> Int],
           \A i \in 1 .. N : zs[i] = -xs[i], NEW a \in Nat \ {0}
    PROVE  \A i \in 1 .. N : Ewm(zs, a)[i] = -Ewm(xs, a)[i]
<1> DEFINE y == Ewm(xs, a)
           z == Ewm(zs, a)
<1>1. /\ y \in [1 .. N -> Int] /\ (N > 0 => y[1] = xs[1])
      /\ \A i \in 1 .. N : i # 1 => y[i] = Share((a - 1) * y[i - 1] + xs[i], a)
  BY EwmSteps
<1>2. /\ z \in [1 .. N -> Int] /\ (N > 0 => z[1] = zs[1])
      /\ \A i \in 1 .. N : i # 1 => z[i] = Share((a - 1) * z[i - 1] + zs[i], a)
  BY EwmSteps
<1> HIDE DEF y, z
<1> DEFINE F == {n \in Nat : n \in 1 .. N => z[n] = -y[n]}
<1>5. 0 \in F
  OBVIOUS
<1>6. ASSUME NEW n \in Nat, n \in F PROVE n + 1 \in F
  <2> SUFFICES ASSUME n + 1 \in 1 .. N PROVE z[n + 1] = -y[n + 1]
    OBVIOUS
  <2>1. CASE n = 0
    BY <1>1, <1>2, <2>1
  <2>2. CASE n # 0
    <3>1. n \in 1 .. N /\ n + 1 # 1 /\ n + 1 - 1 = n
      BY <2>2
    <3>2. /\ y[n] \in Int /\ z[n] = -y[n] /\ a - 1 \in Int
          /\ xs[n + 1] \in Int /\ zs[n + 1] = -xs[n + 1]
      <4>1. z[n] = -y[n]
        BY <1>6, <3>1
      <4>2. y[n] \in Int
        BY <1>1, <3>1
      <4>3. xs[n + 1] \in Int /\ zs[n + 1] = -xs[n + 1]
        OBVIOUS
      <4> QED BY <4>1, <4>2, <4>3
    <3> DEFINE x == (a - 1) * y[n] + xs[n + 1]
    <3>3. y[n + 1] = Share(x, a)
      BY <1>1, <3>1
    <3>4. z[n + 1] = Share((a - 1) * z[n] + zs[n + 1], a)
      BY <1>2, <3>1
    <3>5. x \in Int /\ (a - 1) * z[n] + zs[n + 1] = -x
      <4>1. (a - 1) * y[n] \in Int /\ (a - 1) * (-y[n]) = -((a - 1) * y[n])
        BY <3>2, OppositeProduct
      <4>2. (a - 1) * z[n] = (a - 1) * (-y[n])
        BY <3>2
      <4> QED BY <3>2, <4>1, <4>2
    <3> HIDE DEF x
    <3> QED BY <3>3, <3>4, <3>5, ShareIs
  <2> QED BY <2>1, <2>2
<1> HIDE DEF F
<1>7. \A n \in Nat : n \in F
  BY <1>5, <1>6, AllNumbers
<1>8. \A n \in 1 .. N : z[n] = -y[n]
  BY <1>7 DEF F
<1> QED BY <1>8 DEF y, z

--------------------------------------------------------------------------------
(* A chart upside down, figure by figure: what comes from the closes ...              *)

(* The newest of N values is the last.                                                *)
LEMMA NewestIs ==
    ASSUME NEW N \in Nat, NEW S, NEW xs \in [1 .. N -> S]
    PROVE  Len(xs) = N /\ DOMAIN xs = 1 .. N /\ Newest(xs) = xs[N]
BY DEF Newest

(* ds are the opposite of the closes cs.                                              *)
Opposed(N, cs, ds) ==
    /\ N \in Nat /\ cs \in [1 .. N -> Int] /\ ds \in [1 .. N -> Int]
    /\ \A i \in 1 .. N : ds[i] = -cs[i]

Moves(xs) == [i \in 1 .. Len(xs) - 1 |-> xs[i + 1] - xs[i]]
Gains(xs) == LET m == Moves(xs) IN [i \in DOMAIN m |-> Scale * Positive(m[i])]
Losses(xs) == LET m == Moves(xs) IN [i \in DOMAIN m |-> Scale * Positive(-m[i])]

(* Gains and losses are natural numbers, one a move.                                  *)
LEMMA MovesAre ==
    ASSUME NEW N \in Nat \ {0}, NEW xs \in [1 .. N -> Int]
    PROVE  /\ Moves(xs) \in [1 .. N - 1 -> Int]
           /\ \A i \in 1 .. N - 1 : Moves(xs)[i] = xs[i + 1] - xs[i]
           /\ Gains(xs) \in [1 .. N - 1 -> Nat] /\ Losses(xs) \in [1 .. N - 1 -> Nat]
           /\ \A i \in 1 .. N - 1 : /\ Gains(xs)[i] = Scale * Positive(Moves(xs)[i])
                                     /\ Losses(xs)[i] = Scale * Positive(-Moves(xs)[i])
<1> DEFINE m == Moves(xs)
<1>1. Len(xs) = N
  BY NewestIs
<1>2. m \in [1 .. N - 1 -> Int] /\ \A i \in 1 .. N - 1 : m[i] = xs[i + 1] - xs[i]
  <2>1. \A i \in 1 .. N - 1 : i \in 1 .. N /\ i + 1 \in 1 .. N
    OBVIOUS
  <2>2. m = [i \in 1 .. N - 1 |-> xs[i + 1] - xs[i]]
    BY <1>1 DEF Moves
  <2> HIDE DEF m
  <2> QED BY <2>1, <2>2
<1> HIDE DEF m
<1>3. \A x \in Int : Scale * Positive(x) \in Nat
  BY ScaleAssumption DEF Positive
<1>4. DOMAIN m = 1 .. N - 1 /\ \A i \in 1 .. N - 1 : m[i] \in Int /\ -m[i] \in Int
  BY <1>2
<1>5. /\ Gains(xs) = [i \in 1 .. N - 1 |-> Scale * Positive(m[i])]
      /\ Losses(xs) = [i \in 1 .. N - 1 |-> Scale * Positive(-m[i])]
  BY <1>4, Zenon DEF Gains, Losses, m
<1>6. /\ Gains(xs) \in [1 .. N - 1 -> Nat] /\ Losses(xs) \in [1 .. N - 1 -> Nat]
      /\ \A i \in 1 .. N - 1 : /\ Gains(xs)[i] = Scale * Positive(m[i])
                                /\ Losses(xs)[i] = Scale * Positive(-m[i])
  BY <1>3, <1>4, <1>5, Zenon
<1> QED BY <1>2, <1>6 DEF m

(* RSI without the definitions inside it.                                             *)
LEMMA RsiIs ==
    ASSUME NEW N \in Nat, N >= 2, NEW xs \in [1 .. N -> Int]
    PROVE  \E g, l \in Nat :
             /\ g = Ewm(Gains(xs), RsiPeriod)[N - 1] /\ l = Ewm(Losses(xs), RsiPeriod)[N - 1]
             /\ Rsi(xs) = IF N < RsiPeriod + 1 \/ g + l = 0 THEN RsiUnknown
                          ELSE [gain |-> g, loss |-> l]
<1> DEFINE g == Ewm(Gains(xs), RsiPeriod)
           l == Ewm(Losses(xs), RsiPeriod)
<1>1. N - 1 \in Nat /\ N - 1 \in 1 .. N - 1 /\ RsiPeriod \in Nat \ {0} /\ Len(xs) = N
  BY PeriodsAssumption, NewestIs
<1>2. Gains(xs) \in [1 .. N - 1 -> Nat] /\ Losses(xs) \in [1 .. N - 1 -> Nat]
  BY MovesAre
<1>3. g \in [1 .. N - 1 -> Nat] /\ l \in [1 .. N - 1 -> Nat]
  BY <1>1, <1>2, EwmNatural
<1>4. Newest(g) = g[N - 1] /\ Newest(l) = l[N - 1] /\ g[N - 1] \in Nat /\ l[N - 1] \in Nat
  <2> HIDE DEF g, l
  <2> QED BY <1>1, <1>3, NewestIs
<1>5. Rsi(xs) = IF N < RsiPeriod + 1 \/ Newest(g) + Newest(l) = 0 THEN RsiUnknown
                ELSE [gain |-> Newest(g), loss |-> Newest(l)]
  BY <1>1, Zenon DEF Rsi, Gains, Losses, Moves
<1> HIDE DEF g, l
<1>6. Rsi(xs) = IF N < RsiPeriod + 1 \/ g[N - 1] + l[N - 1] = 0 THEN RsiUnknown
                ELSE [gain |-> g[N - 1], loss |-> l[N - 1]]
  BY <1>4, <1>5
<1> QED BY <1>4, <1>6 DEF g, l

(* Rises are the other chart's falls.                                                 *)
LEMMA RsiTurned ==
    ASSUME NEW N, NEW cs, NEW ds, Opposed(N, cs, ds), N >= 2
    PROVE  \E g, l \in Nat : /\ g + l > 0 /\ Rsi(cs) = [gain |-> g, loss |-> l]
                              /\ Rsi(ds) = [gain |-> l, loss |-> g]
<1>1. N \in Nat /\ cs \in [1 .. N -> Int] /\ ds \in [1 .. N -> Int] /\ \A i \in 1 .. N : ds[i] = -cs[i]
  BY DEF Opposed
<1>0. N \in Nat \ {0} /\ cs \in [1 .. N -> Int] /\ ds \in [1 .. N -> Int]
  BY <1>1
<1>2. \A i \in 1 .. N - 1 : Moves(ds)[i] = -Moves(cs)[i] /\ Moves(cs)[i] \in Int
  <2>1. \A i \in 1 .. N - 1 : i \in 1 .. N /\ i + 1 \in 1 .. N
    BY <1>1
  <2>2. \A i \in 1 .. N - 1 : Moves(ds)[i] = ds[i + 1] - ds[i] /\ Moves(cs)[i] = cs[i + 1] - cs[i]
    <3>1. \A i \in 1 .. N - 1 : Moves(ds)[i] = ds[i + 1] - ds[i]
      BY <1>0, MovesAre
    <3>2. \A i \in 1 .. N - 1 : Moves(cs)[i] = cs[i + 1] - cs[i]
      BY <1>0, MovesAre
    <3> QED BY <3>1, <3>2
  <2>3. \A i \in 1 .. N : cs[i] \in Int
    BY <1>1
  <2>4. ASSUME NEW i \in 1 .. N - 1 PROVE Moves(ds)[i] = -Moves(cs)[i] /\ Moves(cs)[i] \in Int
    <3>1. i \in 1 .. N /\ i + 1 \in 1 .. N
      BY <2>1
    <3>2. /\ ds[i + 1] = -cs[i + 1] /\ ds[i] = -cs[i]
          /\ cs[i + 1] \in Int /\ cs[i] \in Int
      BY <1>1, <2>3, <3>1
    <3> QED BY <2>2, <3>2
  <2> QED BY <2>4
<1>3. \A x \in Int : -(-x) = x
  OBVIOUS
<1>4. Gains(ds) = Losses(cs) /\ Losses(ds) = Gains(cs)
  <2>1. \A i \in 1 .. N - 1 : Gains(ds)[i] = Losses(cs)[i] /\ Losses(ds)[i] = Gains(cs)[i]
    <3>1. ASSUME NEW i \in 1 .. N - 1
          PROVE  /\ Gains(ds)[i] = Scale * Positive(Moves(ds)[i])
                 /\ Losses(ds)[i] = Scale * Positive(-Moves(ds)[i])
                 /\ Gains(cs)[i] = Scale * Positive(Moves(cs)[i])
                 /\ Losses(cs)[i] = Scale * Positive(-Moves(cs)[i])
      <4>1. \A k \in 1 .. N - 1 : /\ Gains(ds)[k] = Scale * Positive(Moves(ds)[k])
                                   /\ Losses(ds)[k] = Scale * Positive(-Moves(ds)[k])
        BY <1>0, MovesAre
      <4>2. \A k \in 1 .. N - 1 : /\ Gains(cs)[k] = Scale * Positive(Moves(cs)[k])
                                   /\ Losses(cs)[k] = Scale * Positive(-Moves(cs)[k])
        BY <1>0, MovesAre
      <4> QED BY <4>1, <4>2
    <3> QED BY <1>2, <1>3, <3>1
  <2>2. /\ Gains(ds) \in [1 .. N - 1 -> Nat] /\ Losses(ds) \in [1 .. N - 1 -> Nat]
        /\ Gains(cs) \in [1 .. N - 1 -> Nat] /\ Losses(cs) \in [1 .. N - 1 -> Nat]
    BY <1>0, MovesAre
  <2>0. \A f, g \in [1 .. N - 1 -> Nat] : (\A i \in 1 .. N - 1 : f[i] = g[i]) => f = g
    BY <1>0
  <2>3. Gains(ds) = Losses(cs)
    <3>1. \A i \in 1 .. N - 1 : Gains(ds)[i] = Losses(cs)[i]
      BY <2>1
    <3>2. Gains(ds) \in [1 .. N - 1 -> Nat] /\ Losses(cs) \in [1 .. N - 1 -> Nat]
      BY <2>2
    <3> QED BY <3>1, <3>2, <2>0
  <2>4. Losses(ds) = Gains(cs)
    <3>1. \A i \in 1 .. N - 1 : Losses(ds)[i] = Gains(cs)[i]
      BY <2>1
    <3>2. Losses(ds) \in [1 .. N - 1 -> Nat] /\ Gains(cs) \in [1 .. N - 1 -> Nat]
      BY <2>2
    <3> QED BY <3>1, <3>2, <2>0
  <2> QED BY <2>3, <2>4
<1>5. PICK g \in Nat, l \in Nat :
             /\ g = Ewm(Gains(cs), RsiPeriod)[N - 1] /\ l = Ewm(Losses(cs), RsiPeriod)[N - 1]
             /\ Rsi(cs) = IF N < RsiPeriod + 1 \/ g + l = 0 THEN RsiUnknown
                          ELSE [gain |-> g, loss |-> l]
  BY <1>1, RsiIs
<1>6. PICK p \in Nat, q \in Nat :
             /\ p = Ewm(Gains(ds), RsiPeriod)[N - 1] /\ q = Ewm(Losses(ds), RsiPeriod)[N - 1]
             /\ Rsi(ds) = IF N < RsiPeriod + 1 \/ p + q = 0 THEN RsiUnknown
                          ELSE [gain |-> p, loss |-> q]
  BY <1>1, RsiIs
<1>7. p = l /\ q = g
  BY <1>4, <1>5, <1>6
<1>8. CASE N < RsiPeriod + 1 \/ g + l = 0
  <2>1. Rsi(cs) = [gain |-> 1, loss |-> 1] /\ Rsi(ds) = [gain |-> 1, loss |-> 1]
    BY <1>5, <1>6, <1>7, <1>8 DEF RsiUnknown
  <2>2. 1 \in Nat /\ 1 + 1 > 0
    OBVIOUS
  <2> QED BY <2>1, <2>2
<1>9. CASE ~(N < RsiPeriod + 1 \/ g + l = 0)
  <2>1. g + l > 0
    BY <1>9
  <2> QED BY <1>5, <1>6, <1>7, <1>9, <2>1
<1> QED BY <1>8, <1>9

(* Scaled values are whole numbers.                                                   *)
LEMMA ScaledIs ==
    ASSUME NEW N \in Nat, NEW xs \in [1 .. N -> Int]
    PROVE  /\ Scaled(xs) \in [1 .. N -> Int] /\ \A i \in 1 .. N : Scaled(xs)[i] = Scale * xs[i]
<1>1. DOMAIN xs = 1 .. N /\ \A i \in 1 .. N : xs[i] \in Int /\ Scale * xs[i] \in Int
  BY ScaleAssumption, OppositeProduct
<1>2. Scaled(xs) = [i \in 1 .. N |-> Scale * xs[i]]
  BY <1>1 DEF Scaled
<1> QED BY <1>1, <1>2

(* The averages of opposite closes are opposite.                                      *)
LEMMA AveragesTurned ==
    ASSUME NEW N, NEW cs, NEW ds, Opposed(N, cs, ds), NEW a \in Nat \ {0}
    PROVE  Opposed(N, Ewm(Scaled(cs), a), Ewm(Scaled(ds), a))
<1>1. N \in Nat /\ cs \in [1 .. N -> Int] /\ ds \in [1 .. N -> Int] /\ \A i \in 1 .. N : ds[i] = -cs[i]
  BY DEF Opposed
<1>2. Scaled(cs) \in [1 .. N -> Int] /\ Scaled(ds) \in [1 .. N -> Int]
  BY <1>1, ScaledIs
<1>3. ASSUME NEW i \in 1 .. N PROVE Scaled(ds)[i] = -Scaled(cs)[i]
  <2>1. Scaled(ds)[i] = Scale * ds[i] /\ Scaled(cs)[i] = Scale * cs[i]
    BY <1>1, ScaledIs
  <2>2. cs[i] \in Int /\ ds[i] = -cs[i] /\ Scale \in Int
    BY <1>1, ScaleAssumption
  <2> QED BY <2>1, <2>2, OppositeProduct
<1>4. Ewm(Scaled(cs), a) \in [1 .. N -> Int] /\ Ewm(Scaled(ds), a) \in [1 .. N -> Int]
  BY <1>1, <1>2, EwmSteps
<1>5. \A i \in 1 .. N : Ewm(Scaled(ds), a)[i] = -Ewm(Scaled(cs), a)[i]
  BY <1>1, <1>2, <1>3, EwmOpposite
<1> QED BY <1>1, <1>4, <1>5 DEF Opposed

(* Differences of opposite values are opposite.                                       *)
LEMMA LinesTurned ==
    ASSUME NEW N, NEW f, NEW s, NEW f2, NEW s2, Opposed(N, f, f2), Opposed(N, s, s2)
    PROVE  Opposed(N, [i \in 1 .. N |-> f[i] - s[i]], [i \in 1 .. N |-> f2[i] - s2[i]])
<1>1. /\ N \in Nat /\ f \in [1 .. N -> Int] /\ f2 \in [1 .. N -> Int] /\ \A i \in 1 .. N : f2[i] = -f[i]
      /\ s \in [1 .. N -> Int] /\ s2 \in [1 .. N -> Int] /\ \A i \in 1 .. N : s2[i] = -s[i]
  BY DEF Opposed
<1>2. \A i \in 1 .. N : f2[i] - s2[i] = -(f[i] - s[i]) /\ f[i] - s[i] \in Int /\ f2[i] - s2[i] \in Int
  BY <1>1
<1> QED BY <1>1, <1>2 DEF Opposed

(* The histogram of opposite closes is opposite ...                                   *)
LEMMA HistogramTurned ==
    ASSUME NEW N, NEW cs, NEW ds, Opposed(N, cs, ds)
    PROVE  Opposed(N, Histogram(cs), Histogram(ds))
<1> DEFINE line(xs) == [i \in 1 .. N |-> Ewm(Scaled(xs), Fast)[i] - Ewm(Scaled(xs), Slow)[i]]
<1>1. DOMAIN cs = 1 .. N /\ DOMAIN ds = 1 .. N /\ N \in Nat
  BY DEF Opposed
<1>2. Fast \in Nat \ {0} /\ Slow \in Nat \ {0} /\ Smooth \in Nat \ {0}
  BY PeriodsAssumption
<1>3. Opposed(N, line(cs), line(ds))
  <2>1. /\ Opposed(N, Ewm(Scaled(cs), Fast), Ewm(Scaled(ds), Fast))
        /\ Opposed(N, Ewm(Scaled(cs), Slow), Ewm(Scaled(ds), Slow))
    BY <1>2, AveragesTurned
  <2> QED BY <2>1, LinesTurned
<1>4. /\ Histogram(cs) = [i \in 1 .. N |-> line(cs)[i] - Ewm(line(cs), Smooth)[i]]
      /\ Histogram(ds) = [i \in 1 .. N |-> line(ds)[i] - Ewm(line(ds), Smooth)[i]]
  BY <1>1, Zenon DEF Histogram
<1> HIDE DEF line
<1>5. Opposed(N, Ewm(line(cs), Smooth), Ewm(line(ds), Smooth))
  <2>1. /\ line(cs) \in [1 .. N -> Int] /\ line(ds) \in [1 .. N -> Int]
        /\ \A i \in 1 .. N : line(ds)[i] = -line(cs)[i]
    BY <1>3 DEF Opposed
  <2>2. Ewm(line(cs), Smooth) \in [1 .. N -> Int] /\ Ewm(line(ds), Smooth) \in [1 .. N -> Int]
    BY <1>1, <1>2, <2>1, EwmSteps
  <2>3. \A i \in 1 .. N : Ewm(line(ds), Smooth)[i] = -Ewm(line(cs), Smooth)[i]
    BY <1>1, <1>2, <2>1, EwmOpposite
  <2> QED BY <1>1, <2>2, <2>3 DEF Opposed
<1> QED BY <1>3, <1>4, <1>5, LinesTurned

(* ... and crosses zero the other way.                                                *)
LEMMA CrossTurned ==
    ASSUME NEW N, NEW hs, NEW gs, Opposed(N, hs, gs), N >= 2
    PROVE  /\ Cross(Newest(gs), gs[Len(gs) - 1]) = Counterpart(Cross(Newest(hs), hs[Len(hs) - 1]))
<1>1. N \in Nat /\ hs \in [1 .. N -> Int] /\ gs \in [1 .. N -> Int] /\ \A i \in 1 .. N : gs[i] = -hs[i]
  BY DEF Opposed
<1>2. Newest(gs) = gs[N] /\ Newest(hs) = hs[N] /\ Len(gs) = N /\ Len(hs) = N
  BY <1>1, NewestIs
<1>3. N \in 1 .. N /\ N - 1 \in 1 .. N
  BY <1>1
<1>4. gs[N] = -hs[N] /\ gs[N - 1] = -hs[N - 1] /\ hs[N] \in Int /\ hs[N - 1] \in Int
  BY <1>1, <1>3
<1>5. \A h, p \in Int : Cross(-h, -p) = Counterpart(Cross(h, p))
  BY DEF Cross, Counterpart
<1> QED BY <1>2, <1>4, <1>5

(* The four averages of opposite closes are opposite ...                              *)
LEMMA EmasTurned ==
    ASSUME NEW N, NEW cs, NEW ds, Opposed(N, cs, ds), N >= 1
    PROVE  Opposed(4, Emas(cs), Emas(ds))
<1>1. DOMAIN Averages = 1 .. 4 /\ \A k \in 1 .. 4 : Averages[k] \in Nat \ {0}
  BY PeriodsAssumption
<1>2. ASSUME NEW k \in 1 .. 4
      PROVE  /\ Newest(Ewm(Scaled(ds), Averages[k])) = -Newest(Ewm(Scaled(cs), Averages[k]))
             /\ Newest(Ewm(Scaled(cs), Averages[k])) \in Int
             /\ Newest(Ewm(Scaled(ds), Averages[k])) \in Int
  <2> DEFINE e == Ewm(Scaled(cs), Averages[k])
             f == Ewm(Scaled(ds), Averages[k])
  <2>1. Opposed(N, e, f)
    BY <1>1, AveragesTurned
  <2> HIDE DEF e, f
  <2>2. N \in Nat /\ e \in [1 .. N -> Int] /\ f \in [1 .. N -> Int] /\ \A i \in 1 .. N : f[i] = -e[i]
    BY <2>1 DEF Opposed
  <2>3. Newest(e) = e[N] /\ Newest(f) = f[N]
    BY <2>2, NewestIs
  <2>5. N \in 1 .. N
    BY <2>2
  <2>4. Newest(f) = -Newest(e) /\ Newest(e) \in Int /\ Newest(f) \in Int
    BY <2>2, <2>3, <2>5
  <2> QED BY <2>4 DEF e, f
<1>3. /\ Emas(cs) = [k \in 1 .. 4 |-> Newest(Ewm(Scaled(cs), Averages[k]))]
      /\ Emas(ds) = [k \in 1 .. 4 |-> Newest(Ewm(Scaled(ds), Averages[k]))]
  BY <1>1 DEF Emas
<1> QED BY <1>2, <1>3 DEF Opposed

(* ... and lie in the opposite order.                                                 *)
LEMMA OrderTurned ==
    ASSUME NEW e, NEW f, Opposed(4, e, f)
    PROVE  /\ Alignment(f) = Counterpart(Alignment(e)) /\ AlignmentScore(f) = -AlignmentScore(e)
           /\ e[4] \in Int /\ f[4] = -e[4]
<1>1. /\ e[1] \in Int /\ e[2] \in Int /\ e[3] \in Int /\ e[4] \in Int
      /\ f[1] = -e[1] /\ f[2] = -e[2] /\ f[3] = -e[3] /\ f[4] = -e[4]
  BY DEF Opposed
<1>2. (Falling(f) <=> Rising(e)) /\ (Rising(f) <=> Falling(e)) /\ ~(Falling(e) /\ Rising(e))
  BY <1>1 DEF Falling, Rising
<1>3. Alignment(f) = Counterpart(Alignment(e))
  BY <1>2 DEF Alignment, Counterpart
<1>4. AlignmentScore(f) = -AlignmentScore(e)
  BY <1>1 DEF AlignmentScore, Falling, Rising
<1> QED BY <1>1, <1>3, <1>4

--------------------------------------------------------------------------------
(* ... from the candles ...                                                           *)

Over(rows) == [i \in DOMAIN rows |-> UpsideDown(rows[i])]

(* What a chart consists of.                                                          *)
LEMMA RowsAre ==
    ASSUME NEW rows \in Seq(Candle)
    PROVE  /\ Len(rows) \in Nat /\ DOMAIN rows = 1 .. Len(rows)
           /\ \A i \in 1 .. Len(rows) :
                /\ rows[i] \in Candle /\ rows[i].high \in Int /\ rows[i].low \in Int
                /\ rows[i].close \in Int /\ rows[i].volume \in Nat
<1>1. \A i \in 1 .. Len(rows) : rows[i] \in Candle
  OBVIOUS
<1>2. \A c \in Candle : c.high \in Int /\ c.low \in Int /\ c.close \in Int /\ c.volume \in Nat
  BY DEF Candle
<1> QED BY <1>1, <1>2

(* A candle upside down.                                                              *)
LEMMA CandleTurned ==
    ASSUME NEW c \in Candle
    PROVE  LET d == UpsideDown(c) IN
           /\ d \in Candle /\ d.high = -c.low /\ d.low = -c.high /\ d.close = -c.close
           /\ d.volume = c.volume
<1> DEFINE h == -c.low
           l == -c.high
           k == -c.close
           d == UpsideDown(c)
<1>1. h \in Int /\ l \in Int /\ k \in Int
  BY DEF Candle
<1>2. d = [c EXCEPT !.high = h, !.low = l, !.close = k]
  BY Zenon DEF UpsideDown
<1> HIDE DEF h, l, k, d
<1>3. d \in Candle /\ d.high = h /\ d.low = l /\ d.close = k /\ d.volume = c.volume
  BY <1>1, <1>2 DEF Candle
<1> QED BY <1>3 DEF h, l, k, d

(* A chart upside down.                                                               *)
LEMMA OverIs ==
    ASSUME NEW rows \in Seq(Candle)
    PROVE  /\ Over(rows) \in Seq(Candle) /\ Len(Over(rows)) = Len(rows)
           /\ DOMAIN Over(rows) = 1 .. Len(rows)
           /\ \A i \in 1 .. Len(rows) :
                /\ Over(rows)[i].high = -rows[i].low /\ Over(rows)[i].low = -rows[i].high
                /\ Over(rows)[i].close = -rows[i].close /\ Over(rows)[i].volume = rows[i].volume
                /\ Over(rows)[i] = UpsideDown(rows[i])
<1> DEFINE N == Len(rows)
<1>1. N \in Nat /\ DOMAIN rows = 1 .. N /\ \A i \in 1 .. N : rows[i] \in Candle
  BY RowsAre
<1> HIDE DEF N
<1>2. Over(rows) = [i \in 1 .. N |-> UpsideDown(rows[i])]
  BY <1>1 DEF Over
<1>3. \A i \in 1 .. N :
        LET d == UpsideDown(rows[i]) c == rows[i] IN
           /\ d \in Candle /\ d.high = -c.low /\ d.low = -c.high /\ d.close = -c.close
           /\ d.volume = c.volume
  BY <1>1, CandleTurned
<1>4. \A i \in 1 .. N : Over(rows)[i] = UpsideDown(rows[i])
  BY <1>2
<1>5. Over(rows) \in Seq(Candle) /\ Len(Over(rows)) = N
  <2>1. Over(rows) \in [1 .. N -> Candle]
    BY <1>2, <1>3
  <2> QED BY <1>1, <2>1
<1>6. DOMAIN Over(rows) = 1 .. N
  BY <1>2
<1>7. \A i \in 1 .. N :
                /\ Over(rows)[i].high = -rows[i].low /\ Over(rows)[i].low = -rows[i].high
                /\ Over(rows)[i].close = -rows[i].close /\ Over(rows)[i].volume = rows[i].volume
  BY <1>3, <1>4
<1> QED BY <1>4, <1>5, <1>6, <1>7 DEF N

(* Its closes are opposite, its volumes the same.                                     *)
LEMMA ColumnsTurned ==
    ASSUME NEW rows \in Seq(Candle)
    PROVE  /\ Opposed(Len(rows), Column(rows, "close"), Column(Over(rows), "close"))
           /\ Column(Over(rows), "volume") = Column(rows, "volume")
           /\ Column(rows, "volume") \in [1 .. Len(rows) -> Nat]
           /\ \A i \in 1 .. Len(rows) : /\ Column(rows, "volume")[i] = rows[i].volume
                                         /\ Column(rows, "close")[i] = rows[i].close
<1> DEFINE N == Len(rows)
<1>1. /\ N \in Nat /\ DOMAIN rows = 1 .. N
      /\ \A i \in 1 .. N : rows[i].close \in Int /\ rows[i].volume \in Nat
  BY RowsAre
<1>2. /\ DOMAIN Over(rows) = 1 .. N
      /\ \A i \in 1 .. N : /\ Over(rows)[i].close = -rows[i].close
                            /\ Over(rows)[i].volume = rows[i].volume
  BY OverIs
<1> HIDE DEF N
<1>3. /\ Column(rows, "close") = [i \in 1 .. N |-> rows[i].close]
      /\ Column(rows, "volume") = [i \in 1 .. N |-> rows[i].volume]
      /\ Column(Over(rows), "close") = [i \in 1 .. N |-> Over(rows)[i].close]
      /\ Column(Over(rows), "volume") = [i \in 1 .. N |-> Over(rows)[i].volume]
  BY <1>1, <1>2 DEF Column
<1>4. Opposed(N, Column(rows, "close"), Column(Over(rows), "close"))
  <2> DEFINE p == Column(rows, "close")
             q == Column(Over(rows), "close")
  <2>1. \A i \in 1 .. N : p[i] = rows[i].close /\ q[i] = Over(rows)[i].close
    BY <1>3, Zenon
  <2>2. \A i \in 1 .. N : p[i] \in Int /\ q[i] = -p[i] /\ q[i] \in Int
    BY <1>1, <1>2, <2>1
  <2>3. p = [i \in 1 .. N |-> p[i]] /\ q = [i \in 1 .. N |-> q[i]]
    BY <1>3, Zenon
  <2> HIDE DEF p, q
  <2>4. p \in [1 .. N -> Int] /\ q \in [1 .. N -> Int]
    BY <2>2, <2>3
  <2>5. Opposed(N, p, q)
    BY <1>1, <2>2, <2>4 DEF Opposed
  <2> QED BY <2>5 DEF p, q
<1>5. Column(Over(rows), "volume") = Column(rows, "volume")
  BY <1>1, <1>2, <1>3
<1> QED BY <1>1, <1>3, <1>4, <1>5 DEF N

(* The distance of opposite numbers.                                                  *)
LEMMA Sizes ==
    ASSUME NEW x \in Int, NEW y \in Int
    PROVE  Size((-x) - (-y)) = Size(x - y) /\ (-x) - (-y) = y - x
BY DEF Size

(* A candle has the same range upside down ...                                        *)
LEMMA RangeTurned ==
    ASSUME NEW rows \in Seq(Candle), NEW i \in 1 .. Len(rows)
    PROVE  TrueRange(Over(rows), i) = TrueRange(rows, i)
<1> DEFINE o == Over(rows)
<1>1. /\ rows[i].high \in Int /\ rows[i].low \in Int
      /\ o[i].high = -rows[i].low /\ o[i].low = -rows[i].high
  BY RowsAre, OverIs
<1>2. i # 1 => i - 1 \in 1 .. Len(rows)
  BY RowsAre
<1>3. i # 1 => rows[i - 1].close \in Int /\ o[i - 1].close = -rows[i - 1].close
  BY <1>2, RowsAre, OverIs
<1> HIDE DEF o
<1>4. o[i].high - o[i].low = rows[i].high - rows[i].low
  BY <1>1
<1>5. CASE i = 1
  BY <1>4, <1>5 DEF TrueRange, o
<1>6. CASE i # 1
  <2>1. /\ Size(o[i].high - o[i - 1].close) = Size(rows[i].low - rows[i - 1].close)
        /\ Size(o[i].low - o[i - 1].close) = Size(rows[i].high - rows[i - 1].close)
    BY <1>1, <1>3, <1>6, Sizes
  <2> DEFINE a == rows[i].high - rows[i].low
             b == Size(rows[i].high - rows[i - 1].close)
             c == Size(rows[i].low - rows[i - 1].close)
  <2>2. TrueRange(o, i) = Max({a, c, b})
    BY <1>4, <1>6, <2>1 DEF TrueRange
  <2>3. TrueRange(rows, i) = Max({a, b, c})
    BY <1>6 DEF TrueRange
  <2> HIDE DEF a, b, c
  <2>4. {a, c, b} = {a, b, c}
    OBVIOUS
  <2> QED BY <2>2, <2>3, <2>4 DEF o
<1> QED BY <1>5, <1>6

(* ... the chart the same average range ...                                           *)
LEMMA AtrTurned ==
    ASSUME NEW rows \in Seq(Candle)
    PROVE  AtrOf(Over(rows)) = AtrOf(rows)
<1>1. Len(Over(rows)) = Len(rows) /\ DOMAIN rows = 1 .. Len(rows) /\ DOMAIN Over(rows) = 1 .. Len(rows)
  BY RowsAre, OverIs
<1>2. \A i \in 1 .. Len(rows) : Scale * TrueRange(Over(rows), i) = Scale * TrueRange(rows, i)
  BY RangeTurned
<1>3. [i \in DOMAIN Over(rows) |-> Scale * TrueRange(Over(rows), i)]
        = [i \in DOMAIN rows |-> Scale * TrueRange(rows, i)]
  BY <1>1, <1>2, Zenon
<1> QED BY <1>1, <1>3, Zenon DEF AtrOf

(* ... and had it a candle earlier.                                                   *)
LEMMA EarlierTurned ==
    ASSUME NEW rows \in Seq(Candle), Len(rows) >= 1
    PROVE  AtrOf(SubSeq(Over(rows), 1, Len(Over(rows)) - 1)) = AtrOf(SubSeq(rows, 1, Len(rows) - 1))
<1> DEFINE N == Len(rows)
           r == SubSeq(rows, 1, N - 1)
           o == SubSeq(Over(rows), 1, N - 1)
<1>1. N \in Nat /\ DOMAIN rows = 1 .. N /\ \A i \in 1 .. N : rows[i] \in Candle
  BY RowsAre
<1>2. /\ Over(rows) \in Seq(Candle) /\ Len(Over(rows)) = N
      /\ \A i \in 1 .. N : Over(rows)[i] = UpsideDown(rows[i])
  BY OverIs
<1>3. r \in Seq(Candle) /\ DOMAIN r = 1 .. N - 1 /\ Len(r) = N - 1 /\ \A i \in 1 .. N - 1 : r[i] = rows[i]
  BY <1>1
<1>4. DOMAIN o = 1 .. N - 1 /\ o = [i \in 1 .. N - 1 |-> Over(rows)[i]]
  BY <1>1, <1>2
<1> HIDE DEF N, r, o
<1>5. o = [i \in 1 .. N - 1 |-> UpsideDown(r[i])]
  <2>1. \A i \in 1 .. N - 1 : i \in 1 .. N
    BY <1>1
  <2> QED BY <1>2, <1>3, <1>4, <2>1, Zenon
<1>6. o = Over(r)
  BY <1>3, <1>5 DEF Over
<1>7. AtrOf(o) = AtrOf(r)
  BY <1>3, <1>6, AtrTurned
<1> QED BY <1>2, <1>7 DEF N, r, o

--------------------------------------------------------------------------------
(* ... from sums over them ...                                                        *)

(* The recent places are places of the column.                                        *)
LEMMA RecentIs ==
    ASSUME NEW N \in Nat, NEW S, NEW xs \in [1 .. N -> S], NEW n \in Nat
    PROVE  Recent(xs, n) \subseteq 1 .. N /\ IsFiniteSet(Recent(xs, n))
<1>1. Len(xs) = N
  BY NewestIs
<1> DEFINE k == N - n + 1
           m == Max({1, k})
<1>2. k \in Int
  OBVIOUS
<1> HIDE DEF k
<1>3. m \in {1, k} /\ \A y \in {1, k} : m >= y
  <2>1. \E x \in {1, k} : \A y \in {1, k} : x >= y
    <3>1. CASE k >= 1
      BY <1>2, <3>1
    <3>2. CASE k < 1
      BY <1>2, <3>2
    <3> QED BY <1>2, <3>1, <3>2
  <2> QED BY <2>1 DEF Max
<1> HIDE DEF m
<1>4. m \in Int /\ m >= 1
  BY <1>2, <1>3
<1>5. Recent(xs, n) = m .. N
  BY <1>1 DEF Recent, m, k
<1> QED BY <1>4, <1>5, FS_Interval

(* The last close is as far from the mean, on the other side, and the deviation       *)
(* is the same.                                                                       *)
LEMMA BandsTurned ==
    ASSUME NEW N, NEW cs, NEW ds, Opposed(N, cs, ds), N >= 1
    PROVE  \E off, width \in Int : /\ Bands(cs) = [off |-> off, width |-> width]
                                    /\ Bands(ds) = [off |-> -off, width |-> width]
<1> DEFINE R == Recent(cs, BandPeriod)
           sq(xs) == [i \in 1 .. N |-> xs[i] * xs[i]]
           s == SumFunctionOnSet(cs, R)
           t == SumFunctionOnSet(ds, R)
           q == SumFunctionOnSet(sq(cs), R)
<1>1. N \in Nat /\ cs \in [1 .. N -> Int] /\ ds \in [1 .. N -> Int] /\ \A i \in 1 .. N : ds[i] = -cs[i]
  BY DEF Opposed
<1>2. /\ Len(cs) = N /\ Len(ds) = N /\ Newest(cs) = cs[N] /\ Newest(ds) = ds[N]
      /\ DOMAIN cs = 1 .. N /\ DOMAIN ds = 1 .. N
  BY <1>1, NewestIs
<1>3. BandPeriod \in Nat \ {0}
  BY PeriodsAssumption
<1>4. R \subseteq 1 .. N /\ IsFiniteSet(R) /\ Recent(ds, BandPeriod) = R
  <2>1. R \subseteq 1 .. N /\ IsFiniteSet(R)
    BY <1>1, <1>3, RecentIs
  <2>2. Recent(ds, BandPeriod) = R
    BY <1>2 DEF Recent
  <2> QED BY <2>1, <2>2
<1>5. sq(ds) = sq(cs)
  <2>1. \A x \in Int : (-x) * (-x) = x * x
    OBVIOUS
  <2>2. \A i \in 1 .. N : ds[i] * ds[i] = cs[i] * cs[i]
    BY <1>1, <2>1
  <2> QED BY <2>2
<1>6. q \in Int
  <2>1. \A i \in 1 .. N : sq(cs)[i] = cs[i] * cs[i]
    OBVIOUS
  <2> HIDE DEF sq, R
  <2>2. \A i \in R : sq(cs)[i] \in Int
    BY <1>1, <1>4, <2>1, OppositeProduct
  <2> QED BY <1>4, <2>2, SumIsInteger
<1>7. s \in Int /\ t = -s
  <2> HIDE DEF R
  <2>1. \A i \in R : cs[i] \in Int /\ ds[i] = -cs[i]
    BY <1>1, <1>4
  <2> QED BY <1>4, <2>1, SumOfOpposites
<1>8. /\ Bands(cs) = IF N < BandPeriod THEN [off |-> 0, width |-> 0]
                     ELSE [off |-> BandPeriod * cs[N] - s, width |-> BandPeriod * q - s * s]
      /\ Bands(ds) = IF N < BandPeriod THEN [off |-> 0, width |-> 0]
                     ELSE [off |-> BandPeriod * ds[N] - t, width |-> BandPeriod * q - t * t]
  <2>1. /\ sq(cs) = [i \in DOMAIN cs |-> cs[i] * cs[i]]
        /\ sq(ds) = [i \in DOMAIN ds |-> ds[i] * ds[i]]
    BY <1>2
  <2>2. q = SumFunctionOnSet(sq(ds), R)
    BY <1>5, Zenon
  <2> HIDE DEF sq
  <2> QED BY <1>2, <1>4, <2>1, <2>2, Zenon DEF Bands
<1> HIDE DEF s, t, q, R
<1>9. /\ BandPeriod * cs[N] - s \in Int /\ BandPeriod * q - s * s \in Int
      /\ BandPeriod * ds[N] - t = -(BandPeriod * cs[N] - s)
      /\ BandPeriod * q - t * t = BandPeriod * q - s * s
  <2> DEFINE c == cs[N]
             b == BandPeriod * c
             p == BandPeriod * q
  <2>1. c \in Int /\ ds[N] = -c /\ BandPeriod \in Int
    BY <1>1, <1>3
  <2> HIDE DEF c
  <2>2. b \in Int /\ p \in Int /\ BandPeriod * ds[N] = -b
    BY <1>6, <2>1, OppositeProduct
  <2>3. s * s \in Int /\ t * t = s * s
    BY <1>7
  <2> HIDE DEF b, p
  <2>4. b - s \in Int /\ p - s * s \in Int /\ -b - t = -(b - s) /\ p - t * t = p - s * s
    BY <1>7, <2>2, <2>3
  <2> QED BY <2>2, <2>4 DEF b, p, c
<1>10. CASE N < BandPeriod
  <2>1. Bands(cs) = [off |-> 0, width |-> 0] /\ Bands(ds) = [off |-> -0, width |-> 0]
    BY <1>8, <1>10
  <2> QED BY <2>1
<1>11. CASE ~(N < BandPeriod)
  BY <1>8, <1>9, <1>11
<1> QED BY <1>10, <1>11

(* What is outside on one side is outside on the other.                               *)
LEMMA OutsideTurned ==
    ASSUME NEW off \in Int, NEW width \in Int, NEW num \in Nat, NEW den \in Nat,
           NEW side \in Int, NEW across \in Int, side + across = 0
    PROVE  Outside([off |-> -off, width |-> width], side, num, den)
             <=> Outside([off |-> off, width |-> width], across, num, den)
<1> DEFINE d == den * den
<1>1. d \in Int /\ d * off \in Int
  BY OppositeProduct
<1>2. d * (-off) * (-off) = d * off * off
  <2>1. d * (-off) = -(d * off)
    BY <1>1, OppositeProduct
  <2>2. \A x \in Int : (-x) * (-off) = x * off
    OBVIOUS
  <2> HIDE DEF d
  <2> QED BY <1>1, <2>1, <2>2
<1>3. side * (-off) = across * off
  <2>1. across = -side
    OBVIOUS
  <2>2. \A x, y \in Int : x * (-y) = (-x) * y
    OBVIOUS
  <2> QED BY <2>1, <2>2
<1> QED BY <1>2, <1>3 DEF Outside

(* The third of the bands is the opposite one.                                        *)
LEMMA PositionTurned ==
    ASSUME NEW off \in Int, NEW width \in Int
    PROVE  BandPosition([off |-> -off, width |-> width])
             = Counterpart(BandPosition([off |-> off, width |-> width]))
<1> DEFINE b == [off |-> off, width |-> width]
           o == [off |-> -off, width |-> width]
<1>1. /\ Outside(o, 1, 167, 250) <=> Outside(b, -1, 167, 250)
      /\ Outside(o, -1, 167, 250) <=> Outside(b, 1, 167, 250)
  <2>1. 1 + -1 = 0 /\ -1 + 1 = 0 /\ 1 \in Int /\ -1 \in Int
    OBVIOUS
  <2> QED BY <2>1, OutsideTurned
<1>2. ~(Outside(b, 1, 167, 250) /\ Outside(b, -1, 167, 250))
  BY DEF Outside
<1> HIDE DEF b, o
<1>3. BandPosition(o) = Counterpart(BandPosition(b))
  BY <1>1, <1>2 DEF BandPosition, Counterpart
<1> QED BY <1>3 DEF b, o

(* Volume surges on both charts or on none.                                           *)
LEMMA SurgeIs ==
    ASSUME NEW rows \in Seq(Candle)
    PROVE  Surge(Column(Over(rows), "volume")) = Surge(Column(rows, "volume"))
BY ColumnsTurned

(* The places of a session so far.                                                    *)
LEMMA SessionIs ==
    ASSUME NEW N \in Nat, NEW i \in 1 .. N
    PROVE  SessionStart(i) .. i \subseteq 1 .. N /\ IsFiniteSet(SessionStart(i) .. i)
<1>1. Session \in Nat \ {0} /\ i - 1 \in Nat
  BY PeriodsAssumption
<1>2. (i - 1) % Session \in Nat /\ (i - 1) % Session <= i - 1
  <2>1. \A x \in Nat, s \in Nat \ {0} : x % s \in Nat /\ x % s <= x
    BY Z3
  <2> QED BY <1>1, <2>1
<1>3. SessionStart(i) \in Int /\ SessionStart(i) >= 1
  BY <1>2 DEF SessionStart
<1> QED BY <1>3, FS_Interval

(* The session's turnover is opposite, and as much is traded.                         *)
LEMMA TurnoverTurned ==
    ASSUME NEW rows \in Seq(Candle), NEW i \in 1 .. Len(rows)
    PROVE  /\ Turnover(rows, i) \in Int /\ Turnover(Over(rows), i) = -Turnover(rows, i)
           /\ Traded(rows, i) \in Nat /\ Traded(Over(rows), i) = Traded(rows, i)
<1> DEFINE N == Len(rows)
           S == SessionStart(i) .. i
           v == [j \in 1 .. N |-> (rows[j].high + rows[j].low + rows[j].close) * rows[j].volume]
           o == Over(rows)
           w == [j \in 1 .. N |-> (o[j].high + o[j].low + o[j].close) * o[j].volume]
<1>1. /\ N \in Nat /\ DOMAIN rows = 1 .. N
      /\ \A j \in 1 .. N : /\ rows[j].high \in Int /\ rows[j].low \in Int
                            /\ rows[j].close \in Int /\ rows[j].volume \in Nat
  BY RowsAre
<1>2. /\ DOMAIN o = 1 .. N
      /\ \A j \in 1 .. N : /\ o[j].high = -rows[j].low /\ o[j].low = -rows[j].high
                            /\ o[j].close = -rows[j].close /\ o[j].volume = rows[j].volume
  BY OverIs
<1>3. S \subseteq 1 .. N /\ IsFiniteSet(S)
  BY <1>1, SessionIs
<1>4. \A j \in 1 .. N : v[j] \in Int /\ w[j] = -v[j]
  <2> SUFFICES ASSUME NEW j \in 1 .. N PROVE v[j] \in Int /\ w[j] = -v[j]
    OBVIOUS
  <2> DEFINE x == rows[j].high + rows[j].low + rows[j].close
             y == o[j].high + o[j].low + o[j].close
             u == rows[j].volume
  <2>1. x \in Int /\ y = -x /\ u \in Int /\ o[j].volume = u
    BY <1>1, <1>2
  <2>2. v[j] = x * u /\ w[j] = y * u
    BY <2>1
  <2> HIDE DEF x, y, u, v, w, o
  <2>3. \A a, b \in Int : a * b \in Int /\ (-a) * b = -(a * b)
    OBVIOUS
  <2> QED BY <2>1, <2>2, <2>3
<1>5. Turnover(rows, i) = SumFunctionOnSet(v, S) /\ Turnover(o, i) = SumFunctionOnSet(w, S)
  BY <1>1, <1>2, Zenon DEF Turnover
<1> HIDE DEF v, w, S, o
<1>6. Turnover(rows, i) \in Int /\ Turnover(o, i) = -Turnover(rows, i)
  BY <1>3, <1>4, <1>5, SumOfOpposites
<1>7. Traded(o, i) = Traded(rows, i)
  BY ColumnsTurned DEF Traded, o
<1>8. Traded(rows, i) \in Nat
  <2>1. \A j \in S : Column(rows, "volume")[j] \in Nat
    BY <1>3, ColumnsTurned DEF N
  <2> HIDE DEF N
  <2>2. SumFunctionOnSet(Column(rows, "volume"), S) \in Nat
    BY <1>3, <2>1, SumIsNatural
  <2> QED BY <2>2 DEF Traded, S
<1> QED BY <1>6, <1>7, <1>8 DEF o

(* The price weighted by volume is opposite.                                          *)
LEMMA VwapTurned ==
    ASSUME NEW rows \in Seq(Candle), Len(rows) >= 1
    PROVE  \E sum, volume \in Int : /\ Vwap(rows) = [sum |-> sum, volume |-> volume]
                                     /\ Vwap(Over(rows)) = [sum |-> -sum, volume |-> volume]
<1> DEFINE N == Len(rows)
           o == Over(rows)
           valid == {i \in 1 .. N : Traded(rows, i) > 0}
           k == Max(valid)
<1>1. N \in Nat /\ DOMAIN rows = 1 .. N /\ N \in 1 .. N
  BY RowsAre
<1>2. DOMAIN o = 1 .. N /\ Len(o) = N
  BY OverIs
<1>3. Newest(rows).close \in Int /\ Newest(o).close = -Newest(rows).close
  BY <1>1, <1>2, RowsAre, OverIs DEF Newest
<1>4. \A i \in 1 .. N : /\ Turnover(rows, i) \in Int /\ Turnover(o, i) = -Turnover(rows, i)
                         /\ Traded(rows, i) \in Nat /\ Traded(o, i) = Traded(rows, i)
  BY TurnoverTurned
<1>5. valid = {i \in DOMAIN rows : Traded(rows, i) > 0} /\ valid = {i \in DOMAIN o : Traded(o, i) > 0}
  <2>1. \A i \in 1 .. N : Traded(o, i) = Traded(rows, i)
    BY <1>4
  <2>2. valid = {i \in 1 .. N : Traded(o, i) > 0}
    BY <2>1
  <2> QED BY <1>1, <1>2, <2>2
<1> HIDE DEF valid, o
<1>6. /\ Vwap(rows) = IF valid = {} THEN [sum |-> 3 * Newest(rows).close, volume |-> 1]
                      ELSE [sum |-> Turnover(rows, k), volume |-> Traded(rows, k)]
      /\ Vwap(o) = IF valid = {} THEN [sum |-> 3 * Newest(o).close, volume |-> 1]
                   ELSE [sum |-> Turnover(o, k), volume |-> Traded(o, k)]
  BY <1>5, Zenon DEF Vwap
<1>7. CASE valid = {}
  <2> DEFINE c == Newest(rows).close
  <2>1. 3 * c \in Int /\ 3 * Newest(o).close = -(3 * c)
    BY <1>3
  <2> QED BY <1>6, <1>7, <2>1 DEF o
<1>8. CASE valid # {}
  <2>1. valid \subseteq Nat /\ \A x \in valid : x <= N
    BY <1>1 DEF valid
  <2>2. k \in valid
    BY <1>1, <1>8, <2>1, Greatest
  <2>3. k \in 1 .. N
    BY <2>2 DEF valid
  <2> HIDE DEF k
  <2>4. /\ Turnover(rows, k) \in Int /\ Turnover(o, k) = -Turnover(rows, k)
        /\ Traded(rows, k) \in Int /\ Traded(o, k) = Traded(rows, k)
    BY <1>4, <2>3
  <2> QED BY <1>6, <1>8, <2>4 DEF o, k
<1> QED BY <1>7, <1>8

--------------------------------------------------------------------------------
(* ... and from their extremes.                                                       *)

(* The opposite numbers, and the opposite of these.                                   *)
LEMMA NegatedIs ==
    ASSUME NEW S, S \subseteq Int
    PROVE  /\ Negated(S) \subseteq Int /\ \A x \in Int : x \in Negated(S) <=> -x \in S
           /\ Negated(Negated(S)) = S
<1>1. \A x \in Int : -x \in Int /\ -(-x) = x
  OBVIOUS
<1>2. Negated(S) \subseteq Int
  BY <1>1 DEF Negated
<1>3. ASSUME NEW x \in Int PROVE x \in Negated(S) <=> -x \in S
  <2>1. x \in Negated(S) => -x \in S
    BY <1>1 DEF Negated
  <2>2. -x \in S => x \in Negated(S)
    BY <1>1 DEF Negated
  <2> QED BY <2>1, <2>2
<1>4. Negated(Negated(S)) = S
  <2>1. ASSUME NEW x \in Negated(Negated(S)) PROVE x \in S
    <3>1. PICK y \in Negated(S) : x = -y
      BY DEF Negated
    <3>2. y \in Int /\ -y \in S
      BY <1>2, <1>3
    <3> QED BY <3>1, <3>2
  <2>2. ASSUME NEW x \in S PROVE x \in Negated(Negated(S))
    <3>1. -x \in Negated(S)
      BY DEF Negated
    <3>2. -(-x) \in Negated(Negated(S))
      BY <3>1 DEF Negated
    <3> QED BY <1>1, <3>2
  <2> QED BY <2>1, <2>2
<1> QED BY <1>2, <1>3, <1>4

(* There are as many of them.                                                         *)
LEMMA NegatedAlike ==
    ASSUME NEW S, IsFiniteSet(S), S \subseteq Int
    PROVE  IsFiniteSet(Negated(S)) /\ Cardinality(Negated(S)) = Cardinality(S)
<1> DEFINE f == [x \in S |-> -x]
<1>1. f \in [S -> Negated(S)]
  BY DEF Negated
<1>2. \A a, b \in S : f[a] = f[b] => a = b
  OBVIOUS
<1>3. \A t \in Negated(S) : \E s \in S : f[s] = t
  BY DEF Negated
<1> HIDE DEF f
<1>4. f \in Bijection(S, Negated(S))
  BY <1>1, <1>2, <1>3 DEF Bijection, Injection, Surjection, IsInjective
<1>5. ExistsBijection(S, Negated(S))
  BY <1>4 DEF ExistsBijection
<1> QED BY <1>5, FS_Bijection

(* The lowest of the opposite numbers are opposite to the highest.                    *)
LEMMA LowestTurned ==
    ASSUME NEW S, IsFiniteSet(S), S \subseteq Int
    PROVE  Lowest(Negated(S)) = Negated(Highest(S))
<1> DEFINE above(x) == {y \in S : y > x}
           below(x) == {y \in Negated(S) : y < x}
<1>1. Lowest(Negated(S)) = {x \in Negated(S) : Cardinality(below(x)) < NLevels}
  BY DEF Lowest, Foremost
<1>2. Highest(S) = {x \in S : Cardinality(above(x)) < NLevels}
  BY DEF Highest, Foremost
<1>3. ASSUME NEW x \in S PROVE Cardinality(below(-x)) = Cardinality(above(x))
  <2>1. IsFiniteSet(above(x)) /\ above(x) \subseteq Int
    BY FS_Subset
  <2>2. below(-x) = Negated(above(x))
    <3>1. \A y \in Int : y < -x <=> -y > x
      OBVIOUS
    <3>2. Negated(above(x)) \subseteq Int /\ below(-x) \subseteq Int
      BY <2>1, NegatedIs
    <3>3. ASSUME NEW y \in Int PROVE y \in below(-x) <=> y \in Negated(above(x))
      <4>1. y \in Negated(S) <=> -y \in S
        BY NegatedIs
      <4>2. y \in Negated(above(x)) <=> -y \in above(x)
        BY <2>1, NegatedIs
      <4> QED BY <3>1, <4>1, <4>2
    <3> QED BY <3>2, <3>3
  <2> HIDE DEF above, below
  <2> QED BY <2>1, <2>2, NegatedAlike
<1> HIDE DEF above, below
<1>4. ASSUME NEW x \in Lowest(Negated(S)) PROVE x \in Negated(Highest(S))
  <2>1. x \in Negated(S) /\ Cardinality(below(x)) < NLevels
    BY <1>1
  <2>2. PICK y \in S : x = -y
    BY <2>1 DEF Negated
  <2>3. y \in Highest(S)
    BY <1>2, <1>3, <2>1, <2>2
  <2> QED BY <2>2, <2>3 DEF Negated
<1>5. ASSUME NEW x \in Negated(Highest(S)) PROVE x \in Lowest(Negated(S))
  <2>1. PICK y \in Highest(S) : x = -y
    BY DEF Negated
  <2>2. y \in S /\ Cardinality(above(y)) < NLevels
    BY <1>2
  <2>3. x \in Negated(S)
    BY <2>1, <2>2 DEF Negated
  <2> QED BY <1>1, <1>3, <2>1, <2>2, <2>3
<1> QED BY <1>4, <1>5

(* The highest of the opposite numbers are opposite to the lowest.                    *)
LEMMA HighestTurned ==
    ASSUME NEW S, IsFiniteSet(S), S \subseteq Int
    PROVE  Highest(Negated(S)) = Negated(Lowest(S))
<1> DEFINE T == Negated(S)
<1>1. IsFiniteSet(T) /\ T \subseteq Int /\ Negated(T) = S
  BY NegatedAlike, NegatedIs
<1> HIDE DEF T
<1>2. Lowest(S) = Negated(Highest(T))
  BY <1>1, LowestTurned
<1>3. Highest(T) \subseteq Int
  BY <1>1 DEF Highest, Foremost
<1>4. Negated(Lowest(S)) = Highest(T)
  BY <1>2, <1>3, NegatedIs
<1> QED BY <1>4 DEF T

(* Of numbers at finitely many places one is the highest.                             *)
LEMMA HighestPlace ==
    ASSUME NEW S, IsFiniteSet(S), S # {}, NEW v, \A x \in S : v[x] \in Int
    PROVE  \E x \in S : \A y \in S : v[y] <= v[x]
<1> DEFINE F == {T \in SUBSET S : T = {} \/ \E x \in T : \A y \in T : v[y] <= v[x]}
<1>1. {} \in F
  OBVIOUS
<1>2. ASSUME NEW T \in SUBSET S, NEW x \in S \ T, T \in F PROVE T \cup {x} \in F
  <2>1. CASE T = {}
    BY <2>1
  <2>2. CASE \E z \in T : \A y \in T : v[y] <= v[z]
    <3>1. PICK z \in T : \A y \in T : v[y] <= v[z]
      BY <2>2
    <3>2. CASE v[x] <= v[z]
      BY <3>1, <3>2
    <3>3. CASE v[z] <= v[x]
      <4>1. \A y \in T \cup {x} : v[y] <= v[x]
        BY <3>1, <3>3
      <4> QED BY <4>1
    <3>4. v[x] \in Int /\ v[z] \in Int
      OBVIOUS
    <3> QED BY <3>2, <3>3, <3>4
  <2> QED BY <1>2, <2>1, <2>2
<1> HIDE DEF F
<1>3. S \in F
  BY <1>1, <1>2, AllSubsets
<1> QED BY <1>3 DEF F

(* The values of v at the places S.                                                  *)
ValuesAt(v, S) == {v[x] : x \in S}

(* The least of opposite numbers is opposite to the greatest.                         *)
LEMMA MinOfOpposites ==
    ASSUME NEW S, IsFiniteSet(S), S # {}, NEW v, NEW w,
           \A x \in S : v[x] \in Int /\ w[x] = -v[x]
    PROVE  Max(ValuesAt(v, S)) \in Int /\ Min(ValuesAt(w, S)) = -Max(ValuesAt(v, S))
<1> DEFINE V == ValuesAt(v, S)
           W == ValuesAt(w, S)
           m == Max(V)
           n == Min(W)
<1>0. V = {v[x] : x \in S} /\ W = {w[x] : x \in S}
  BY DEF ValuesAt
<1> HIDE DEF V, W
<1>1. PICK k \in S : \A y \in S : v[y] <= v[k]
  BY HighestPlace
<1>2. m \in V /\ \A y \in V : m >= y
  <2>1. \E x \in V : \A y \in V : x >= y
    <3>1. v[k] \in V /\ \A y \in V : v[k] >= y
      BY <1>0, <1>1
    <3> QED BY <3>1
  <2> QED BY <2>1 DEF Max
<1>3. n \in W /\ \A y \in W : n <= y
  <2>1. \E x \in W : \A y \in W : x <= y
    <3>1. w[k] \in W /\ \A y \in W : w[k] <= y
      BY <1>0, <1>1
    <3> QED BY <3>1
  <2> QED BY <2>1 DEF Min
<1> HIDE DEF m, n, V, W
<1>4. m \in Int /\ n \in Int
  BY <1>0, <1>2, <1>3
<1>5. n <= -m
  <2>1. PICK x \in S : m = v[x]
    BY <1>0, <1>2
  <2>2. -m \in W
    BY <1>0, <2>1
  <2> QED BY <1>3, <2>2
<1>6. -n <= m
  <2>1. PICK x \in S : n = w[x]
    BY <1>0, <1>3
  <2>2. v[x] \in V /\ v[x] = -n
    BY <1>0, <2>1
  <2> QED BY <1>2, <2>2
<1>7. n = -m
  BY <1>4, <1>5, <1>6
<1> QED BY <1>4, <1>7 DEF m, n, V, W

(* A window is some places of the chart.                                              *)
LEMMA WindowsAre ==
    ASSUME NEW rows \in Seq(Candle), NEW w \in Windows(rows)
    PROVE  w \subseteq 1 .. Len(rows) /\ IsFiniteSet(w) /\ w # {}
<1>1. Len(rows) \in Nat /\ PivotWindow \in Nat \ {0}
  BY RowsAre, PeriodsAssumption
<1>2. PICK i \in 1 .. Len(rows) - PivotWindow + 1 : w = i .. i + PivotWindow - 1
  BY DEF Windows
<1>3. i \in w /\ i \in Int /\ i + PivotWindow - 1 \in Int
  BY <1>1, <1>2
<1>4. IsFiniteSet(w)
  BY <1>2, <1>3, FS_Interval
<1>5. w \subseteq 1 .. Len(rows)
  BY <1>1, <1>2
<1> QED BY <1>3, <1>4, <1>5

(* In each window the lowest low of one chart is opposite to the highest high of the  *)
(* other, and the other way round.                                                    *)
LEMMA ExtremesTurned ==
    ASSUME NEW rows \in Seq(Candle), NEW w \in Windows(rows)
    PROVE  LET o == Over(rows) IN
           /\ Max({rows[i].high : i \in w}) \in Int
           /\ Min({o[i].low : i \in w}) = -Max({rows[i].high : i \in w})
           /\ Max({o[i].high : i \in w}) \in Int
           /\ Min({rows[i].low : i \in w}) = -Max({o[i].high : i \in w})
<1> DEFINE N == Len(rows)
           o == Over(rows)
           highs == [i \in 1 .. N |-> rows[i].high]
           lows == [i \in 1 .. N |-> rows[i].low]
           ohighs == [i \in 1 .. N |-> o[i].high]
           olows == [i \in 1 .. N |-> o[i].low]
<1>1. \A i \in 1 .. N : rows[i].high \in Int /\ rows[i].low \in Int
  BY RowsAre
<1>2. \A i \in 1 .. N : o[i].high = -rows[i].low /\ o[i].low = -rows[i].high
  BY OverIs
<1>3. w \subseteq 1 .. N /\ IsFiniteSet(w) /\ w # {}
  BY WindowsAre
<1> HIDE DEF N, o
<1> DEFINE H == {rows[i].high : i \in w}
           L == {rows[i].low : i \in w}
           OH == {o[i].high : i \in w}
           OL == {o[i].low : i \in w}
<1>4. /\ H = ValuesAt(highs, w) /\ L = ValuesAt(lows, w)
      /\ OH = ValuesAt(ohighs, w) /\ OL = ValuesAt(olows, w)
  <2>1. \A i \in w : /\ highs[i] = rows[i].high /\ lows[i] = rows[i].low
                      /\ ohighs[i] = o[i].high /\ olows[i] = o[i].low
    BY <1>3
  <2> HIDE DEF highs, lows, ohighs, olows
  <2> QED BY <2>1, Zenon DEF ValuesAt
<1>5. \A i \in w : highs[i] \in Int /\ olows[i] = -highs[i]
  BY <1>1, <1>2, <1>3
<1>6. \A i \in w : ohighs[i] \in Int /\ lows[i] = -ohighs[i]
  BY <1>1, <1>2, <1>3
<1> HIDE DEF highs, lows, ohighs, olows, H, L, OH, OL
<1>7. Max(H) \in Int /\ Min(OL) = -Max(H)
  BY <1>3, <1>4, <1>5, MinOfOpposites
<1>8. Max(OH) \in Int /\ Min(L) = -Max(OH)
  BY <1>3, <1>4, <1>6, MinOfOpposites
<1> QED BY <1>7, <1>8 DEF o, H, L, OH, OL

(* Both charts have the same windows.                                                 *)
LEMMA WindowsAlike ==
    ASSUME NEW rows \in Seq(Candle)
    PROVE  Windows(Over(rows)) = Windows(rows)
BY OverIs DEF Windows

(* There are finitely many highs.                                                     *)
LEMMA FiniteHighs ==
    ASSUME NEW rows \in Seq(Candle)
    PROVE  IsFiniteSet(Highs(rows))
<1> DEFINE K == 1 .. Len(rows) - PivotWindow + 1
           f == [i \in K |-> Max({rows[j].high : j \in i .. i + PivotWindow - 1})]
<1>1. IsFiniteSet(K)
  <2>1. Len(rows) - PivotWindow + 1 \in Int
    BY RowsAre, PeriodsAssumption
  <2> QED BY <2>1, FS_Interval
<1>2. Highs(rows) = {f[i] : i \in K}
  BY DEF Highs, Windows
<1> HIDE DEF K
<1>3. f \in [K -> Highs(rows)] /\ \A t \in Highs(rows) : \E i \in K : f[i] = t
  BY <1>2
<1> HIDE DEF f
<1>4. f \in Surjection(K, Highs(rows))
  BY <1>3 DEF Surjection
<1> QED BY <1>1, <1>4, FS_Surjection

(* The lows of one chart are opposite to the highs of the other ...                   *)
LEMMA LevelsTurned ==
    ASSUME NEW rows \in Seq(Candle)
    PROVE  LET o == Over(rows) IN
           /\ Highs(rows) \subseteq Int /\ Lows(o) = Negated(Highs(rows))
           /\ Highs(o) \subseteq Int /\ Lows(rows) = Negated(Highs(o))
<1> DEFINE o == Over(rows)
           W == Windows(rows)
           high(w) == Max({rows[i].high : i \in w})
           low(w) == Min({rows[i].low : i \in w})
           ohigh(w) == Max({o[i].high : i \in w})
           olow(w) == Min({o[i].low : i \in w})
<1>1. \A w \in W : /\ high(w) \in Int /\ olow(w) = -high(w)
                    /\ ohigh(w) \in Int /\ low(w) = -ohigh(w)
  BY ExtremesTurned
<1>2. /\ Highs(rows) = {high(w) : w \in W} /\ Lows(rows) = {low(w) : w \in W}
      /\ Highs(o) = {ohigh(w) : w \in W} /\ Lows(o) = {olow(w) : w \in W}
  BY WindowsAlike, Zenon DEF Highs, Lows
<1> HIDE DEF o, W, high, low, ohigh, olow
<1>3. Highs(rows) \subseteq Int /\ Highs(o) \subseteq Int
  BY <1>1, <1>2
<1>4. Lows(o) = Negated(Highs(rows))
  BY <1>1, <1>2 DEF Negated
<1>5. Lows(rows) = Negated(Highs(o))
  BY <1>1, <1>2 DEF Negated
<1> QED BY <1>3, <1>4, <1>5 DEF o

(* ... and so are its supports to the resistances.                                    *)
LEMMA PivotsTurned ==
    ASSUME NEW rows \in Seq(Candle)
    PROVE  /\ Pivots(Over(rows)).supports = Negated(Pivots(rows).resistances)
           /\ Pivots(Over(rows)).resistances = Negated(Pivots(rows).supports)
           /\ \E s, r : Pivots(Over(rows)) = [supports |-> s, resistances |-> r]
<1> DEFINE o == Over(rows)
<1>1. /\ Highs(rows) \subseteq Int /\ Lows(o) = Negated(Highs(rows))
      /\ Highs(o) \subseteq Int /\ Lows(rows) = Negated(Highs(o))
  BY LevelsTurned
<1>2. o \in Seq(Candle) /\ Len(o) = Len(rows)
  BY OverIs
<1> HIDE DEF o
<1>3. IsFiniteSet(Highs(rows)) /\ IsFiniteSet(Highs(o))
  BY <1>2, FiniteHighs
<1>4. Supports(o) = Negated(Resistances(rows))
  BY <1>1, <1>3, LowestTurned DEF Supports, Resistances
<1>5. Supports(rows) = Negated(Resistances(o))
  BY <1>1, <1>3, LowestTurned DEF Supports, Resistances
<1>6. Resistances(o) \subseteq Int
  BY <1>1 DEF Resistances, Highest, Foremost
<1>7. Resistances(o) = Negated(Supports(rows))
  BY <1>5, <1>6, NegatedIs
<1>8. CASE Len(rows) < LevelRows
  BY <1>2, <1>8 DEF Pivots, Negated, o
<1>9. CASE ~(Len(rows) < LevelRows)
  BY <1>2, <1>4, <1>7, <1>9 DEF Pivots, o
<1> QED BY <1>8, <1>9

--------------------------------------------------------------------------------
(* The signals fired.                                                                 *)

(* When each signal fires.                                                            *)
LEMMA FiredAre ==
    ASSUME NEW r, NEW s
    PROVE  s \in Fired(r) <=>
             \/ s = "rsi_oversold" /\ Oversold(r.rsi)
             \/ s = "rsi_overbought" /\ Overbought(r.rsi) /\ ~Oversold(r.rsi)
             \/ s = "macd_bullish_cross" /\ r.cross = "bullish"
             \/ s = "macd_bearish_cross" /\ r.cross = "bearish"
             \/ s = "bb_lower_touch" /\ Outside(r.band, -1, 9, 5)
             \/ s = "bb_upper_touch" /\ Outside(r.band, 1, 9, 5)
             \/ s = "volume_surge" /\ r.surge
BY DEF Fired

(* Every signal's counterpart fires on the other chart.                               *)
LEMMA FiredTurned ==
    ASSUME NEW r, NEW o, NEW g \in Nat, NEW l \in Nat, g + l > 0,
           r.rsi = [gain |-> g, loss |-> l], o.rsi = [gain |-> l, loss |-> g],
           r.cross \in {"bullish", "bearish", "neutral"}, o.cross = Counterpart(r.cross),
           NEW off \in Int, NEW width \in Int,
           r.band = [off |-> off, width |-> width], o.band = [off |-> -off, width |-> width],
           o.surge = r.surge
    PROVE  Fired(o) = {Counterpart(s) : s \in Fired(r)}
<1>1. /\ Oversold(o.rsi) <=> Overbought(r.rsi)
      /\ Overbought(o.rsi) <=> Oversold(r.rsi)
      /\ ~(Oversold(r.rsi) /\ Overbought(r.rsi))
  <2>1. /\ r.rsi.gain = g /\ r.rsi.loss = l /\ o.rsi.gain = l /\ o.rsi.loss = g
    OBVIOUS
  <2> QED BY <2>1 DEF Oversold, Overbought
<1>2. /\ o.cross = "bullish" <=> r.cross = "bearish"
      /\ o.cross = "bearish" <=> r.cross = "bullish"
  BY DEF Counterpart
<1>3. /\ Outside(o.band, 1, 9, 5) <=> Outside(r.band, -1, 9, 5)
      /\ Outside(o.band, -1, 9, 5) <=> Outside(r.band, 1, 9, 5)
  <2>1. 1 + -1 = 0 /\ -1 + 1 = 0 /\ 1 \in Int /\ -1 \in Int
    OBVIOUS
  <2> QED BY <2>1, OutsideTurned
<1>4. ASSUME NEW s \in Fired(o) PROVE \E t \in Fired(r) : s = Counterpart(t)
  <2>1. \/ s = "rsi_oversold" /\ Oversold(o.rsi)
        \/ s = "rsi_overbought" /\ Overbought(o.rsi) /\ ~Oversold(o.rsi)
        \/ s = "macd_bullish_cross" /\ o.cross = "bullish"
        \/ s = "macd_bearish_cross" /\ o.cross = "bearish"
        \/ s = "bb_lower_touch" /\ Outside(o.band, -1, 9, 5)
        \/ s = "bb_upper_touch" /\ Outside(o.band, 1, 9, 5)
        \/ s = "volume_surge" /\ o.surge
    BY FiredAre, Zenon
  <2>2. Counterpart(s) \in Fired(r)
    <3>1. CASE s = "rsi_oversold" /\ Oversold(o.rsi)
      BY <1>1, <3>1 DEF Counterpart, Fired
    <3>2. CASE s = "rsi_overbought" /\ Overbought(o.rsi) /\ ~Oversold(o.rsi)
      BY <1>1, <3>2 DEF Counterpart, Fired
    <3>3. CASE s = "macd_bullish_cross" /\ o.cross = "bullish"
      BY <1>2, <3>3 DEF Counterpart, Fired
    <3>4. CASE s = "macd_bearish_cross" /\ o.cross = "bearish"
      BY <1>2, <3>4 DEF Counterpart, Fired
    <3>5. CASE s = "bb_lower_touch" /\ Outside(o.band, -1, 9, 5)
      BY <1>3, <3>5 DEF Counterpart, Fired
    <3>6. CASE s = "bb_upper_touch" /\ Outside(o.band, 1, 9, 5)
      BY <1>3, <3>6 DEF Counterpart, Fired
    <3>7. CASE s = "volume_surge" /\ o.surge
      BY <3>7 DEF Counterpart, Fired
    <3> QED BY <2>1, <3>1, <3>2, <3>3, <3>4, <3>5, <3>6, <3>7
  <2>3. s = Counterpart(Counterpart(s))
    BY <2>1 DEF Counterpart
  <2> QED BY <2>2, <2>3
<1>5. ASSUME NEW t \in Fired(r) PROVE Counterpart(t) \in Fired(o)
  <2>1. \/ t = "rsi_oversold" /\ Oversold(r.rsi)
        \/ t = "rsi_overbought" /\ Overbought(r.rsi) /\ ~Oversold(r.rsi)
        \/ t = "macd_bullish_cross" /\ r.cross = "bullish"
        \/ t = "macd_bearish_cross" /\ r.cross = "bearish"
        \/ t = "bb_lower_touch" /\ Outside(r.band, -1, 9, 5)
        \/ t = "bb_upper_touch" /\ Outside(r.band, 1, 9, 5)
        \/ t = "volume_surge" /\ r.surge
    BY FiredAre, Zenon
  <2>2. CASE t = "rsi_oversold" /\ Oversold(r.rsi)
    BY <1>1, <2>2 DEF Counterpart, Fired
  <2>3. CASE t = "rsi_overbought" /\ Overbought(r.rsi) /\ ~Oversold(r.rsi)
    BY <1>1, <2>3 DEF Counterpart, Fired
  <2>4. CASE t = "macd_bullish_cross" /\ r.cross = "bullish"
    BY <1>2, <2>4 DEF Counterpart, Fired
  <2>5. CASE t = "macd_bearish_cross" /\ r.cross = "bearish"
    BY <1>2, <2>5 DEF Counterpart, Fired
  <2>6. CASE t = "bb_lower_touch" /\ Outside(r.band, -1, 9, 5)
    BY <1>3, <2>6 DEF Counterpart, Fired
  <2>7. CASE t = "bb_upper_touch" /\ Outside(r.band, 1, 9, 5)
    BY <1>3, <2>7 DEF Counterpart, Fired
  <2>8. CASE t = "volume_surge" /\ r.surge
    BY <2>8 DEF Counterpart, Fired
  <2> QED BY <2>1, <2>2, <2>3, <2>4, <2>5, <2>6, <2>7, <2>8
<1> QED BY <1>4, <1>5

(* Near the long average one chart may be while the other is not, but not on the same *)
(* side.                                                                              *)
LEMMA NearTurned ==
    ASSUME NEW c \in Int, NEW e \in Int
    PROVE  \/ NearAverage(-c, -e) = Counterpart(NearAverage(c, e))
           \/ "none" \in {NearAverage(-c, -e), Counterpart(NearAverage(c, e))}
<1> DEFINE d == Scale * c - e
           k == Scale * (-c) - (-e)
           n == NearAverage(c, e)
           m == NearAverage(-c, -e)
<1>1. d \in Int /\ k = -d
  <2>1. Scale * c \in Int /\ Scale * (-c) = -(Scale * c)
    BY ScaleAssumption, OppositeProduct
  <2> QED BY <2>1
<1>2. /\ n \in {"ema200_support", "ema200_resistance", "none"}
      /\ n = "ema200_support" => d > 0
      /\ n = "ema200_resistance" => d < 0
  BY DEF NearAverage
<1>3. /\ m \in {"ema200_support", "ema200_resistance", "none"}
      /\ m = "ema200_support" => k > 0
      /\ m = "ema200_resistance" => k < 0
  BY DEF NearAverage
<1> HIDE DEF d, k, n, m
<1>4. m = Counterpart(n) \/ "none" \in {m, Counterpart(n)}
  <2>1. CASE n = "ema200_support"
    <3>1. ~(k > 0)
      BY <1>1, <1>2, <2>1
    <3>2. m \in {"ema200_resistance", "none"}
      BY <1>3, <3>1
    <3> QED BY <2>1, <3>2 DEF Counterpart
  <2>2. CASE n = "ema200_resistance"
    <3>1. ~(k < 0)
      BY <1>1, <1>2, <2>2
    <3>2. m \in {"ema200_support", "none"}
      BY <1>3, <3>1
    <3> QED BY <2>2, <3>2 DEF Counterpart
  <2>3. CASE n = "none"
    BY <2>3 DEF Counterpart
  <2> QED BY <1>2, <2>1, <2>2, <2>3
<1> QED BY <1>4 DEF n, m

--------------------------------------------------------------------------------
(* The score of either chart and the direction it is called.                          *)

(* The greatest of some numbers is the one no other exceeds ...                       *)
LEMMA HighestOf ==
    ASSUME NEW S, S \subseteq Int, NEW m \in S, \A y \in S : m >= y
    PROVE  Max(S) = m
<1>1. Max(S) \in S /\ \A y \in S : Max(S) >= y
  BY DEF Max
<1> DEFINE n == Max(S)
<1> HIDE DEF n
<1>2. n \in S /\ m \in S /\ n >= m /\ m >= n /\ n \in Int /\ m \in Int
  BY <1>1 DEF n
<1> QED BY <1>2 DEF n

(* ... and the least the one that exceeds no other.                                   *)
LEMMA LowestOf ==
    ASSUME NEW S, S \subseteq Int, NEW m \in S, \A y \in S : m <= y
    PROVE  Min(S) = m
<1>1. Min(S) \in S /\ \A y \in S : Min(S) <= y
  BY DEF Min
<1> DEFINE n == Min(S)
<1> HIDE DEF n
<1>2. n \in S /\ m \in S /\ n <= m /\ m <= n /\ n \in Int /\ m \in Int
  BY <1>1 DEF n
<1> QED BY <1>2 DEF n

(* Clipping leaves what is within the limits, and brings the rest there.              *)
LEMMA Clipped ==
    ASSUME NEW x \in Int, NEW limit \in Nat
    PROVE  LET c == Max({-limit, Min({limit, x})}) IN
           /\ c \in Int /\ -limit <= c /\ c <= limit
           /\ -limit <= x /\ x <= limit => c = x
<1> DEFINE low == Min({limit, x})
<1>1. low = IF x <= limit THEN x ELSE limit
  <2>1. {limit, x} \subseteq Int
    OBVIOUS
  <2>2. CASE x <= limit
    BY <2>1, <2>2, LowestOf
  <2>3. CASE ~(x <= limit)
    BY <2>1, <2>3, LowestOf
  <2> QED BY <2>2, <2>3
<1> HIDE DEF low
<1>2. low \in Int /\ -limit \in Int /\ {-limit, low} \subseteq Int
  BY <1>1
<1>3. Max({-limit, low}) = IF low >= -limit THEN low ELSE -limit
  <2>1. CASE low >= -limit
    <3>1. low \in {-limit, low} /\ \A y \in {-limit, low} : low >= y
      BY <1>2, <2>1
    <3> QED BY <1>2, <2>1, <3>1, HighestOf
  <2>2. CASE ~(low >= -limit)
    <3>1. -limit \in {-limit, low} /\ \A y \in {-limit, low} : -limit >= y
      BY <1>2, <2>2
    <3> QED BY <1>2, <2>2, <3>1, HighestOf
  <2> QED BY <2>1, <2>2
<1> DEFINE c == Max({-limit, low})
<1> HIDE DEF c
<1>4. c \in Int /\ -limit <= c /\ c <= limit /\ (-limit <= x /\ x <= limit => c = x)
  BY <1>1, <1>2, <1>3 DEF c
<1> QED BY <1>4 DEF c, low

(* A candle's range is a whole number ...                                             *)
LEMMA RangeType ==
    ASSUME NEW rows \in Seq(Candle), NEW i \in 1 .. Len(rows)
    PROVE  TrueRange(rows, i) \in Int
<1>1. rows[i].high \in Int /\ rows[i].low \in Int
  BY RowsAre
<1>2. CASE i = 1
  BY <1>1, <1>2 DEF TrueRange
<1>3. CASE i # 1
  <2>1. i - 1 \in 1 .. Len(rows)
    BY <1>3, RowsAre
  <2>2. rows[i - 1].close \in Int
    BY <2>1, RowsAre
  <2> DEFINE a == rows[i].high - rows[i].low
             b == Size(rows[i].high - rows[i - 1].close)
             c == Size(rows[i].low - rows[i - 1].close)
  <2>3. a \in Int /\ b \in Int /\ c \in Int
    BY <1>1, <2>2 DEF Size
  <2>4. TrueRange(rows, i) = Max({a, b, c})
    BY <1>3 DEF TrueRange
  <2> HIDE DEF a, b, c
  <2>5. PICK m \in {a, b, c} : \A y \in {a, b, c} : m >= y
    BY <2>3
  <2>6. Max({a, b, c}) = m
    BY <2>3, <2>5, HighestOf
  <2> QED BY <2>3, <2>4, <2>5, <2>6
<1> QED BY <1>2, <1>3

(* ... and so is the average of a chart's.                                            *)
LEMMA AtrType ==
    ASSUME NEW rows \in Seq(Candle)
    PROVE  AtrOf(rows) \in Int
<1> DEFINE N == Len(rows)
           xs == [i \in DOMAIN rows |-> Scale * TrueRange(rows, i)]
           y == Ewm(xs, AtrPeriod)
<1>1. N \in Nat /\ DOMAIN rows = 1 .. N /\ AtrPeriod \in Nat \ {0}
  BY RowsAre, PeriodsAssumption
<1>2. xs \in [1 .. N -> Int]
  <2>1. \A i \in 1 .. N : Scale * TrueRange(rows, i) \in Int
    BY RangeType, ScaleAssumption, OppositeProduct
  <2> QED BY <1>1, <2>1
<1> HIDE DEF xs
<1>3. y \in [1 .. N -> Int]
  BY <1>1, <1>2, EwmSteps
<1>4. CASE N < AtrPeriod
  BY <1>4 DEF AtrOf
<1>5. CASE ~(N < AtrPeriod)
  <2>1. AtrOf(rows) = Newest(y)
    BY <1>5, Zenon DEF AtrOf, xs
  <2>2. N \in 1 .. N
    BY <1>1, <1>5
  <2> HIDE DEF y, N
  <2>3. Newest(y) = y[N]
    BY <1>1, <1>3, NewestIs
  <2> QED BY <1>3, <2>1, <2>2, <2>3
<1> QED BY <1>4, <1>5

(* The points a range adds are few whatever the range.                                *)
LEMMA RangePointsAre ==
    ASSUME NEW atr \in Int, NEW previous \in Int
    PROVE  RangePoints(atr, previous) \in -50 .. 50
<1>1. CASE previous > 0
  <2> DEFINE x == (200 * (atr - previous)) \div previous
  <2>1. previous \in Nat \ {0} /\ 200 * (atr - previous) \in Int
    BY <1>1
  <2>2. x \in Int
    BY <2>1, Quotient
  <2>3. RangePoints(atr, previous) = Max({-50, Min({50, x})})
    BY <1>1 DEF RangePoints
  <2> HIDE DEF x
  <2> DEFINE limit == 50
             c == Max({-limit, Min({limit, x})})
  <2>4. limit \in Nat /\ RangePoints(atr, previous) = c
    BY <2>3
  <2> HIDE DEF limit
  <2>5. c \in Int /\ -limit <= c /\ c <= limit
    BY <2>2, <2>4, Clipped
  <2> HIDE DEF c
  <2> QED BY <2>4, <2>5 DEF limit
<1>2. CASE ~(previous > 0)
  BY <1>2 DEF RangePoints
<1> QED BY <1>1, <1>2

(* Volume adds or takes a few points.                                                 *)
LEMMA VolumePointsAre == ASSUME NEW v PROVE VolumePoints(v) \in {-10, 0, 10, 30, 40, 50}
BY DEF VolumePoints

(* With rises for falls, the RSI adds the opposite but at a threshold.                *)
LEMMA RsiLean ==
    ASSUME NEW g \in Nat, NEW l \in Nat, g + l > 0
    PROVE  LET r == [gain |-> g, loss |-> l]
               o == [gain |-> l, loss |-> g]
           IN  /\ RsiPoints(r) \in -100 .. 100 /\ RsiPoints(o) \in -100 .. 100
               /\ AtEdge(r) \in {0, 30, 40}
               /\ RsiPoints(r) + RsiPoints(o) = AtEdge(r)
<1> DEFINE r == [gain |-> g, loss |-> l]
           o == [gain |-> l, loss |-> g]
           s == g + l
           x == 100 * g
           y == 100 * l
<1>1. s \in Nat /\ x \in Nat /\ y \in Nat /\ x + y = 100 * s /\ s > 0
  OBVIOUS
<1>2. RsiPoints(r) = IF x <= 20 * s THEN 100 ELSE IF x <= 30 * s THEN 70
                     ELSE IF x <= 40 * s THEN 30 ELSE IF x <= 60 * s THEN 0
                     ELSE IF x <= 70 * s THEN -30 ELSE IF x <= 80 * s THEN -70 ELSE -100
  BY DEF RsiPoints
<1>3. RsiPoints(o) = IF y <= 20 * s THEN 100 ELSE IF y <= 30 * s THEN 70
                     ELSE IF y <= 40 * s THEN 30 ELSE IF y <= 60 * s THEN 0
                     ELSE IF y <= 70 * s THEN -30 ELSE IF y <= 80 * s THEN -70 ELSE -100
  <2>1. l + g = g + l
    OBVIOUS
  <2> QED BY <2>1 DEF RsiPoints
<1>4. AtEdge(r) = IF x = 30 * s \/ x = 70 * s THEN 40
                  ELSE IF x = 20 * s \/ x = 40 * s \/ x = 60 * s \/ x = 80 * s THEN 30 ELSE 0
  BY DEF AtEdge
<1> HIDE DEF r, o, s, x, y
<1>5. /\ RsiPoints(r) \in -100 .. 100 /\ RsiPoints(o) \in -100 .. 100
      /\ AtEdge(r) \in {0, 30, 40}
  BY <1>2, <1>3, <1>4
<1>6. RsiPoints(r) + RsiPoints(o) = AtEdge(r)
  BY <1>1, <1>2, <1>3, <1>4
<1> QED BY <1>5, <1>6 DEF r, o

(* Histograms with opposite signs add opposite points ...                             *)
LEMMA MacdOpposite ==
    ASSUME NEW h \in Int, NEW p \in Int
    PROVE  MacdPoints(-h, -p) = -MacdPoints(h, p) /\ MacdPoints(h, p) \in {-90, -30, 0, 30, 90}
BY DEF MacdPoints, Cross

(* ... and so do those of the two charts.                                             *)
LEMMA MacdTurned ==
    ASSUME NEW N, NEW hs, NEW gs, Opposed(N, hs, gs), N >= 2
    PROVE  /\ MacdPoints(Newest(gs), gs[Len(gs) - 1]) = -MacdPoints(Newest(hs), hs[Len(hs) - 1])
           /\ MacdPoints(Newest(hs), hs[Len(hs) - 1]) \in {-90, -30, 0, 30, 90}
<1>1. N \in Nat /\ hs \in [1 .. N -> Int] /\ gs \in [1 .. N -> Int] /\ \A i \in 1 .. N : gs[i] = -hs[i]
  BY DEF Opposed
<1>2. Newest(gs) = gs[N] /\ Newest(hs) = hs[N] /\ Len(gs) = N /\ Len(hs) = N
  BY <1>1, NewestIs
<1>3. N \in 1 .. N /\ N - 1 \in 1 .. N
  BY <1>1
<1>4. gs[N] = -hs[N] /\ gs[N - 1] = -hs[N - 1] /\ hs[N] \in Int /\ hs[N - 1] \in Int
  BY <1>1, <1>3
<1>5. /\ MacdPoints(-hs[N], -hs[N - 1]) = -MacdPoints(hs[N], hs[N - 1])
      /\ MacdPoints(hs[N], hs[N - 1]) \in {-90, -30, 0, 30, 90}
  BY <1>4, MacdOpposite, Zenon
<1> QED BY <1>2, <1>4, <1>5, Zenon

(* Bands with the close on the other side add opposite points.                        *)
LEMMA BandsOpposite ==
    ASSUME NEW off \in Int, NEW width \in Int
    PROVE  LET b == [off |-> off, width |-> width]
               o == [off |-> -off, width |-> width]
           IN  BandPoints(o) = -BandPoints(b) /\ BandPoints(b) \in {-100, -50, 0, 50, 100}
<1> DEFINE b == [off |-> off, width |-> width]
           o == [off |-> -off, width |-> width]
<1>1. /\ Outside(o, 1, 48, 25) <=> Outside(b, -1, 48, 25)
      /\ Outside(o, -1, 48, 25) <=> Outside(b, 1, 48, 25)
      /\ Outside(o, 1, 6, 5) <=> Outside(b, -1, 6, 5)
      /\ Outside(o, -1, 6, 5) <=> Outside(b, 1, 6, 5)
  <2>1. 1 + -1 = 0 /\ -1 + 1 = 0 /\ 1 \in Int /\ -1 \in Int
    OBVIOUS
  <2> QED BY <2>1, OutsideTurned
<1>2. \A n, d, m, e \in {5, 6, 25, 48} : ~(Outside(b, 1, n, d) /\ Outside(b, -1, m, e))
  BY DEF Outside
<1> HIDE DEF b, o
<1>3. /\ ~(Outside(b, 1, 48, 25) /\ Outside(b, -1, 48, 25))
      /\ ~(Outside(b, 1, 48, 25) /\ Outside(b, -1, 6, 5))
      /\ ~(Outside(b, 1, 6, 5) /\ Outside(b, -1, 48, 25))
      /\ ~(Outside(b, 1, 6, 5) /\ Outside(b, -1, 6, 5))
  BY <1>2
<1>4. BandPoints(o) = -BandPoints(b) /\ BandPoints(b) \in {-100, -50, 0, 50, 100}
  BY <1>1, <1>3 DEF BandPoints
<1> QED BY <1>4 DEF b, o

(* The weighted points are what the score is when they are within its limits.         *)
LEMMA ScoreIs ==
    ASSUME NEW order, NEW macd, NEW rsi, NEW band, NEW range, NEW busy, NEW x \in Int,
           x = 175 * (order + macd) + 300 * rsi + 20 * (7 * band + 3 * range) + 150 * busy,
           -100000 <= x, x <= 100000
    PROVE  FrameScore(order, macd, rsi, band, range, busy) = x
<1>1. FrameScore(order, macd, rsi, band, range, busy) = Max({-100000, Min({100000, x})})
  BY DEF FrameScore
<1> DEFINE limit == 100000
<1>2. limit \in Nat /\ -limit <= x /\ x <= limit
  OBVIOUS
<1>3. FrameScore(order, macd, rsi, band, range, busy) = Max({-limit, Min({limit, x})})
  BY <1>1
<1> HIDE DEF limit
<1> QED BY <1>2, <1>3, Clipped

(* Two scores that differ from opposites by so little are not called one direction.   *)
LEMMA SignalsDiffer ==
    ASSUME NEW x \in Int, NEW y \in Int, -40000 < x + y, x + y < 40000,
           FrameSignal(x) = FrameSignal(y)
    PROVE  FrameSignal(x) = "NEUTRAL"
BY DEF FrameSignal

--------------------------------------------------------------------------------
(* The whole reading.                                                                 *)

Figures == {"rsi", "cross", "order", "alignment", "near", "atr", "range", "band", "position",
            "vwap", "surge", "busy", "levels", "score", "signal", "fired"}

(* A reading of these figures.                                                        *)
LEMMA ReadingIs ==
    ASSUME NEW rsi, NEW cross, NEW order, NEW alignment, NEW near, NEW atr, NEW range, NEW band,
           NEW position, NEW vwap, NEW surge, NEW busy, NEW levels, NEW score, NEW signal,
           NEW fired,
           NEW found, found = [rsi |-> rsi, cross |-> cross, order |-> order,
                alignment |-> alignment, near |-> near, atr |-> atr, range |-> range,
                band |-> band, position |-> position, vwap |-> vwap, surge |-> surge,
                busy |-> busy, levels |-> levels, score |-> score, signal |-> signal,
                fired |-> {}],
           NEW r, r = [found EXCEPT !.fired = fired]
    PROVE  /\ DOMAIN r = Figures /\ r = [f \in Figures |-> r[f]]
           /\ r.rsi = rsi /\ r.cross = cross /\ r.order = order /\ r.alignment = alignment
           /\ r.near = near /\ r.atr = atr /\ r.range = range /\ r.band = band
           /\ r.position = position /\ r.vwap = vwap /\ r.surge = surge /\ r.levels = levels
           /\ r.busy = busy /\ r.score = score /\ r.signal = signal /\ r.fired = fired
           /\ found.rsi = rsi /\ found.cross = cross /\ found.band = band /\ found.surge = surge
BY DEF Figures

(* The figures of an analysis.                                                        *)
LEMMA AnalysisIs ==
    ASSUME NEW rows, NEW r, r = Analysis(rows)
    PROVE  LET closes == Column(rows, "close")
               hist == Histogram(closes)
               emas == Emas(closes)
           IN  /\ DOMAIN r = Figures /\ r = [f \in Figures |-> r[f]]
               /\ r.rsi = Rsi(closes) /\ r.cross = Cross(Newest(hist), hist[Len(hist) - 1])
               /\ r.order = AlignmentScore(emas) /\ r.alignment = Alignment(emas)
               /\ r.near = NearAverage(Newest(closes), emas[4])
               /\ r.atr = AtrOf(rows) /\ r.range = RangePoints(AtrOf(rows), AtrOf(SubSeq(rows, 1, Len(rows) - 1)))
               /\ r.band = Bands(closes) /\ r.position = BandPosition(Bands(closes))
               /\ r.vwap = Vwap(rows) /\ r.surge = Surge(Column(rows, "volume"))
               /\ r.busy = VolumePoints(Column(rows, "volume")) /\ r.levels = Pivots(rows)
               /\ r.score = FrameScore(r.order, MacdPoints(Newest(hist), hist[Len(hist) - 1]),
                                       RsiPoints(r.rsi), BandPoints(r.band), r.range, r.busy)
               /\ r.signal = FrameSignal(r.score)
               /\ \E found : /\ r.fired = Fired(found) /\ found.rsi = r.rsi /\ found.cross = r.cross
                              /\ found.band = r.band /\ found.surge = r.surge
<1> DEFINE closes == Column(rows, "close")
           hist == Histogram(closes)
           emas == Emas(closes)
           rsi == Rsi(closes)
           cross == Cross(Newest(hist), hist[Len(hist) - 1])
           order == AlignmentScore(emas)
           alignment == Alignment(emas)
           near == NearAverage(Newest(closes), emas[4])
           atr == AtrOf(rows)
           range == RangePoints(AtrOf(rows), AtrOf(SubSeq(rows, 1, Len(rows) - 1)))
           band == Bands(closes)
           position == BandPosition(Bands(closes))
           vwap == Vwap(rows)
           surge == Surge(Column(rows, "volume"))
           busy == VolumePoints(Column(rows, "volume"))
           levels == Pivots(rows)
           macd == MacdPoints(Newest(hist), hist[Len(hist) - 1])
           score == FrameScore(order, macd, RsiPoints(rsi), BandPoints(band), range, busy)
           signal == FrameSignal(score)
           found == [rsi |-> rsi, cross |-> cross, order |-> order,
                alignment |-> alignment, near |-> near, atr |-> atr, range |-> range,
                band |-> band, position |-> position, vwap |-> vwap, surge |-> surge,
                busy |-> busy, levels |-> levels, score |-> score, signal |-> signal,
                fired |-> {}]
           fired == Fired(found)
<1>1. r = [found EXCEPT !.fired = fired]
  BY Zenon DEF Analysis
<1>2. found = [rsi |-> rsi, cross |-> cross, order |-> order,
                alignment |-> alignment, near |-> near, atr |-> atr, range |-> range,
                band |-> band, position |-> position, vwap |-> vwap, surge |-> surge,
                busy |-> busy, levels |-> levels, score |-> score, signal |-> signal,
                fired |-> {}]
  OBVIOUS
<1>5. /\ score = FrameScore(order, macd, RsiPoints(rsi), BandPoints(band), range, busy)
      /\ signal = FrameSignal(score)
  OBVIOUS
<1> HIDE DEF rsi, cross, order, alignment, near, atr, range, band, position, vwap, surge, busy,
             levels, macd, score, signal, found, fired
<1>3. /\ DOMAIN r = Figures /\ r = [f \in Figures |-> r[f]]
      /\ r.rsi = rsi /\ r.cross = cross /\ r.order = order /\ r.alignment = alignment
      /\ r.near = near /\ r.atr = atr /\ r.range = range /\ r.band = band
      /\ r.position = position /\ r.vwap = vwap /\ r.surge = surge /\ r.levels = levels
      /\ r.busy = busy /\ r.score = score /\ r.signal = signal /\ r.fired = fired
      /\ found.rsi = rsi /\ found.cross = cross /\ found.band = band /\ found.surge = surge
  BY <1>1, <1>2, ReadingIs
<1>4. \E f : /\ r.fired = Fired(f) /\ f.rsi = r.rsi /\ f.cross = r.cross
              /\ f.band = r.band /\ f.surge = r.surge
  BY <1>3 DEF fired
<1>6. /\ r.score = FrameScore(r.order, macd, RsiPoints(r.rsi), BandPoints(r.band), r.range, r.busy)
      /\ r.signal = FrameSignal(r.score)
  BY <1>3, <1>5, Zenon
<1> QED BY <1>3, <1>4, <1>6, Zenon DEF rsi, cross, order, alignment, near, atr, range, band,
                                       position, vwap, surge, busy, levels, macd

(* What turning a reading makes of its figures.                                       *)
LEMMA TurnedIs ==
    ASSUME NEW r, DOMAIN r = Figures, r = [f \in Figures |-> r[f]]
    PROVE  LET t == Turned(r) IN
           /\ DOMAIN t = Figures
           /\ t.rsi = [gain |-> r.rsi.loss, loss |-> r.rsi.gain]
           /\ t.cross = Counterpart(r.cross) /\ t.order = -r.order
           /\ t.alignment = Counterpart(r.alignment)
           /\ t.near = Counterpart(r.near) /\ t.atr = r.atr /\ t.range = r.range
           /\ t.band = [r.band EXCEPT !.off = -r.band.off]
           /\ t.position = Counterpart(r.position)
           /\ t.vwap = [r.vwap EXCEPT !.sum = -r.vwap.sum] /\ t.surge = r.surge /\ t.busy = r.busy
           /\ t.levels = [supports |-> Negated(r.levels.resistances),
                          resistances |-> Negated(r.levels.supports)]
           /\ t.fired = {Counterpart(s) : s \in r.fired}
<1> DEFINE rsi == [gain |-> r.rsi.loss, loss |-> r.rsi.gain]
           cross == Counterpart(r.cross)
           order == -r.order
           alignment == Counterpart(r.alignment)
           near == Counterpart(r.near)
           band == [r.band EXCEPT !.off = -r.band.off]
           position == Counterpart(r.position)
           vwap == [r.vwap EXCEPT !.sum = -r.vwap.sum]
           levels == [supports |-> Negated(r.levels.resistances),
                      resistances |-> Negated(r.levels.supports)]
           fired == {Counterpart(s) : s \in r.fired}
           t == Turned(r)
<1>1. t = [r EXCEPT !.rsi = rsi, !.cross = cross, !.alignment = alignment,
                         !.order = order, !.near = near, !.band = band, !.position = position,
                         !.vwap = vwap, !.levels = levels, !.fired = fired]
  BY Zenon DEF Turned
<1> HIDE DEF rsi, cross, order, alignment, near, band, position, vwap, levels, fired, t
<1>2. /\ DOMAIN t = Figures
      /\ t.rsi = rsi /\ t.cross = cross /\ t.order = order /\ t.alignment = alignment
      /\ t.near = near /\ t.atr = r.atr /\ t.range = r.range /\ t.band = band
      /\ t.position = position /\ t.vwap = vwap /\ t.surge = r.surge /\ t.busy = r.busy
      /\ t.levels = levels
      /\ t.fired = fired
  BY <1>1 DEF Figures
<1> QED BY <1>2, Zenon DEF rsi, cross, order, alignment, near, band, position, vwap, levels,
                           fired, t

(* The analysis of a chart upside down is that of the chart, turned round.            *)
LEMMA Charts ==
    ASSUME NEW rows \in Seq(Candle), Len(rows) >= 2
    PROVE  LET other == Analysis(Over(rows))
               turned == Turned(Analysis(rows))
               shown == Analysis(rows)
           IN  /\ \A figure \in DOMAIN turned \ {"near", "score", "signal"} :
                     other[figure] = turned[figure]
               /\ other.near = turned.near \/ "none" \in {other.near, turned.near}
               /\ shown.score + other.score
                    = 300 * AtEdge(shown.rsi) + 120 * shown.range + 300 * shown.busy
               /\ shown.signal = other.signal => shown.signal = "NEUTRAL"
<1> DEFINE N == Len(rows)
           cs == Column(rows, "close")
           ds == Column(Over(rows), "close")
           r == Analysis(rows)
           o == Analysis(Over(rows))
           t == Turned(r)
           hs == Histogram(cs)
           gs == Histogram(ds)
           e == Emas(cs)
           f == Emas(ds)
<1>1. N \in Nat /\ N >= 2 /\ Opposed(N, cs, ds)
  BY RowsAre, ColumnsTurned
<1>2. /\ N \in Nat /\ cs \in [1 .. N -> Int] /\ ds \in [1 .. N -> Int]
      /\ \A i \in 1 .. N : ds[i] = -cs[i]
  BY <1>1 DEF Opposed
<1>3. Newest(cs) \in Int /\ Newest(ds) = -Newest(cs)
  <2> HIDE DEF cs, ds, N
  <2>1. Newest(cs) = cs[N] /\ Newest(ds) = ds[N]
    BY <1>2, NewestIs
  <2>2. N \in 1 .. N
    BY <1>1
  <2> QED BY <1>2, <2>1, <2>2
<1>4. /\ DOMAIN r = Figures /\ r = [x \in Figures |-> r[x]]
      /\ r.rsi = Rsi(cs) /\ r.cross = Cross(Newest(hs), hs[Len(hs) - 1])
      /\ r.order = AlignmentScore(e) /\ r.alignment = Alignment(e)
      /\ r.near = NearAverage(Newest(cs), e[4])
      /\ r.atr = AtrOf(rows) /\ r.range = RangePoints(AtrOf(rows), AtrOf(SubSeq(rows, 1, Len(rows) - 1)))
      /\ r.band = Bands(cs) /\ r.position = BandPosition(Bands(cs))
      /\ r.vwap = Vwap(rows) /\ r.surge = Surge(Column(rows, "volume"))
      /\ r.busy = VolumePoints(Column(rows, "volume")) /\ r.levels = Pivots(rows)
      /\ r.score = FrameScore(r.order, MacdPoints(Newest(hs), hs[Len(hs) - 1]),
                              RsiPoints(r.rsi), BandPoints(r.band), r.range, r.busy)
      /\ r.signal = FrameSignal(r.score)
      /\ \E found : /\ r.fired = Fired(found) /\ found.rsi = r.rsi /\ found.cross = r.cross
                     /\ found.band = r.band /\ found.surge = r.surge
  BY AnalysisIs, Zenon
<1>5. /\ DOMAIN o = Figures /\ o = [x \in Figures |-> o[x]]
      /\ o.rsi = Rsi(ds) /\ o.cross = Cross(Newest(gs), gs[Len(gs) - 1])
      /\ o.order = AlignmentScore(f) /\ o.alignment = Alignment(f)
      /\ o.near = NearAverage(Newest(ds), f[4])
      /\ o.atr = AtrOf(Over(rows))
      /\ o.range = RangePoints(AtrOf(Over(rows)),
                               AtrOf(SubSeq(Over(rows), 1, Len(Over(rows)) - 1)))
      /\ o.band = Bands(ds) /\ o.position = BandPosition(Bands(ds))
      /\ o.vwap = Vwap(Over(rows)) /\ o.surge = Surge(Column(Over(rows), "volume"))
      /\ o.busy = VolumePoints(Column(Over(rows), "volume")) /\ o.levels = Pivots(Over(rows))
      /\ o.score = FrameScore(o.order, MacdPoints(Newest(gs), gs[Len(gs) - 1]),
                              RsiPoints(o.rsi), BandPoints(o.band), o.range, o.busy)
      /\ o.signal = FrameSignal(o.score)
      /\ \E found : /\ o.fired = Fired(found) /\ found.rsi = o.rsi /\ found.cross = o.cross
                     /\ found.band = o.band /\ found.surge = o.surge
  BY AnalysisIs, Zenon
<1>6. /\ DOMAIN t = Figures
      /\ t.rsi = [gain |-> r.rsi.loss, loss |-> r.rsi.gain]
      /\ t.cross = Counterpart(r.cross) /\ t.order = -r.order
      /\ t.alignment = Counterpart(r.alignment)
      /\ t.near = Counterpart(r.near) /\ t.atr = r.atr /\ t.range = r.range
      /\ t.band = [r.band EXCEPT !.off = -r.band.off]
      /\ t.position = Counterpart(r.position)
      /\ t.vwap = [r.vwap EXCEPT !.sum = -r.vwap.sum] /\ t.surge = r.surge /\ t.busy = r.busy
      /\ t.levels = [supports |-> Negated(r.levels.resistances),
                     resistances |-> Negated(r.levels.supports)]
      /\ t.fired = {Counterpart(s) : s \in r.fired}
  <2>1. DOMAIN r = Figures /\ r = [x \in Figures |-> r[x]]
    BY <1>4
  <2> HIDE DEF r
  <2> QED BY <2>1, TurnedIs
<1> HIDE DEF r, o, t, N, cs, ds
<1>7. PICK g \in Nat, l \in Nat : /\ g + l > 0 /\ r.rsi = [gain |-> g, loss |-> l]
                                  /\ o.rsi = [gain |-> l, loss |-> g]
  <2>1. \E g, l \in Nat : /\ g + l > 0 /\ Rsi(cs) = [gain |-> g, loss |-> l]
                            /\ Rsi(ds) = [gain |-> l, loss |-> g]
    BY <1>1, RsiTurned
  <2>2. r.rsi = Rsi(cs) /\ o.rsi = Rsi(ds)
    BY <1>4, <1>5
  <2> QED BY <2>1, <2>2
<1>8. o.rsi = t.rsi
  BY <1>6, <1>7
<1>9. Opposed(N, hs, gs) /\ Opposed(4, e, f)
  BY <1>1, HistogramTurned, EmasTurned
<1>10. o.cross = t.cross
  BY <1>1, <1>4, <1>5, <1>6, <1>9, CrossTurned
<1>11. r.cross \in {"bullish", "bearish", "neutral"}
  BY <1>4 DEF Cross
<1>12. o.order = t.order /\ o.alignment = t.alignment /\ e[4] \in Int /\ f[4] = -e[4]
  BY <1>4, <1>5, <1>6, <1>9, OrderTurned
<1>13. o.near = t.near \/ "none" \in {o.near, t.near}
  BY <1>3, <1>4, <1>5, <1>6, <1>12, NearTurned
<1>14. o.atr = t.atr /\ o.range = t.range
  <2>1. AtrOf(Over(rows)) = AtrOf(rows)
    BY AtrTurned
  <2>2. AtrOf(SubSeq(Over(rows), 1, Len(Over(rows)) - 1)) = AtrOf(SubSeq(rows, 1, Len(rows) - 1))
    BY <1>1, EarlierTurned DEF N
  <2> QED BY <1>4, <1>5, <1>6, <2>1, <2>2, Zenon
<1>15. PICK off \in Int, width \in Int : /\ r.band = [off |-> off, width |-> width]
                                         /\ o.band = [off |-> -off, width |-> width]
  <2>1. \E off, width \in Int : /\ Bands(cs) = [off |-> off, width |-> width]
                                  /\ Bands(ds) = [off |-> -off, width |-> width]
    BY <1>1, BandsTurned
  <2>2. r.band = Bands(cs) /\ o.band = Bands(ds)
    BY <1>4, <1>5
  <2> QED BY <2>1, <2>2
<1>16. o.band = t.band
  <2> DEFINE m == -off
  <2>1. t.band = [[off |-> off, width |-> width] EXCEPT !.off = m]
    BY <1>6, <1>15
  <2>2. o.band = [off |-> m, width |-> width]
    BY <1>15
  <2> HIDE DEF m
  <2> QED BY <2>1, <2>2
<1>17. o.position = t.position
  BY <1>4, <1>5, <1>6, <1>15, PositionTurned
<1>18. o.vwap = t.vwap
  <2>1. PICK sum \in Int, volume \in Int : /\ r.vwap = [sum |-> sum, volume |-> volume]
                                           /\ o.vwap = [sum |-> -sum, volume |-> volume]
    <3>1. \E sum, volume \in Int : /\ Vwap(rows) = [sum |-> sum, volume |-> volume]
                                     /\ Vwap(Over(rows)) = [sum |-> -sum, volume |-> volume]
      BY VwapTurned
    <3>2. r.vwap = Vwap(rows) /\ o.vwap = Vwap(Over(rows))
      BY <1>4, <1>5
    <3> QED BY <3>1, <3>2
  <2> DEFINE m == -sum
  <2>2. t.vwap = [[sum |-> sum, volume |-> volume] EXCEPT !.sum = m]
    BY <1>6, <2>1
  <2>3. o.vwap = [sum |-> m, volume |-> volume]
    BY <2>1
  <2> HIDE DEF m
  <2> QED BY <2>2, <2>3
<1>19. o.surge = r.surge /\ t.surge = r.surge
  BY <1>4, <1>5, <1>6, SurgeIs
<1>24. o.busy = r.busy /\ t.busy = r.busy
  BY <1>4, <1>5, <1>6, ColumnsTurned
<1>20. o.levels = t.levels
  <2>1. /\ o.levels.supports = Negated(r.levels.resistances)
        /\ o.levels.resistances = Negated(r.levels.supports)
        /\ \E s, q : o.levels = [supports |-> s, resistances |-> q]
    <3>1. r.levels = Pivots(rows) /\ o.levels = Pivots(Over(rows))
      BY <1>4, <1>5
    <3> QED BY <3>1, PivotsTurned
  <2> QED BY <1>6, <2>1
<1>21. o.fired = t.fired
  <2>1. PICK p : r.fired = Fired(p) /\ p.rsi = r.rsi /\ p.cross = r.cross
                 /\ p.band = r.band /\ p.surge = r.surge
    BY <1>4
  <2>2. PICK q : o.fired = Fired(q) /\ q.rsi = o.rsi /\ q.cross = o.cross
                 /\ q.band = o.band /\ q.surge = o.surge
    BY <1>5
  <2>3. Fired(q) = {Counterpart(s) : s \in Fired(p)}
    <3>1. /\ p.rsi = [gain |-> g, loss |-> l] /\ q.rsi = [gain |-> l, loss |-> g] /\ g + l > 0
          /\ p.cross \in {"bullish", "bearish", "neutral"} /\ q.cross = Counterpart(p.cross)
          /\ p.band = [off |-> off, width |-> width] /\ q.band = [off |-> -off, width |-> width]
          /\ q.surge = p.surge
      BY <1>6, <1>7, <1>10, <1>11, <1>15, <1>19, <2>1, <2>2
    <3> QED BY <3>1, FiredTurned
  <2> QED BY <1>6, <2>1, <2>2, <2>3
<1>22. ASSUME NEW figure \in DOMAIN t \ {"near", "score", "signal"} PROVE o[figure] = t[figure]
  <2>1. figure \in Figures \ {"near", "score", "signal"}
    BY <1>6
  <2> QED BY <1>8, <1>10, <1>12, <1>14, <1>16, <1>17, <1>18, <1>19, <1>20, <1>21, <1>24, <2>1
          DEF Figures
<1>23. /\ r.score + o.score = 300 * AtEdge(r.rsi) + 120 * r.range + 300 * r.busy
       /\ r.signal = o.signal => r.signal = "NEUTRAL"
  <2> DEFINE order == r.order
             macd == MacdPoints(Newest(hs), hs[Len(hs) - 1])
             rsi == RsiPoints(r.rsi)
             across == RsiPoints(o.rsi)
             edge == AtEdge(r.rsi)
             band == BandPoints(r.band)
             range == r.range
             busy == r.busy
  <2>1. order \in -100 .. 100 /\ o.order = -order
    <3>1. AlignmentScore(e) \in -100 .. 100
      BY DEF AlignmentScore
    <3> QED BY <1>4, <1>6, <1>12, <3>1
  <2>2. macd \in -90 .. 90 /\ MacdPoints(Newest(gs), gs[Len(gs) - 1]) = -macd
    <3> HIDE DEF hs, gs
    <3>1. /\ MacdPoints(Newest(gs), gs[Len(gs) - 1]) = -macd
          /\ macd \in {-90, -30, 0, 30, 90}
      BY <1>1, <1>9, MacdTurned
    <3> HIDE DEF macd
    <3> QED BY <3>1
  <2>3. rsi \in -100 .. 100 /\ across \in -100 .. 100 /\ edge \in {0, 30, 40} /\ rsi + across = edge
    BY <1>7, RsiLean
  <2>4. band \in -100 .. 100 /\ BandPoints(o.band) = -band
    <3>1. BandPoints(o.band) = -band /\ band \in {-100, -50, 0, 50, 100}
      BY <1>15, BandsOpposite
    <3> HIDE DEF band
    <3> QED BY <3>1
  <2>5. range \in -50 .. 50 /\ o.range = range
    <3>1. AtrOf(rows) \in Int /\ AtrOf(SubSeq(rows, 1, Len(rows) - 1)) \in Int
      <4>1. SubSeq(rows, 1, Len(rows) - 1) \in Seq(Candle)
        BY <1>1 DEF N
      <4> QED BY <4>1, AtrType
    <3>2. range \in -50 .. 50
      BY <1>4, <3>1, RangePointsAre
    <3> QED BY <1>6, <1>14, <3>2
  <2>6. busy \in -10 .. 50 /\ o.busy = busy
    <3>1. busy \in {-10, 0, 10, 30, 40, 50}
      BY <1>4, VolumePointsAre
    <3> HIDE DEF busy
    <3>2. busy \in -10 .. 50
      BY <3>1
    <3> QED BY <1>24, <3>2 DEF busy
  <2>7. /\ r.score = FrameScore(order, macd, rsi, band, range, busy)
        /\ o.score = FrameScore(-order, -macd, across, -band, range, busy)
    BY <1>4, <1>5, <2>1, <2>2, <2>4, <2>5, <2>6, Zenon
  <2>8. r.signal = FrameSignal(r.score) /\ o.signal = FrameSignal(o.score)
    BY <1>4, <1>5
  <2> HIDE DEF order, macd, rsi, across, edge, band, range, busy
  <2> DEFINE x == 175 * (order + macd) + 300 * rsi + 20 * (7 * band + 3 * range) + 150 * busy
             y == 175 * ((-order) + (-macd)) + 300 * across + 20 * (7 * (-band) + 3 * range)
                    + 150 * busy
  <2>9. /\ x \in Int /\ -100000 <= x /\ x <= 100000
        /\ y \in Int /\ -100000 <= y /\ y <= 100000
        /\ x + y = 300 * edge + 120 * range + 300 * busy
    BY <2>1, <2>2, <2>3, <2>4, <2>5, <2>6
  <2>10. r.score = x /\ o.score = y
    BY <2>7, <2>9, ScoreIs
  <2> HIDE DEF x, y
  <2>11. -40000 < x + y /\ x + y < 40000
    BY <2>3, <2>5, <2>6, <2>9
  <2>12. FrameSignal(x) = FrameSignal(y) => FrameSignal(x) = "NEUTRAL"
    BY <2>9, <2>11, SignalsDiffer
  <2>13. r.score + o.score = 300 * AtEdge(r.rsi) + 120 * r.range + 300 * r.busy
    BY <2>9, <2>10 DEF edge, range, busy
  <2>14. r.signal = o.signal => r.signal = "NEUTRAL"
    BY <2>8, <2>10, <2>12
  <2> QED BY <2>13, <2>14
<1> QED BY <1>13, <1>22, <1>23 DEF o, t, r

(* The chart is of candles, and what is shown is what the analysis makes of it.       *)
ChartInv ==
    /\ chart \in Seq(Bars)
    /\ reading = IF Len(chart) < MinRows THEN NotAnalysed ELSE Analysis(chart)

(* A candle more leaves it so.                                                        *)
LEMMA ChartStep == ChartInv /\ [ChartNext]_ivars => ChartInv'
<1> SUFFICES ASSUME ChartInv, [ChartNext]_ivars PROVE ChartInv'
  OBVIOUS
<1>1. ASSUME NEW bar \in Bars, Analyse(bar) PROVE ChartInv'
  <2>1. chart' = Append(chart, bar)
    BY <1>1 DEF Analyse
  <2>2. chart' \in Seq(Bars)
    BY <2>1 DEF ChartInv
  <2> QED BY <1>1, <2>2, Zenon DEF Analyse, ChartInv
<1>2. CASE UNCHANGED ivars
  BY <1>2 DEF ChartInv, ivars
<1> QED BY <1>1, <1>2 DEF ChartNext

(* BothWaysAlike, for any candles and periods, any number of levels and candles a      *)
(* day: the analysis of a chart turned upside down is the analysis of the chart,      *)
(* turned round.                                                                       *)
THEOREM Alike == ChartSpec => []BothWaysAlike
<1>1. ChartInit => ChartInv
  <2> SUFFICES ASSUME ChartInit PROVE ChartInv
    OBVIOUS
  <2>1. chart \in Seq(Bars) /\ Len(chart) = 0 /\ MinRows > 0
    BY PeriodsAssumption DEF ChartInit
  <2>2. Len(chart) < MinRows
    BY <2>1, PeriodsAssumption
  <2> QED BY <2>1, <2>2 DEF ChartInit, ChartInv
<1>2. ChartInv => BothWaysAlike
  <2> SUFFICES ASSUME ChartInv, reading # NotAnalysed PROVE BothWaysAlike
    BY DEF BothWaysAlike
  <2>1. reading = Analysis(chart) /\ ~(Len(chart) < MinRows)
    BY DEF ChartInv
  <2>2. chart \in Seq(Candle)
    BY BarsAssumption DEF ChartInv
  <2>3. Len(chart) >= 2
    BY <2>1, <2>2, PeriodsAssumption
  <2> QED BY <2>1, <2>2, <2>3, Charts, Zenon DEF BothWaysAlike, Over
<1> QED BY <1>1, <1>2, ChartStep, PTL DEF ChartSpec
================================================================================
