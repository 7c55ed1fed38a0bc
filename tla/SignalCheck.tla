------------------------------ MODULE SignalCheck -------------------------------
(* POST /risk/validate and the kill-switch endpoints: RiskService gathers the      *)
(* user's settings, balance, open positions and losses, RiskEngine.validate judges *)
(* a signal by them and sizes it.  Prices and balances are in dollars, quantities   *)
(* in lots of a thousandth of a coin, losses and margins therefore in thousandths   *)
(* of a dollar, shares of the balance in hundredths of a percent.  Rounding to      *)
(* cents is left out, a price or a leverage below one as well.                     *)
EXTENDS Integers, FiniteSets, FiniteSetsExt

CONSTANTS
    Traders,   \* settings, balance, losses and open positions a user may have
    Orders     \* signals sent for validation

ASSUME TraderAssumption ==
    \A t \in Traders : /\ t.risk \in 50 .. 500 /\ t.lev \in 1 .. 20 /\ t.slots > 0
                       /\ t.balance \in Nat /\ t.daily \in Nat \ {0} /\ t.lostToday \in Nat
                       /\ t.plan \in {"free", "pro", "elite"}
ASSUME OrderAssumption ==
    \A o \in Orders : {o.entry, o.stop, o.target} \subseteq Nat /\ o.lev \in Nat \ {0}

VARIABLES
    trader,    \* the user as the database has it
    halt,      \* the halt key: "none", or its trigger
    stopped,   \* the user's kill switch
    cooling,   \* the cooldown after three losses
    reply      \* the answer to the last signal

checkVars == <<trader, halt, stopped, cooling, reply>>

NoReply == [code |-> "none"]
CheckInit ==
    /\ trader \in Traders
    /\ halt = "none" /\ stopped = FALSE /\ cooling = FALSE /\ reply = NoReply

(********************************* limits and sizes ******************************)

PlanLeverage == [free |-> 5, pro |-> 10, elite |-> 20]
PlanPositions == [free |-> 1, pro |-> 5, elite |-> 20]
WeeklyShare == [conservative |-> 500, moderate |-> 1000, aggressive |-> 1500]
PortfolioShare(profile) == IF profile = "aggressive" THEN 1500 ELSE 1000

ResolvedLeverage(o, t) == Min({o.lev, t.lev, PlanLeverage[t.plan]})
StopGap(o) == IF o.entry > o.stop THEN o.entry - o.stop ELSE o.stop - o.entry

\* Variant: the quantity sizing.py:8 describes, multiplied by the leverage.
LotsTimesLeverage(o, t) ==
    IF StopGap(o) = 0 THEN 0
    ELSE (t.balance * t.risk * ResolvedLeverage(o, t)) \div (10 * StopGap(o))

\* calculate_position_size: what loses the risked share at the stop, in whole lots.
Lots(o, t) ==
    IF StopGap(o) = 0 THEN 0 ELSE (t.balance * t.risk) \div (10 * StopGap(o))

\* validate_position_size: at least a lot and five dollars, at most a fifth of the
\* balance as margin (and, with a tenth to spare, the balance).
Sizeable(lots, o, t) ==
    LET margin(share) == share * lots * o.entry  room == 1000 * t.balance * ResolvedLeverage(o, t)
    IN  lots >= 1 /\ lots * o.entry >= 5000 /\ margin(5) <= room /\ 11 * margin(1) <= 10 * room

\* check_rr_ratio.
TwiceTheRisk(o) ==
    LET side == IF o.dir = "LONG" THEN 1 ELSE -1
        loss == side * (o.entry - o.stop)
    IN  o.target > 0 /\ loss > 0 /\ side * (o.target - o.entry) >= 2 * loss

SameCoin(o, t) == {p \in t.positions : p.coin = o.coin}
OpenRisk(t) == MapThenSumSet(LAMBDA p : p.risk, t.positions)
ASSUME RiskAssumption == \A t \in Traders : OpenRisk(t) \in Nat

(************************************ the checks *********************************)

\* The limits on losses are the user's in dollars and the profile's share; without a
\* balance the first is nothing and the second is not asked.
DailyLimit(t) == IF t.balance = 0 THEN 0 ELSE 1000 * t.daily
OverDaily(t) ==
    \/ DailyLimit(t) > 0 /\ t.lostToday >= DailyLimit(t)
    \/ 10 * t.lostToday + t.balance * t.risk > 10 * DailyLimit(t)
OverWeekly(t) == t.balance > 0 /\ 10 * t.lostThisWeek >= t.balance * WeeklyShare[t.profile]

\* RiskService and RiskEngine.validate in order, with the code each check rejects by.
Checked(o, t) == <<
    <<"NO_ACCOUNT",        ~t.account>>,
    <<"KILL_SWITCH",       stopped \/ halt # "none">>,
    <<"HOLD",              o.dir = "HOLD">>,
    <<"TRADING_INACTIVE",  ~t.active>>,
    <<"ORDER_003",         o.stop <= 0>>,
    <<"ORDER_004",         ~TwiceTheRisk(o)>>,
    <<"LOW_CONFIDENCE",    o.confidence < 60>>,
    <<"TIME_RESTRICTION",  ~t.inHours>>,
    <<"ORDER_001",         OverDaily(t)>>,
    <<"WEEKLY_LOSS",       OverWeekly(t)>>,
    <<"CONSEC_LOSS",       cooling \/ t.streak >= 3>>,
    <<"ORDER_002",         /\ Cardinality(t.positions) >= Min({t.slots, PlanPositions[t.plan]})
                           /\ SameCoin(o, t) = {}>>,
    <<"POSITION_CONFLICT", \E p \in SameCoin(o, t) : p.dir = o.dir /\ p.additions >= 2>>,
    <<"SIZING",            ~Sizeable(Lots(o, t), o, t)>>,
    <<"PORTFOLIO_RISK",    10 * (OpenRisk(t) + Lots(o, t) * StopGap(o))
                              > t.balance * PortfolioShare(t.profile)>> >>

\* What is done with the position the coin already has.
PreAction(o, t) ==
    IF SameCoin(o, t) = {} THEN "none"
    ELSE IF \E p \in SameCoin(o, t) : p.dir = o.dir THEN "dca" ELSE "close_existing"

(************************************ requests ***********************************)

Code(checks) ==
    LET failed == {i \in DOMAIN checks : checks[i][2]}
    IN  IF failed = {} THEN "approved" ELSE checks[Min(failed)][1]

Judge(o) ==
    \E code \in {Code(Checked(o, trader))} :
        /\ reply' = IF code = "approved"
                    THEN [code |-> code, order |-> o, lots |-> Lots(o, trader),
                          lev |-> ResolvedLeverage(o, trader), first |-> PreAction(o, trader)]
                    ELSE [code |-> code]
        /\ halt' = CASE code = "ORDER_001" -> "daily"
                     [] code = "WEEKLY_LOSS" -> "weekly"
                     [] code = "CONSEC_LOSS" /\ trader.streak >= 5 -> "consecutive"
                     [] OTHER -> halt
        /\ cooling' = (cooling \/ (code = "CONSEC_LOSS" /\ trader.streak < 5))
        /\ UNCHANGED <<trader, stopped>>

\* activate_kill_switch and deactivate_kill_switch.
Stop == stopped' = TRUE /\ halt' = "manual" /\ UNCHANGED cooling
Restart == stopped' = FALSE /\ halt' = "none" /\ cooling' = FALSE

\* Redis forgets a halt until midnight or Monday, and a cooldown.
HaltLapses == halt \in {"daily", "weekly"} /\ halt' = "none" /\ UNCHANGED <<stopped, cooling>>
CooldownLapses == cooling /\ cooling' = FALSE /\ UNCHANGED <<stopped, halt>>

\* The rest of the system changes what the database has of the user.
Changes == trader' \in Traders \ {trader} /\ UNCHANGED <<halt, stopped, cooling>>

CheckNext ==
    \/ \E o \in Orders : Judge(o)
    \/ (Stop \/ Restart \/ HaltLapses \/ CooldownLapses) /\ reply' = NoReply /\ UNCHANGED trader
    \/ Changes /\ reply' = NoReply

CheckSpec == CheckInit /\ [][CheckNext]_checkVars

(*********************************** properties **********************************)

\* However the settings, the plan, the leverage asked for and the open positions
\* combine, an approved quantity loses at its stop no more than the share the user
\* risks and has left for the day, and with the open positions no more than the
\* portfolio may; a fifth of the balance pays its margin at a leverage the plan allows.
ApprovedSignalFits ==
    reply.code = "approved" =>
        LET o == reply.order
            loss == reply.lots * StopGap(o)
        IN  /\ loss > 0 /\ 10 * loss <= trader.balance * trader.risk
            /\ trader.lostToday + loss <= 1000 * trader.daily
            /\ 10 * (OpenRisk(trader) + loss) <= trader.balance * PortfolioShare(trader.profile)
            /\ reply.lots * o.entry * 5 <= 1000 * trader.balance * reply.lev
            /\ reply.lev \in 1 .. PlanLeverage[trader.plan]
================================================================================
