---------------------------- MODULE MCDecisionChain ----------------------------
(* The markets and accounts DecisionChain is checked on: every combination of a   *)
(* low, a middle and a high reading of each indicator, a few futures markets and  *)
(* the accounts that sit on a limit.  The sizing, signal and position machines of *)
(* MCPositions are checked beside it: one runs while the others rest.             *)
EXTENDS DecisionChain, MCPositions, TLC

Percent(n) == Entry + (n * Entry) \div 1000       \* a level n tenths of a percent away
Trends == {[order |-> 100, ema |-> "bullish", stack |-> "LONG"],
           [order |-> 0, ema |-> "mixed", stack |-> "none"],
           [order |-> -100, ema |-> "bearish", stack |-> "SHORT"]}
Confirms == {[confirm |-> "bullish", confirmScore |-> 60000],
             [confirm |-> "mixed", confirmScore |-> 0],
             [confirm |-> "bearish", confirmScore |-> -60000]}
Momenta == {[cross |-> "bullish", hist |-> 1], [cross |-> "none", hist |-> 1],
            [cross |-> "none", hist |-> -1], [cross |-> "bearish", hist |-> -1]}
ChartLevels == {[supports |-> {}, resistances |-> {}],
           [supports |-> {Percent(-5)}, resistances |-> {Percent(5)}],
           [supports |-> {Percent(-240), Percent(5)}, resistances |-> {}],
           [supports |-> {Percent(-240), Percent(5)}, resistances |-> {Percent(240), Percent(-5)}]}

MCTechnicals ==
    {tr @@ co @@ mo @@ le @@ [rsi |-> r, pctB |-> b, bandwidth |-> w, atr |-> a, atrMove |-> 0,
                              vol |-> v, change |-> c, newsEvent |-> n] :
        tr \in Trends, co \in Confirms, mo \in Momenta, le \in ChartLevels,
        r \in {30, 50, 70}, b \in {10, 90}, w \in {4, 8, 12}, a \in {400, 1602},
        v \in {10, 25}, c \in {-60, 60}, n \in {FALSE}}

Quiet == [known |-> FALSE, funding |-> 0, openInterest |-> 0, longShort |-> 100,
          liquidations |-> FALSE, volumeJump |-> FALSE, headlines |-> 0, fearGreed |-> 50,
          spread |-> 20, minutesToFunding |-> 100]
MCMarkets ==
    {Quiet, [Quiet EXCEPT !.headlines = 90], [Quiet EXCEPT !.minutesToFunding = 5],
     [Quiet EXCEPT !.known = TRUE, !.openInterest = 60],
     [Quiet EXCEPT !.known = TRUE, !.openInterest = 60, !.funding = 10, !.longShort = 160],
     [Quiet EXCEPT !.known = TRUE, !.openInterest = 60, !.funding = -10, !.longShort = 50,
                   !.spread = 90]}

Fresh == [halted |-> FALSE, active |-> TRUE, maxLeverage |-> 10, daily |-> 0, dailyLimit |-> 100000,
          weekly |-> 0, weeklyLimit |-> 200000, streak |-> 0, open |-> 0, maxOpen |-> 1,
          holdsCoin |-> FALSE, riskPct |-> 5, openRisk |-> 0, portfolioPct |-> 10]
MCAccounts ==
    {Fresh, [Fresh EXCEPT !.halted = TRUE], [Fresh EXCEPT !.active = FALSE],
     [Fresh EXCEPT !.maxLeverage = 3], [Fresh EXCEPT !.riskPct = 1],
     [Fresh EXCEPT !.daily = 99000], [Fresh EXCEPT !.daily = 100000],
     [Fresh EXCEPT !.weekly = 200000], [Fresh EXCEPT !.streak = 3], [Fresh EXCEPT !.streak = 5],
     [Fresh EXCEPT !.open = 1, !.openRisk = 99000],
     [Fresh EXCEPT !.open = 1, !.maxOpen = 2, !.openRisk = 99000],
     [Fresh EXCEPT !.open = 1, !.holdsCoin = TRUE]}

ChainRests == stage = "score"
DecisionInit == Init /\ PositionsInit
DecisionSpec ==
    /\ DecisionInit
    /\ [][\/ PositionsRest /\ Next /\ UNCHANGED positionsVars
          \/ ChainRests /\ PositionsNext /\ UNCHANGED vars]_<<vars, positionsVars>>
================================================================================
