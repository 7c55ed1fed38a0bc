----------------------------- MODULE MCPositions -------------------------------
(* Two positions, long or short, with a low and a high leverage; an account with   *)
(* room for both and one below a tenth of what it began with. Records that are too  *)
(* short, lose, barely win, win always and win much.                              *)
EXTENDS PositionBook, Sizing, SignalCheck

Sg(dir, target, stop, lev, risk) ==
    [dir |-> dir, entry |-> 200, target |-> target, stop |-> stop, lev |-> lev, risk |-> risk]
MCSignals == {Sg("LONG", 212, 196, 5, 24), Sg("SHORT", 190, 204, 20, 12)}
MCContexts == {[available |-> 400, initial |-> 400, limit |-> 10],
               [available |-> 30, initial |-> 400, limit |-> 10]}
MCStats == {[daily |-> 0, dailyLimit |-> 100, weekly |-> 0, weeklyLimit |-> 0, cooldown |-> FALSE],
            [daily |-> 50, dailyLimit |-> 100, weekly |-> 0, weeklyLimit |-> 0, cooldown |-> FALSE]}

MCRequests ==
    {[dir |-> d, entry |-> 100, stop |-> s, target |-> t, lev |-> l, pct |-> p, usdt |-> u, kelly |-> k] :
        d \in {"LONG", "SHORT"}, s \in {0, 97, 100, 103}, t \in {0, 94, 105, 106}, l \in {1, 20},
        p \in {10, 200, 900}, u \in {0, 7, 600}, k \in {1, 8}}
Rec(trades, wins, win, loss) == [trades |-> trades, wins |-> wins, win |-> win, loss |-> loss]
MCRecords == {Rec(0, 0, 0, 0), Rec(19, 19, 10, 5), Rec(20, 2, 10, 10), Rec(49, 25, 10, 10),
              Rec(100, 100, 10, 0), Rec(120, 90, 30, 10)}

At(coin, dir, risk, additions) == [coin |-> coin, dir |-> dir, risk |-> risk, additions |-> additions]
Usual == [account |-> TRUE, active |-> TRUE, inHours |-> TRUE, plan |-> "pro", profile |-> "moderate",
          risk |-> 200, lev |-> 20, slots |-> 2, daily |-> 50, balance |-> 1000,
          lostToday |-> 0, lostThisWeek |-> 0, streak |-> 0, positions |-> {}]
MCTraders ==
    {Usual, [Usual EXCEPT !.account = FALSE], [Usual EXCEPT !.active = FALSE],
     [Usual EXCEPT !.inHours = FALSE], [Usual EXCEPT !.balance = 0], [Usual EXCEPT !.balance = 2],
     [Usual EXCEPT !.lostToday = 30000, !.lostThisWeek = 99000], [Usual EXCEPT !.lostToday = 31000],
     [Usual EXCEPT !.lostToday = 50000], [Usual EXCEPT !.lostThisWeek = 100000],
     [Usual EXCEPT !.streak = 3], [Usual EXCEPT !.streak = 5],
     [Usual EXCEPT !.plan = "free", !.positions = {At("ETH", "LONG", 20000, 0)}],
     [Usual EXCEPT !.positions = {At("ETH", "LONG", 80000, 0)}],
     [Usual EXCEPT !.positions = {At("ETH", "LONG", 80500, 0)}],
     [Usual EXCEPT !.positions = {At("BTC", "SHORT", 20000, 0)}],
     [Usual EXCEPT !.positions = {At("BTC", "LONG", 20000, 1), At("ETH", "LONG", 20000, 2)}],
     [Usual EXCEPT !.positions = {At("BTC", "LONG", 20000, 2)}],
     [Usual EXCEPT !.plan = "elite", !.profile = "aggressive", !.risk = 500]}
Buy == [dir |-> "LONG", coin |-> "BTC", entry |-> 100, stop |-> 98, target |-> 104, lev |-> 3, confidence |-> 60]
MCOrders ==
    {[Buy EXCEPT !.dir = "HOLD"], [Buy EXCEPT !.confidence = 59]} \cup
    {[Buy EXCEPT !.dir = d, !.stop = s, !.target = t, !.lev = l] :
        d \in {"LONG", "SHORT"}, s \in {0, 60, 93, 98, 100, 102}, t \in {0, 96, 103, 104, 180}, l \in {3, 20}}

\* Three machines that share nothing: one runs while the others are as they began.
BookRests == Held = {} /\ ops = 0 /\ agreed = NoPromise
SizingRests == asked = <<>>
CheckRests == halt = "none" /\ ~stopped /\ ~cooling /\ reply = NoReply /\ trader = Usual

positionsVars == <<bvars, sizeVars, checkVars>>
PositionsRest == BookRests /\ SizingRests /\ CheckRests
PositionsInit == BookInit /\ SizeInit /\ CheckInit /\ trader = Usual
PositionsNext ==
    \/ SizingRests /\ CheckRests /\ BookNext /\ UNCHANGED <<sizeVars, checkVars>>
    \/ BookRests /\ CheckRests /\ SizeNext /\ UNCHANGED <<bvars, checkVars>>
    \/ BookRests /\ SizingRests /\ CheckNext /\ UNCHANGED <<bvars, sizeVars>>
================================================================================
