----------------------------- MODULE ExchangeAccounts ---------------------------
(* BinanceService: one user's exchange account and the orders the user sends by   *)
(* hand, with several requests served at a time. A request reads its account once *)
(* and works with what it read; each call to Binance is a step, and may be        *)
(* refused, or be done and its answer lost (the client calls both a failure).     *)
(* The exchange nets the orders of a symbol into one position; orders are of one  *)
(* unit, and one symbol stands for the two. Keys, balances and margins are left   *)
(* out, and so are the refusals that end a request before it has done anything:   *)
(* no stop loss, an unknown symbol, a real account while live trading is off.     *)
EXTENDS Integers, FiniteSets, FiniteSetsExt

CONSTANTS
    Requests,                          \* requests served at a time
    MaxAccounts, MaxOrders, MaxMishaps \* bounds: accounts, entries, failures of a call

ASSUME AccountsAssumption == /\ IsFiniteSet(Requests)
                             /\ {MaxAccounts, MaxOrders, MaxMishaps} \subseteq Nat

VARIABLES
    accounts, \* exchange_accounts: "none", "live" or "deleted", and the health kept
    request,  \* what each request is doing
    net,      \* the position: units held, negative when short
    resting,  \* reduce-only orders at the exchange, by what they are and the side they exit
    orders, mishaps,
    causes    \* ghost: units that something left without a stop, by side

accountVars == <<accounts, request, net, resting, orders, mishaps, causes>>
exchange == <<net, resting, orders, causes>>

Accounts == 1 .. MaxAccounts
Sides    == {"BUY", "SELL"}
Sign(side) == IF side = "BUY" THEN 1 ELSE -1

\* acct: the row the request works with; seen: its consecutive_failures when read.
Idle == [op |-> "none", at |-> "idle", side |-> "BUY", acct |-> 0, seen |-> 0]

NoRow == [state |-> "none", failures |-> 0, status |-> "healthy"]
Live == {i \in Accounts : accounts[i].state = "live"}

AccountsInit ==
    /\ accounts = [i \in Accounts |-> NoRow]
    /\ request = [r \in Requests |-> Idle]
    /\ net = 0 /\ resting = [kind \in {"stop", "target"} |-> [side \in Sides |-> 0]]
    /\ orders = 0 /\ mishaps = 0
    /\ causes = [side \in Sides |-> 0]

Goes(r, to) == request' = [request EXCEPT ![r].at = to]
Ends(r)     == request' = [request EXCEPT ![r] = Idle]

(********************************* the account **********************************)

\* connect_account looks for a row not deleted, and then asks Binance about the key.
\* With two of them scalar_one_or_none raises.
ConnectAccount(r) ==
    /\ request[r].at = "idle" /\ Live = {}
    /\ request' = [request EXCEPT ![r] = [Idle EXCEPT !.op = "connect", !.at = "validate"]]
    /\ UNCHANGED <<accounts, exchange, mishaps>>

\* The key is accepted, and its row is committed, or it is not.
Create(r) ==
    /\ request[r].at = "validate"
    /\ \/ \E i \in Accounts :
             /\ accounts[i].state = "none" /\ \A j \in Accounts : j < i => accounts[j].state # "none"
             /\ accounts' = [accounts EXCEPT ![i].state = "live"]
       \/ UNCHANGED accounts
    /\ Ends(r)
    /\ UNCHANGED <<exchange, mishaps>>

\* _get_account_or_raise: 404 without a row, MultipleResultsFound with two.
Begin(r, op, to, side) ==
    /\ request[r].at = "idle"
    /\ \E i \in Accounts :
          /\ Live = {i}
          /\ request' = [request EXCEPT ![r] = [op |-> op, at |-> to, side |-> side,
                                                acct |-> i, seen |-> accounts[i].failures]]
    /\ UNCHANGED <<accounts, exchange, mishaps>>

StartRequest(r) == \/ \E op \in {"balance", "positions", "cancel"} : Begin(r, op, "call", "BUY")
            \/ Begin(r, "disconnect", "delete", "BUY")
            \/ \E side \in Sides : orders < MaxOrders /\ Begin(r, "order", "leverage", side)

Delete(r) ==
    /\ request[r].at = "delete"
    /\ accounts' = [accounts EXCEPT ![request[r].acct].state = "deleted"]
    /\ Ends(r)
    /\ UNCHANGED <<exchange, mishaps>>

StatusAfter(n) == IF n >= 3 THEN "disconnected" ELSE "degraded"

\* record_failure. get_by_id finds the object the session already holds, with the
\* count of the time it was read.
RecordFailure(r) ==
    LET i == request[r].acct
        n == request[r].seen + 1
    IN  /\ request[r].at = "failing"
        /\ IF accounts[i].state = "live"
           THEN accounts' = [accounts EXCEPT ![i].failures = n, ![i].status = StatusAfter(n)]
           ELSE UNCHANGED accounts
        /\ Ends(r)
        /\ UNCHANGED <<exchange, mishaps>>

\* get_balance and get_positions when Binance answers: only the former resets.
Answered(r) ==
    /\ request[r].at = "call" /\ request[r].op \in {"balance", "positions"}
    /\ accounts' = IF request[r].op = "balance"
               THEN [accounts EXCEPT ![request[r].acct].failures = 0,
                                 ![request[r].acct].status = "healthy"]
               ELSE accounts
    /\ Ends(r)
    /\ UNCHANGED <<exchange, mishaps>>

(******************************* an order by hand *******************************)

Fault == mishaps < MaxMishaps /\ mishaps' = mishaps + 1

\* A call that is refused, whatever it was for.
Refused(r) ==
    /\ Fault
    /\ \/ request[r].at \in {"call", "leverage", "entry"} /\ Goes(r, "failing")
       \/ request[r].at = "target" /\ Goes(r, "stop")
       \/ request[r].at = "stop" /\ Goes(r, "emergency")
    /\ UNCHANGED <<accounts, exchange>>

SetLeverage(r) ==
    /\ request[r].at = "leverage" /\ Goes(r, "entry")
    /\ UNCHANGED <<accounts, exchange, mishaps>>

\* The entry is filled; when its answer is lost the request fails, and the position
\* stays as it is. No gate is asked and no halt is read on the way.
Enter(r) ==
    LET side == request[r].side IN
    /\ request[r].at = "entry"
    /\ net' = net + Sign(side) /\ orders' = orders + 1
    /\ \/ \E next \in {"target", "stop"} : Goes(r, next)
          /\ UNCHANGED <<mishaps, causes>>
       \/ Fault /\ Goes(r, "failing") /\ causes' = [causes EXCEPT ![side] = @ + 1]
    /\ UNCHANGED <<accounts, resting>>

\* After an exit order whose answer was lost: it is at the exchange, and the code
\* goes the way of a refusal.
AfterLoss(r, kind) == IF kind = "target" THEN Goes(r, "stop") ELSE Goes(r, "emergency")

\* The take profit, and the stop loss it is followed by.
PlaceExit(r) ==
    LET kind == request[r].at IN
    /\ kind \in {"target", "stop"}
    /\ resting' = [resting EXCEPT ![kind][request[r].side] = @ + 1]
    /\ \/ (IF kind = "target" THEN Goes(r, "stop") ELSE Ends(r)) /\ UNCHANGED mishaps
       \/ Fault /\ AfterLoss(r, kind)
    /\ UNCHANGED <<accounts, net, orders, causes>>

\* The order takes one unit off the side it exits, if there is one.
Exited(side) == net' = IF Sign(side) * net > 0 THEN net - Sign(side) ELSE net

\* Variant: the stop order's failure is an error like any other.
NoEmergency(r) ==
    /\ request[r].at = "emergency" /\ Ends(r)
    /\ UNCHANGED <<accounts, exchange, mishaps>>

\* _emergency_close: a failure is only logged, and the answer to the user is the same.
EmergencyClose(r) ==
    LET side == request[r].side IN
    /\ request[r].at = "emergency"
    /\ \/ Exited(side) /\ UNCHANGED <<mishaps, causes>>
       \/ /\ Fault /\ UNCHANGED net
          /\ causes' = [causes EXCEPT ![side] = @ + 1]
    /\ Ends(r)
    /\ UNCHANGED <<accounts, resting, orders>>

\* cancel_order takes any resting order, a stop included.
Cancel(r) ==
    /\ request[r].at = "call" /\ request[r].op = "cancel"
    /\ \E kind \in {"stop", "target"}, side \in Sides :
          /\ resting[kind][side] > 0
          /\ resting' = [resting EXCEPT ![kind][side] = @ - 1]
          /\ causes' = IF kind = "stop" THEN [causes EXCEPT ![side] = @ + 1] ELSE causes
    /\ \/ Ends(r) /\ UNCHANGED mishaps
       \/ Fault /\ Goes(r, "failing")
    /\ UNCHANGED <<accounts, net, orders>>

(*************************** the exchange, the process **************************)

\* A resting order is triggered: it reduces the position, or finds none.
Triggered ==
    /\ \E kind \in {"stop", "target"}, side \in Sides :
          /\ resting[kind][side] > 0
          /\ resting' = [resting EXCEPT ![kind][side] = @ - 1]
          /\ Exited(side)
    /\ UNCHANGED <<accounts, request, orders, mishaps, causes>>

Entered(r) == request[r].op = "order" /\ request[r].at \in {"target", "stop", "emergency"}
InFlight(side) == Cardinality({r \in Requests : Entered(r) /\ request[r].side = side})

\* The server goes down with what it was serving.
ServerCrash ==
    /\ Fault
    /\ causes' = [side \in Sides |-> causes[side] + InFlight(side)]
    /\ request' = [r \in Requests |-> Idle]
    /\ UNCHANGED <<accounts, net, resting, orders>>

Serve(r) == \/ ConnectAccount(r) \/ Create(r) \/ StartRequest(r) \/ Delete(r)
            \/ RecordFailure(r) \/ Answered(r) \/ Refused(r)
            \/ SetLeverage(r) \/ Enter(r) \/ PlaceExit(r) \/ EmergencyClose(r) \/ Cancel(r)

AccountsNext == (\E r \in Requests : Serve(r)) \/ Triggered \/ ServerCrash
AccountsSpec == AccountsInit /\ [][AccountsNext]_accountVars

(********************************* properties ***********************************)

\* Every unit held without a stop order of its own has a cause of its own: an entry
\* still being served, an entry whose answer was lost, an emergency close that failed,
\* a stop the user cancelled, a crash. Opposite orders that net out, exits that
\* trigger meanwhile and stops left over from earlier orders do not add one.
StopsCover ==
    \A side \in Sides :
        Sign(side) * net <= resting["stop"][side] + InFlight(side) + causes[side]
================================================================================
