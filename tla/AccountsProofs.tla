---------------------------- MODULE AccountsProofs -----------------------------
(* Proofs about the accounts positions come to outside the live pipeline. By        *)
(* hand: for any finite set of requests, any number of accounts and entries, and    *)
(* any number of failed calls and crashes. On paper: for any finite set of signals, *)
(* any prices, ratios, fees and limits, any number of trades and any time. In a     *)
(* backtest: for any bars, signals and costs. At the close of a shadow trade: for   *)
(* any quotes, times and costs.                                                     *)
EXTENDS ExchangeAccounts, PaperAccount, Backtest, ShadowPnl, SumTheorems

(***************************** the exchange account *******************************)

Ops == {"none", "connect", "balance", "positions", "cancel", "disconnect", "order"}
Places == {"idle", "validate", "call", "delete", "leverage", "entry", "target", "stop",
           "emergency", "failing"}

AccountTypes ==
    /\ accounts \in [Accounts -> [state : {"none", "live", "deleted"}, failures : Nat,
                                  status : {"healthy", "degraded", "disconnected"}]]
    /\ request \in [Requests -> [op : Ops, at : Places, side : Sides,
                                 acct : {0} \cup Accounts, seen : Nat]]

ExchangeTypes ==
    /\ net \in Int
    /\ resting \in [{"stop", "target"} -> [Sides -> Nat]]
    /\ orders \in Nat /\ mishaps \in Nat
    /\ causes \in [Sides -> Nat]

(* What a request works with: an account it has found, and an order only if that is *)
(* what it was made for.                                                            *)
RequestInv ==
    \A r \in Requests :
        /\ request[r].at \in {"leverage", "entry", "target", "stop", "emergency"}
              => request[r].op = "order"
        /\ request[r].at \notin {"idle", "validate"} => request[r].acct \in Accounts

AccountsInv == AccountTypes /\ ExchangeTypes /\ RequestInv /\ StopsCover

--------------------------------------------------------------------------------
(* How many entries are being served, when a single request moves.                  *)

Counts(r, side) == IF Entered(r) /\ request[r].side = side THEN 1 ELSE 0

(* The number of entries being served is a natural number.                            *)
LEMMA InFlightType ==
    ASSUME NEW side \in Sides
    PROVE  InFlight(side) \in Nat
<1>1. IsFiniteSet({r \in Requests : Entered(r) /\ request[r].side = side})
  BY AccountsAssumption, FS_Subset
<1> QED BY <1>1, FS_CardinalityType DEF InFlight

(* So it is in the next state.                                                        *)
LEMMA InFlightPrimed ==
    ASSUME NEW side \in Sides
    PROVE  InFlight(side)' \in Nat
<1>1. IsFiniteSet({r \in Requests : Entered(r)' /\ request'[r].side = side})
  BY AccountsAssumption, FS_Subset
<1> QED BY <1>1, FS_CardinalityType DEF InFlight

(* When one request moves, the number changes by that request's own count.            *)
LEMMA InFlightStep ==
    ASSUME NEW r \in Requests, NEW side \in Sides,
           \A q \in Requests \ {r} : request'[q] = request[q]
    PROVE  InFlight(side)' + Counts(r, side) = InFlight(side) + Counts(r, side)'
<1> DEFINE S == {q \in Requests : Entered(q) /\ request[q].side = side}
           T == {q \in Requests : Entered(q)' /\ request'[q].side = side}
<1>1. IsFiniteSet(S) /\ IsFiniteSet(T)
  BY AccountsAssumption, FS_Subset
<1>2. S \ {r} = T \ {r}
  BY DEF Entered
<1>3. /\ Cardinality(S \ {r}) = IF r \in S THEN Cardinality(S) - 1 ELSE Cardinality(S)
      /\ Cardinality(T \ {r}) = IF r \in T THEN Cardinality(T) - 1 ELSE Cardinality(T)
  BY <1>1, FS_RemoveElement
<1>4. Cardinality(S) \in Nat /\ Cardinality(T) \in Nat
  BY <1>1, FS_CardinalityType
<1>5. (r \in S <=> Entered(r) /\ request[r].side = side)
      /\ (r \in T <=> Entered(r)' /\ request'[r].side = side)
  OBVIOUS
<1>6. InFlight(side) = Cardinality(S) /\ InFlight(side)' = Cardinality(T)
  BY DEF InFlight
<1> HIDE DEF S, T
<1>7. /\ Counts(r, side) = IF r \in S THEN 1 ELSE 0
      /\ Counts(r, side)' = IF r \in T THEN 1 ELSE 0
  BY <1>5, Zenon DEF Counts
<1> QED BY <1>2, <1>3, <1>4, <1>6, <1>7
--------------------------------------------------------------------------------
(* A request that goes on, and one that ends.                                       *)

(* A request that goes on to its next place keeps what it is, and RequestInv.         *)
LEMMA GoesOn ==
    ASSUME AccountTypes, RequestInv, NEW r \in Requests, NEW to \in Places,
           Goes(r, to), request[r].at \notin {"idle", "validate"},
           to \in {"leverage", "entry", "target", "stop", "emergency"} => request[r].op = "order"
    PROVE  /\ request' \in [Requests -> [op : Ops, at : Places, side : Sides,
                                         acct : {0} \cup Accounts, seen : Nat]]
           /\ request'[r].at = to /\ request'[r].op = request[r].op
           /\ request'[r].side = request[r].side
           /\ \A q \in Requests \ {r} : request'[q] = request[q]
           /\ RequestInv'
<1>1. /\ request' = [request EXCEPT ![r].at = to]
      /\ request[r] \in [op : Ops, at : Places, side : Sides, acct : {0} \cup Accounts, seen : Nat]
  BY DEF Goes, AccountTypes
<1>2. /\ request' \in [Requests -> [op : Ops, at : Places, side : Sides,
                                    acct : {0} \cup Accounts, seen : Nat]]
      /\ request'[r].at = to /\ request'[r].op = request[r].op
      /\ request'[r].side = request[r].side /\ request'[r].acct = request[r].acct
      /\ \A q \in Requests \ {r} : request'[q] = request[q]
  BY <1>1 DEF AccountTypes
<1>3. RequestInv'
  BY <1>2 DEF RequestInv
<1> QED BY <1>2, <1>3

(* An idle request is a request.                                                      *)
LEMMA IdleType ==
    Idle \in [op : Ops, at : Places, side : Sides, acct : {0} \cup Accounts, seen : Nat]
<1>1. 0 \in {0} \cup Accounts /\ "idle" \in Places /\ "BUY" \in Sides /\ "none" \in Ops
  BY DEF Places, Sides, Ops
<1> QED BY <1>1 DEF Idle

(* A request that ends counts for nothing, and the others are as they were.           *)
LEMMA Ended ==
    ASSUME AccountTypes, RequestInv, NEW r \in Requests, Ends(r)
    PROVE  /\ request' \in [Requests -> [op : Ops, at : Places, side : Sides,
                                         acct : {0} \cup Accounts, seen : Nat]]
           /\ request'[r] = Idle /\ \A side \in Sides : Counts(r, side)' = 0
           /\ \A q \in Requests \ {r} : request'[q] = request[q]
           /\ RequestInv'
<1>1. /\ request' = [request EXCEPT ![r] = Idle]
      /\ Idle \in [op : Ops, at : Places, side : Sides, acct : {0} \cup Accounts, seen : Nat]
  BY IdleType DEF Ends
<1>2. /\ request' \in [Requests -> [op : Ops, at : Places, side : Sides,
                                    acct : {0} \cup Accounts, seen : Nat]]
      /\ request'[r] = Idle
      /\ \A q \in Requests \ {r} : request'[q] = request[q]
  BY <1>1 DEF AccountTypes
<1>3. RequestInv'
  BY <1>2 DEF RequestInv, Idle
<1>4. \A side \in Sides : Counts(r, side)' = 0
  BY <1>2 DEF Counts, Entered, Idle
<1> QED BY <1>2, <1>3, <1>4

--------------------------------------------------------------------------------
(* What the stops have to cover, without the product.                               *)

Units(side, n) == IF side = "BUY" THEN n ELSE -n

(* The units held on a side, as a product with the side's sign.                       *)
LEMMA UnitsOfSide ==
    \A side \in Sides, n \in Int : Sign(side) * n = Units(side, n) /\ Units(side, n) \in Int
BY DEF Sides, Sign, Units

(* A step of one request keeps the stops covering if, on each side, what it adds to  *)
(* the position is matched by a stop, by the entry it becomes or by a cause.         *)
LEMMA CoverStep ==
    ASSUME AccountsInv, ExchangeTypes', NEW r \in Requests,
           \A q \in Requests \ {r} : request'[q] = request[q],
           \A side \in Sides :
              \/ Units(side, net') <= 0
              \/ Units(side, net') - Units(side, net)
                   <= (resting'["stop"][side] - resting["stop"][side])
                        + (causes'[side] - causes[side])
                        + (Counts(r, side)' - Counts(r, side))
    PROVE  StopsCover'
<1> SUFFICES ASSUME NEW side \in Sides
             PROVE  Sign(side) * net' <= resting'["stop"][side] + InFlight(side)' + causes'[side]
  BY DEF StopsCover
<1>1. /\ Sign(side) * net' = Units(side, net') /\ Units(side, net') \in Int
      /\ Sign(side) * net = Units(side, net) /\ Units(side, net) \in Int
  BY UnitsOfSide DEF AccountsInv, ExchangeTypes
<1>2. Units(side, net) <= resting["stop"][side] + InFlight(side) + causes[side]
  BY <1>1 DEF AccountsInv, StopsCover
<1>3. InFlight(side) \in Nat /\ InFlight(side)' \in Nat
  BY InFlightType, InFlightPrimed
<1>4. /\ InFlight(side)' + Counts(r, side) = InFlight(side) + Counts(r, side)'
      /\ Counts(r, side) \in {0, 1} /\ Counts(r, side)' \in {0, 1}
  BY InFlightStep DEF Counts
<1>5. /\ resting["stop"][side] \in Nat /\ causes[side] \in Nat
      /\ resting'["stop"][side] \in Nat /\ causes'[side] \in Nat
  BY DEF AccountsInv, ExchangeTypes
<1> QED BY <1>1, <1>2, <1>3, <1>4, <1>5
--------------------------------------------------------------------------------
(* The steps. First those that leave the exchange alone.                             *)

(* A step that leaves the exchange alone and no entry's count changes keeps the cover.*)
LEMMA QuietStep ==
    ASSUME AccountsInv, UNCHANGED exchange, mishaps' \in Nat, NEW r \in Requests,
           \A q \in Requests \ {r} : request'[q] = request[q],
           \A side \in Sides : Counts(r, side)' = Counts(r, side)
    PROVE  ExchangeTypes' /\ StopsCover'
<1>1. ExchangeTypes'
  BY DEF AccountsInv, ExchangeTypes, exchange
<1>2. \A side \in Sides :
        /\ Units(side, net') - Units(side, net) = 0
        /\ resting'["stop"][side] - resting["stop"][side] = 0
        /\ causes'[side] - causes[side] = 0
        /\ Counts(r, side)' - Counts(r, side) = 0
  BY DEF AccountsInv, ExchangeTypes, exchange, Units, Counts
<1> QED BY <1>1, <1>2, CoverStep

(* The invariant through each action: a connection is validated and stored.           *)
LEMMA ConnectStep ==
    ASSUME AccountsInv, NEW r \in Requests, ConnectAccount(r) PROVE AccountsInv'
<1>1. /\ request' = [request EXCEPT ![r] = [Idle EXCEPT !.op = "connect", !.at = "validate"]]
      /\ [Idle EXCEPT !.op = "connect", !.at = "validate"] \in
            [op : Ops, at : Places, side : Sides, acct : {0} \cup Accounts, seen : Nat]
  <2>1. "validate" \in Places /\ "connect" \in Ops
    BY DEF Places, Ops
  <2> QED BY <2>1, IdleType DEF ConnectAccount
<1>2. /\ AccountTypes' /\ request'[r].at = "validate" /\ request[r].at = "idle"
      /\ \A q \in Requests \ {r} : request'[q] = request[q]
  BY <1>1 DEF AccountsInv, AccountTypes, ConnectAccount, Idle
<1>3. RequestInv'
  BY <1>2 DEF AccountsInv, RequestInv
<1>4. \A side \in Sides : Counts(r, side)' = Counts(r, side)
  BY <1>2 DEF Counts, Entered
<1> QED BY <1>2, <1>3, <1>4, QuietStep DEF AccountsInv, ConnectAccount, ExchangeTypes

(* The account a connection creates.                                                  *)
LEMMA CreateStep ==
    ASSUME AccountsInv, NEW r \in Requests, Create(r) PROVE AccountsInv'
<1>1. accounts' \in [Accounts -> [state : {"none", "live", "deleted"}, failures : Nat,
                                 status : {"healthy", "degraded", "disconnected"}]]
  BY DEF AccountsInv, AccountTypes, Create
<1>2. \A side \in Sides : Counts(r, side) = 0
  BY DEF Counts, Entered, Create
<1> QED BY <1>1, <1>2, Ended, QuietStep DEF AccountsInv, AccountTypes, ExchangeTypes, Create

(* A request that finds its account.                                                  *)
LEMMA BeginStep ==
    ASSUME AccountsInv, NEW r \in Requests, NEW side \in Sides, NEW op \in Ops,
           NEW to \in {"call", "delete", "leverage"}, to = "leverage" => op = "order",
           Begin(r, op, to, side)
    PROVE  AccountsInv'
<1>1. PICK i \in Accounts : request' = [request EXCEPT ![r] = [op |-> op, at |-> to, side |-> side,
                                                      acct |-> i, seen |-> accounts[i].failures]]
  BY DEF Begin
<1>2. accounts[i].failures \in Nat /\ to \in Places
  BY DEF AccountsInv, AccountTypes, Places
<1>3. /\ AccountTypes' /\ request'[r].at = to /\ request'[r].op = op /\ request'[r].acct = i
      /\ request[r].at = "idle"
      /\ \A q \in Requests \ {r} : request'[q] = request[q]
  BY <1>1, <1>2 DEF AccountsInv, AccountTypes, Begin
<1>4. RequestInv'
  BY <1>3 DEF AccountsInv, RequestInv
<1>5. \A s \in Sides : Counts(r, s)' = Counts(r, s)
  BY <1>3 DEF Counts, Entered
<1> QED BY <1>3, <1>4, <1>5, QuietStep DEF AccountsInv, Begin, ExchangeTypes

(* Every kind of request.                                                             *)
LEMMA StartRequestStep ==
    ASSUME AccountsInv, NEW r \in Requests, StartRequest(r) PROVE AccountsInv'
<1>1. {"balance", "positions", "cancel", "disconnect", "order"} \subseteq Ops /\ "BUY" \in Sides
  BY DEF Ops, Sides
<1>2. CASE \E op \in {"balance", "positions", "cancel"} : Begin(r, op, "call", "BUY")
  BY <1>1, <1>2, BeginStep
<1>3. CASE Begin(r, "disconnect", "delete", "BUY")
  BY <1>1, <1>3, BeginStep
<1>4. CASE \E side \in Sides : Begin(r, "order", "leverage", side)
  BY <1>1, <1>4, BeginStep
<1> QED BY <1>2, <1>3, <1>4 DEF StartRequest

(* An account is deleted.                                                             *)
LEMMA DeleteStep ==
    ASSUME AccountsInv, NEW r \in Requests, Delete(r) PROVE AccountsInv'
<1>1. accounts' \in [Accounts -> [state : {"none", "live", "deleted"}, failures : Nat,
                                 status : {"healthy", "degraded", "disconnected"}]]
  BY DEF AccountsInv, AccountTypes, Delete
<1>2. \A side \in Sides : Counts(r, side) = 0
  BY DEF Counts, Entered, Delete
<1> QED BY <1>1, <1>2, Ended, QuietStep DEF AccountsInv, AccountTypes, ExchangeTypes, Delete

(* A failed call is recorded in the account's health.                                 *)
LEMMA RecordFailureStep ==
    ASSUME AccountsInv, NEW r \in Requests, RecordFailure(r) PROVE AccountsInv'
<1>1. request[r].at = "failing" /\ request[r].acct \in Accounts /\ request[r].seen + 1 \in Nat
      /\ StatusAfter(request[r].seen + 1) \in {"healthy", "degraded", "disconnected"}
  BY DEF AccountsInv, AccountTypes, RequestInv, RecordFailure, StatusAfter
<1>2. accounts' \in [Accounts -> [state : {"none", "live", "deleted"}, failures : Nat,
                                 status : {"healthy", "degraded", "disconnected"}]]
  BY <1>1 DEF AccountsInv, AccountTypes, RecordFailure
<1>3. \A side \in Sides : Counts(r, side) = 0
  BY <1>1 DEF Counts, Entered
<1> QED BY <1>2, <1>3, Ended, QuietStep DEF AccountsInv, AccountTypes, ExchangeTypes, RecordFailure

(* A call is answered.                                                                *)
LEMMA AnsweredStep ==
    ASSUME AccountsInv, NEW r \in Requests, Answered(r) PROVE AccountsInv'
<1>1. accounts' \in [Accounts -> [state : {"none", "live", "deleted"}, failures : Nat,
                                 status : {"healthy", "degraded", "disconnected"}]]
  BY DEF AccountsInv, AccountTypes, Answered
<1>2. \A side \in Sides : Counts(r, side) = 0
  BY DEF Counts, Entered, Answered
<1> QED BY <1>1, <1>2, Ended, QuietStep DEF AccountsInv, AccountTypes, ExchangeTypes, Answered

(* The leverage of an order is set.                                                   *)
LEMMA SetLeverageStep ==
    ASSUME AccountsInv, NEW r \in Requests, SetLeverage(r) PROVE AccountsInv'
<1>1. /\ Goes(r, "entry") /\ request[r].at = "leverage" /\ request[r].op = "order"
      /\ "entry" \in Places
  BY DEF AccountsInv, RequestInv, SetLeverage, Places
<1>2. \A side \in Sides : Counts(r, side)' = Counts(r, side)
  BY <1>1, GoesOn DEF AccountsInv, Counts, Entered
<1> QED BY <1>1, <1>2, GoesOn, QuietStep DEF AccountsInv, AccountTypes, ExchangeTypes, SetLeverage

(* The exchange refuses a step of an order.                                           *)
LEMMA RefusedStep ==
    ASSUME AccountsInv, NEW r \in Requests, Refused(r) PROVE AccountsInv'
<1>1. PICK to \in {"failing", "stop", "emergency"} :
        /\ Goes(r, to) /\ to \in Places
        /\ \/ request[r].at \in {"call", "leverage", "entry"} /\ to = "failing"
           \/ request[r].at \in {"target", "stop"} /\ to \in {"stop", "emergency"}
  BY DEF Refused, Places
<1>2. /\ request[r].at \notin {"idle", "validate"}
      /\ to \in {"leverage", "entry", "target", "stop", "emergency"} => request[r].op = "order"
  BY <1>1 DEF AccountsInv, RequestInv
<1>3. /\ request' \in [Requests -> [op : Ops, at : Places, side : Sides,
                                    acct : {0} \cup Accounts, seen : Nat]]
      /\ request'[r].at = to /\ request'[r].op = request[r].op
      /\ request'[r].side = request[r].side
      /\ \A q \in Requests \ {r} : request'[q] = request[q]
      /\ RequestInv'
  BY <1>1, <1>2, GoesOn DEF AccountsInv
<1>4. \A side \in Sides : Counts(r, side)' = Counts(r, side)
  BY <1>1, <1>3 DEF Counts, Entered
<1>5. mishaps' \in Nat
  BY DEF Refused, Fault, AccountsInv, ExchangeTypes
<1> QED BY <1>3, <1>4, <1>5, QuietStep DEF AccountsInv, AccountTypes, Refused
--------------------------------------------------------------------------------
(* The steps that move the exchange.                                                 *)

(* The entry is filled: from here the units are in flight until the stop is placed.   *)
LEMMA EnterStep ==
    ASSUME AccountsInv, NEW r \in Requests, Enter(r) PROVE AccountsInv'
<1> DEFINE side == request[r].side
<1>1. PICK to \in {"target", "stop", "failing"} :
        /\ Goes(r, to)
        /\ \/ to # "failing" /\ UNCHANGED <<mishaps, causes>>
           \/ to = "failing" /\ mishaps' = mishaps + 1 /\ causes' = [causes EXCEPT ![side] = @ + 1]
  BY DEF Enter, Fault
<1>2. /\ request[r].at = "entry" /\ request[r].op = "order" /\ side \in Sides /\ to \in Places
      /\ net' = net + Sign(side) /\ orders' = orders + 1 /\ UNCHANGED <<accounts, resting>>
  BY <1>1 DEF Enter, AccountsInv, AccountTypes, RequestInv, Places
<1>3. /\ request' \in [Requests -> [op : Ops, at : Places, side : Sides,
                                    acct : {0} \cup Accounts, seen : Nat]]
      /\ request'[r].at = to /\ request'[r].op = "order" /\ request'[r].side = side
      /\ \A q \in Requests \ {r} : request'[q] = request[q]
      /\ RequestInv'
  BY <1>1, <1>2, GoesOn DEF AccountsInv
<1>4. AccountTypes'
  BY <1>2, <1>3 DEF AccountsInv, AccountTypes
<1>5. ExchangeTypes'
  BY <1>1, <1>2 DEF AccountsInv, ExchangeTypes, Sign
<1>6. ASSUME NEW s \in Sides
      PROVE  \/ s # side /\ Units(s, net') - Units(s, net) = -1
             \/ s = side /\ Units(s, net') - Units(s, net) = 1
  BY <1>2 DEF AccountsInv, ExchangeTypes, Sides, Sign, Units
<1>7. ASSUME NEW s \in Sides
      PROVE  /\ resting'["stop"][s] - resting["stop"][s] = 0
             /\ Counts(r, s) = 0
             /\ Counts(r, s)' = IF s = side /\ to # "failing" THEN 1 ELSE 0
             /\ causes'[s] - causes[s] = IF s = side /\ to = "failing" THEN 1 ELSE 0
  <2>1. Counts(r, s) = 0
    BY <1>2 DEF Counts, Entered
  <2>2. Counts(r, s)' = IF s = side /\ to # "failing" THEN 1 ELSE 0
    BY <1>3 DEF Counts, Entered
  <2>3. causes'[s] - causes[s] = IF s = side /\ to = "failing" THEN 1 ELSE 0
    BY <1>1, <1>2 DEF AccountsInv, ExchangeTypes
  <2>4. resting'["stop"][s] - resting["stop"][s] = 0
    BY <1>2 DEF AccountsInv, ExchangeTypes
  <2> QED BY <2>1, <2>2, <2>3, <2>4
<1> HIDE DEF side
<1>8. \A s \in Sides :
        Units(s, net') - Units(s, net)
          <= (resting'["stop"][s] - resting["stop"][s]) + (causes'[s] - causes[s])
               + (Counts(r, s)' - Counts(r, s))
  BY <1>6, <1>7
<1>9. StopsCover'
  BY <1>3, <1>5, <1>8, CoverStep
<1> QED BY <1>3, <1>4, <1>5, <1>9 DEF AccountsInv

(* An exit order is placed; the stop takes over from the request.                     *)
LEMMA PlaceExitStep ==
    ASSUME AccountsInv, NEW r \in Requests, PlaceExit(r) PROVE AccountsInv'
<1> DEFINE side == request[r].side
           kind == request[r].at
<1>1. /\ kind \in {"target", "stop"} /\ request[r].op = "order" /\ side \in Sides
      /\ resting' = [resting EXCEPT ![kind][side] = @ + 1]
      /\ UNCHANGED <<accounts, net, orders, causes>>
      /\ \/ Ends(r) /\ kind = "stop"
         \/ \E to \in {"stop", "emergency"} : Goes(r, to) /\ (kind = "stop" => to = "emergency")
      /\ mishaps' \in Nat
  BY DEF PlaceExit, AfterLoss, Fault, AccountsInv, AccountTypes, ExchangeTypes, RequestInv
<1>2. ExchangeTypes'
  BY <1>1 DEF AccountsInv, ExchangeTypes
<1>3. /\ request' \in [Requests -> [op : Ops, at : Places, side : Sides,
                                    acct : {0} \cup Accounts, seen : Nat]]
      /\ \A q \in Requests \ {r} : request'[q] = request[q]
      /\ RequestInv'
      /\ \A s \in Sides : kind = "stop" \/ Counts(r, s)' = Counts(r, s)
  <2>1. CASE Ends(r) /\ kind = "stop"
    BY <2>1, Ended DEF AccountsInv
  <2>2. CASE \E to \in {"stop", "emergency"} : Goes(r, to) /\ (kind = "stop" => to = "emergency")
    <3>1. PICK to \in {"stop", "emergency"} : Goes(r, to)
      BY <2>2
    <3>2. to \in Places
      BY DEF Places
    <3>3. /\ request' \in [Requests -> [op : Ops, at : Places, side : Sides,
                                        acct : {0} \cup Accounts, seen : Nat]]
          /\ request'[r].at = to /\ request'[r].op = request[r].op
          /\ request'[r].side = request[r].side
          /\ \A q \in Requests \ {r} : request'[q] = request[q]
          /\ RequestInv'
      BY <1>1, <3>1, <3>2, GoesOn DEF AccountsInv
    <3>4. \A s \in Sides : Counts(r, s)' = Counts(r, s)
      BY <1>1, <3>3 DEF Counts, Entered
    <3> QED BY <3>3, <3>4
  <2> QED BY <1>1, <2>1, <2>2
<1>4. ASSUME NEW s \in Sides
      PROVE  /\ Units(s, net') - Units(s, net) = 0 /\ causes'[s] - causes[s] = 0
             /\ Counts(r, s) = (IF s = side THEN 1 ELSE 0) /\ Counts(r, s)' \in {0, 1}
             /\ resting'["stop"][s] - resting["stop"][s]
                   = IF s = side /\ kind = "stop" THEN 1 ELSE 0
  <2>1. Units(s, net') - Units(s, net) = 0 /\ causes'[s] - causes[s] = 0
    BY <1>1 DEF AccountsInv, ExchangeTypes, Units
  <2>2. Counts(r, s) = (IF s = side THEN 1 ELSE 0) /\ Counts(r, s)' \in {0, 1}
    BY <1>1 DEF Counts, Entered
  <2>3. resting'["stop"][s] - resting["stop"][s] = IF s = side /\ kind = "stop" THEN 1 ELSE 0
    BY <1>1 DEF AccountsInv, ExchangeTypes
  <2> QED BY <2>1, <2>2, <2>3
<1> HIDE DEF side, kind
<1>5. \A s \in Sides :
        Units(s, net') - Units(s, net)
          <= (resting'["stop"][s] - resting["stop"][s]) + (causes'[s] - causes[s])
               + (Counts(r, s)' - Counts(r, s))
  BY <1>3, <1>4
<1>6. AccountTypes'
  BY <1>1, <1>3 DEF AccountsInv, AccountTypes
<1>7. StopsCover'
  BY <1>2, <1>3, <1>5, CoverStep
<1> QED BY <1>2, <1>3, <1>6, <1>7 DEF AccountsInv

(* An exit takes a unit off its side's position and adds none to the other side's.   *)
LEMMA ExitedUnits ==
    ASSUME net \in Int, NEW side \in Sides, Exited(side)
    PROVE  /\ net' \in Int
           /\ Units(side, net') <= 0 \/ Units(side, net') - Units(side, net) = -1
           /\ \A s \in Sides \ {side} : Units(s, net') <= 0 \/ Units(s, net') - Units(s, net) = 0
<1>1. CASE side = "BUY"
  BY <1>1 DEF Exited, Sign, Sides, Units
<1>2. CASE side = "SELL"
  <2>1. Sign(side) * net = -net /\ Sign(side) = -1
    BY <1>2 DEF Sign
  <2> QED BY <1>2, <2>1 DEF Exited, Sides, Units
<1> QED BY <1>1, <1>2 DEF Sides

(* The stop could not be placed and the entry is closed.                              *)
LEMMA EmergencyCloseStep ==
    ASSUME AccountsInv, NEW r \in Requests, EmergencyClose(r) PROVE AccountsInv'
<1> DEFINE side == request[r].side
<1>1. /\ request[r].at = "emergency" /\ request[r].op = "order" /\ side \in Sides /\ Ends(r)
      /\ UNCHANGED <<accounts, resting, orders>> /\ mishaps' \in Nat
      /\ \/ Exited(side) /\ UNCHANGED causes
         \/ UNCHANGED net /\ causes' = [causes EXCEPT ![side] = @ + 1]
  BY DEF EmergencyClose, Fault, AccountsInv, AccountTypes, ExchangeTypes, RequestInv
<1>2. net \in Int /\ net' \in Int
  BY <1>1, ExitedUnits DEF AccountsInv, ExchangeTypes
<1>3. ExchangeTypes'
  BY <1>1, <1>2 DEF AccountsInv, ExchangeTypes
<1>4. ASSUME NEW s \in Sides
      PROVE  \/ Units(s, net') <= 0
             \/ Units(s, net') - Units(s, net)
                  <= (resting'["stop"][s] - resting["stop"][s]) + (causes'[s] - causes[s])
                       + (Counts(r, s)' - Counts(r, s))
  <2>1. /\ Counts(r, s) = (IF s = side THEN 1 ELSE 0)
        /\ resting'["stop"][s] - resting["stop"][s] = 0
    BY <1>1 DEF Counts, Entered, AccountsInv, ExchangeTypes
  <2>2. Counts(r, s)' = 0
    BY <1>1, Ended DEF AccountsInv
  <2>3. CASE Exited(side) /\ UNCHANGED causes
    <3>1. causes'[s] - causes[s] = 0
      BY <2>3 DEF AccountsInv, ExchangeTypes
    <3>2. \/ Units(s, net') <= 0
          \/ Units(s, net') - Units(s, net) = IF s = side THEN -1 ELSE 0
      BY <1>1, <1>2, <2>3, ExitedUnits
    <3> QED BY <2>1, <2>2, <3>1, <3>2
  <2>4. CASE UNCHANGED net /\ causes' = [causes EXCEPT ![side] = @ + 1]
    <3>1. causes'[s] - causes[s] = IF s = side THEN 1 ELSE 0
      BY <1>1, <2>4 DEF AccountsInv, ExchangeTypes
    <3>2. Units(s, net') - Units(s, net) = 0
      BY <1>2, <2>4 DEF Units
    <3> QED BY <2>1, <2>2, <3>1, <3>2
  <2> QED BY <1>1, <2>3, <2>4
<1>5. StopsCover'
  BY <1>1, <1>3, <1>4, Ended, CoverStep DEF AccountsInv
<1> QED BY <1>1, <1>3, <1>5, Ended DEF AccountsInv, AccountTypes
(* A resting order is cancelled.                                                      *)
LEMMA CancelStep ==
    ASSUME AccountsInv, NEW r \in Requests, Cancel(r) PROVE AccountsInv'
<1>1. PICK kind \in {"stop", "target"}, side \in Sides :
        /\ resting[kind][side] > 0
        /\ resting' = [resting EXCEPT ![kind][side] = @ - 1]
        /\ causes' = IF kind = "stop" THEN [causes EXCEPT ![side] = @ + 1] ELSE causes
  BY DEF Cancel
<1>2. /\ request[r].at = "call" /\ UNCHANGED <<accounts, net, orders>> /\ mishaps' \in Nat
      /\ Ends(r) \/ Goes(r, "failing")
  BY DEF Cancel, Fault, AccountsInv, ExchangeTypes
<1>3. /\ request' \in [Requests -> [op : Ops, at : Places, side : Sides,
                                    acct : {0} \cup Accounts, seen : Nat]]
      /\ request'[r].at \in {"idle", "failing"}
      /\ \A q \in Requests \ {r} : request'[q] = request[q]
      /\ RequestInv'
  <2>1. CASE Ends(r)
    BY <2>1, Ended DEF AccountsInv, Idle
  <2>2. CASE Goes(r, "failing")
    <3>1. "failing" \in Places
      BY DEF Places
    <3> QED BY <1>2, <2>2, <3>1, GoesOn DEF AccountsInv
  <2> QED BY <1>2, <2>1, <2>2
<1>4. ExchangeTypes'
  BY <1>1, <1>2 DEF AccountsInv, ExchangeTypes
<1>5. ASSUME NEW s \in Sides
      PROVE  /\ Units(s, net') - Units(s, net) = 0
             /\ Counts(r, s)' = 0 /\ Counts(r, s) = 0
             /\ (resting'["stop"][s] - resting["stop"][s]) + (causes'[s] - causes[s]) = 0
  <2>1. Units(s, net') - Units(s, net) = 0
    BY <1>2 DEF AccountsInv, ExchangeTypes, Units
  <2>2. Counts(r, s)' = 0 /\ Counts(r, s) = 0
    BY <1>2, <1>3 DEF Counts, Entered
  <2>3. (resting'["stop"][s] - resting["stop"][s]) + (causes'[s] - causes[s]) = 0
    BY <1>1 DEF AccountsInv, ExchangeTypes
  <2> QED BY <2>1, <2>2, <2>3
<1>6. \A s \in Sides :
        Units(s, net') - Units(s, net)
          <= (resting'["stop"][s] - resting["stop"][s]) + (causes'[s] - causes[s])
               + (Counts(r, s)' - Counts(r, s))
  BY <1>5
<1>7. AccountTypes'
  BY <1>2, <1>3 DEF AccountsInv, AccountTypes
<1>8. StopsCover'
  BY <1>3, <1>4, <1>6, CoverStep
<1> QED BY <1>3, <1>4, <1>7, <1>8 DEF AccountsInv

(* A stop that is triggered takes its unit with it, or finds no unit to cover.       *)
LEMMA TriggeredStep == ASSUME AccountsInv, Triggered PROVE AccountsInv'
<1>1. PICK kind \in {"stop", "target"}, side \in Sides :
        /\ resting[kind][side] > 0
        /\ resting' = [resting EXCEPT ![kind][side] = @ - 1]
        /\ Exited(side)
  BY DEF Triggered
<1>2. net \in Int /\ net' \in Int
  BY <1>1, ExitedUnits DEF AccountsInv, ExchangeTypes
<1>3. UNCHANGED <<accounts, request, orders, mishaps, causes>>
  BY DEF Triggered
<1>4. ExchangeTypes' /\ AccountTypes' /\ RequestInv'
  BY <1>1, <1>2, <1>3 DEF AccountsInv, ExchangeTypes, AccountTypes, RequestInv
<1>5. ASSUME NEW s \in Sides
      PROVE  Sign(s) * net' <= resting'["stop"][s] + InFlight(s)' + causes'[s]
  <2>1. /\ Sign(s) * net' = Units(s, net') /\ Units(s, net') \in Int
        /\ Sign(s) * net = Units(s, net) /\ Units(s, net) \in Int
    BY <1>2, UnitsOfSide
  <2>2. Units(s, net) <= resting["stop"][s] + InFlight(s) + causes[s]
    BY <2>1 DEF AccountsInv, StopsCover
  <2>3. InFlight(s)' = InFlight(s) /\ InFlight(s) \in Nat /\ causes'[s] = causes[s]
    BY <1>3, InFlightType DEF InFlight, Entered
  <2>4. /\ resting["stop"][s] \in Nat /\ resting'["stop"][s] \in Nat /\ causes[s] \in Nat
        /\ resting'["stop"][s] >= resting["stop"][s] - (IF s = side THEN 1 ELSE 0)
    BY <1>1, <1>4 DEF AccountsInv, ExchangeTypes
  <2>5. \/ Units(s, net') <= 0
        \/ Units(s, net') - Units(s, net) = IF s = side THEN -1 ELSE 0
    BY <1>1, <1>2, ExitedUnits
  <2> QED BY <2>1, <2>2, <2>3, <2>4, <2>5
<1> QED BY <1>4, <1>5 DEF AccountsInv, StopsCover

(* A crash turns what was being served into a cause.                                 *)
LEMMA ServerCrashStep == ASSUME AccountsInv, ServerCrash PROVE AccountsInv'
<1>1. /\ causes' = [side \in Sides |-> causes[side] + InFlight(side)]
      /\ request' = [r \in Requests |-> Idle]
      /\ UNCHANGED <<accounts, net, resting, orders>> /\ mishaps' \in Nat
  BY DEF ServerCrash, Fault, AccountsInv, ExchangeTypes
<1>2. AccountTypes'
  BY <1>1, IdleType DEF AccountsInv, AccountTypes
<1>3. RequestInv'
  BY <1>1 DEF RequestInv, Idle
<1>4. ExchangeTypes'
  BY <1>1, InFlightType DEF AccountsInv, ExchangeTypes
<1>5. ASSUME NEW s \in Sides
      PROVE  Sign(s) * net' <= resting'["stop"][s] + InFlight(s)' + causes'[s]
  <2>1. Sign(s) * net' = Sign(s) * net /\ Sign(s) * net \in Int
    BY <1>1, UnitsOfSide DEF AccountsInv, ExchangeTypes
  <2>2. Sign(s) * net <= resting["stop"][s] + InFlight(s) + causes[s]
    BY DEF AccountsInv, StopsCover
  <2>3. /\ resting'["stop"][s] = resting["stop"][s] /\ causes'[s] = causes[s] + InFlight(s)
        /\ resting["stop"][s] \in Nat /\ causes[s] \in Nat
    BY <1>1 DEF AccountsInv, ExchangeTypes
  <2>4. InFlight(s) \in Nat /\ InFlight(s)' \in Nat
    BY InFlightType, InFlightPrimed
  <2> QED BY <2>1, <2>2, <2>3, <2>4
<1> QED BY <1>2, <1>3, <1>4, <1>5 DEF AccountsInv, StopsCover

--------------------------------------------------------------------------------

(* The initial states.                                                                *)
LEMMA AccountsInitInv == ASSUME AccountsInit PROVE AccountsInv
<1>1. AccountTypes /\ RequestInv
  BY IdleType DEF AccountsInit, AccountTypes, RequestInv, NoRow, Idle
<1>2. ExchangeTypes
  BY DEF AccountsInit, ExchangeTypes
<1>3. StopsCover
  <2> SUFFICES ASSUME NEW side \in Sides
               PROVE  Sign(side) * net <= resting["stop"][side] + InFlight(side) + causes[side]
    BY DEF StopsCover
  <2>1. Sign(side) * net = 0 /\ resting["stop"][side] = 0 /\ causes[side] = 0
    BY DEF AccountsInit, Sign
  <2> QED BY <2>1, InFlightType
<1> QED BY <1>1, <1>2, <1>3 DEF AccountsInv

(* Every step of the specification.                                                   *)
LEMMA StepInv == ASSUME AccountsInv, [AccountsNext]_accountVars PROVE AccountsInv'
<1>1. ASSUME NEW r \in Requests, Serve(r) PROVE AccountsInv'
  BY <1>1, ConnectStep, CreateStep, StartRequestStep, DeleteStep, RecordFailureStep, AnsweredStep,
     RefusedStep, SetLeverageStep, EnterStep, PlaceExitStep, EmergencyCloseStep, CancelStep
  DEF Serve
<1>2. CASE UNCHANGED accountVars
  BY <1>2 DEF accountVars, AccountsInv, AccountTypes, ExchangeTypes, RequestInv, StopsCover,
              InFlight, Entered
<1> QED BY <1>1, <1>2, TriggeredStep, ServerCrashStep DEF AccountsNext

(* The invariant holds in every reachable state.                                      *)
THEOREM Invariance == AccountsSpec => []AccountsInv
<1>1. AccountsInit => AccountsInv
  BY AccountsInitInv
<1>2. AccountsInv /\ [AccountsNext]_accountVars => AccountsInv'
  BY StepInv
<1> QED BY <1>1, <1>2, PTL DEF AccountsSpec

(* However many requests overlap, fail and are cut off by crashes, what is held       *)
(* without a stop of its own never exceeds what is still being served and what the   *)
(* lost answers, failed emergency closes, cancelled stops and crashes have left.     *)
THEOREM Covered == AccountsSpec => []StopsCover
<1>1. AccountsInv => StopsCover
  BY DEF AccountsInv
<1> QED BY <1>1, Invariance, PTL

(******************************* the paper account *******************************)

Dirs == {"NONE", "LONG", "SHORT"}
Holding == [dir : Dirs, qty : Nat, cost : Int, sl : Nat, tp : Nat, lev : Nat, margin : Int,
            risk : Int, dca : Nat]
Result  == [net : Int, fee : Int, gross : Int, at : Nat]
Account == [balance : Int, position : [Coins -> Holding], history : Seq(Result),
            halted : BOOLEAN, cooldown : Int]

Balanced(a) == a.balance = InitialBalance + Results(a) - EntryFees(a)
FlatIsNone(a) == \A c \in Coins : a.position[c].qty = 0 => a.position[c] = None
Good(a) == a \in Account /\ Balanced(a) /\ FlatIsNone(a)
PaperInv == Good(account) /\ now \in Nat

(* What the assumptions say of the constants, one by one; there are finitely many coins.*)
LEMMA PaperConstants ==
    /\ InitialBalance \in Nat /\ RiskPct \in Nat /\ DailyPct \in Nat /\ WeeklyPct \in Nat
    /\ PortfolioPct \in Nat /\ FeePerMille \in Nat
    /\ Cooldown \in Nat \ {0} /\ Day \in Nat \ {0} /\ Week \in Nat \ {0}
    /\ Unit = 1000 /\ IsFiniteSet(Coins)
<1>1. IsFiniteSet({s.coin : s \in Signals})
  <2> DEFINE f == [s \in Signals |-> s.coin]
  <2>1. IsFiniteSet(Signals) /\ f \in Surjection(Signals, {s.coin : s \in Signals})
    BY SignalsAssumption DEF Surjection
  <2> QED
    BY <2>1, FS_Surjection
<1> QED
  BY <1>1, MoneyAssumption, ClockAssumption DEF Coins, Unit

(* A fee is a number.                                                                 *)
LEMMA FeeType == ASSUME NEW x \in Int PROVE Fee(x) \in Int
BY PaperConstants DEF Fee

(* The fee of a sum is the sum of the fees: nothing is rounded.                       *)
LEMMA FeeSum ==
    ASSUME NEW x \in Int, NEW y \in Int
    PROVE  Fee(x + y) = Fee(x) + Fee(y) /\ Fee(x - y) = Fee(x) - Fee(y)
<1>1. FeePerMille \in Int
  BY PaperConstants
<1> QED
  BY <1>1 DEF Fee

(* What costs nothing has no fee.                                                     *)
LEMMA FreeIsFree == Fee(0) = 0
<1>1. FeePerMille \in Int
  BY PaperConstants
<1> QED
  BY <1>1 DEF Fee

(* The sums of an account are numbers.                                                  *)
LEMMA SumsAreNumbers ==
    ASSUME NEW a \in Account
    PROVE  Results(a) \in Int /\ EntryFees(a) \in Int
<1> DEFINE h == a.history
           w == [i \in DOMAIN h |-> h[i].gross - h[i].fee]
           f == [c \in Coins |-> Fee(a.position[c].cost)]
<1>1. IsFiniteSet(DOMAIN h) /\ \A i \in DOMAIN h : h[i] \in Result
  <2>1. h \in Seq(Result)
    BY DEF Account
  <2>2. DOMAIN h = 1 .. Len(h) /\ Len(h) \in Int
    BY <2>1
  <2> HIDE DEF h
  <2>3. IsFiniteSet(1 .. Len(h))
    BY <2>2, FS_Interval
  <2> QED
    BY <2>1, <2>2, <2>3
<1>2. \A i \in DOMAIN h : w[i] \in Int
  BY <1>1 DEF Result
<1>3. \A c \in Coins : f[c] \in Int
  <2>1. \A c \in Coins : a.position[c].cost \in Int
    BY DEF Account, Holding
  <2> QED
    BY <2>1, FeeType
<1>4. Results(a) = SumFunctionOnSet(w, DOMAIN h)
  <2>1. DOMAIN w = DOMAIN h
    OBVIOUS
  <2> QED
    BY <2>1 DEF Results, SumFunction
<1>5. EntryFees(a) = SumFunctionOnSet(f, Coins)
  <2>1. DOMAIN f = Coins
    OBVIOUS
  <2> QED
    BY <2>1 DEF EntryFees, SumFunction
<1> HIDE DEF h, w, f
<1> QED
  BY <1>1, <1>2, <1>3, <1>4, <1>5, SumIsInteger, PaperConstants

(* A recorded trade adds its result.                                                    *)
LEMMA ResultsGrow ==
    ASSUME NEW a \in Account, NEW b \in Account, NEW t \in Result,
           b.history = Append(a.history, t)
    PROVE  Results(b) = Results(a) + t.gross - t.fee
<1> DEFINE h == a.history
           k == b.history
           n == Len(h) + 1
           v == [i \in DOMAIN h |-> h[i].gross - h[i].fee]
           w == [i \in DOMAIN k |-> k[i].gross - k[i].fee]
<1>1. /\ h \in Seq(Result) /\ Len(h) \in Nat /\ DOMAIN h = 1 .. Len(h)
      /\ DOMAIN k = DOMAIN h \cup {n} /\ n \notin DOMAIN h /\ k[n] = t
      /\ \A i \in DOMAIN h : k[i] = h[i] /\ h[i] \in Result
  BY DEF Account
<1>2. IsFiniteSet(DOMAIN h)
  <2> HIDE DEF h
  <2>1. IsFiniteSet(1 .. Len(h))
    BY <1>1, FS_Interval
  <2> QED
    BY <1>1, <2>1
<1>3. /\ \A i \in DOMAIN h : w[i] \in Int /\ v[i] = w[i]
      /\ w[n] = t.gross - t.fee /\ w[n] \in Int /\ t.gross \in Int /\ t.fee \in Int
  <2> HIDE DEF h, k, n
  <2>1. n \in DOMAIN k /\ \A i \in DOMAIN h : i \in DOMAIN k
    BY <1>1
  <2>2. \A i \in DOMAIN h : h[i].gross \in Int /\ h[i].fee \in Int /\ k[i] = h[i]
    BY <1>1 DEF Result
  <2>3. t.gross \in Int /\ t.fee \in Int
    BY DEF Result
  <2>4. w[n] = t.gross - t.fee
    BY <1>1, <2>1
  <2>5. \A i \in DOMAIN h : v[i] = h[i].gross - h[i].fee /\ w[i] = h[i].gross - h[i].fee
    BY <2>1, <2>2
  <2> QED
    BY <2>2, <2>3, <2>4, <2>5
<1>4. Results(a) = SumFunctionOnSet(v, DOMAIN h) /\ Results(b) = SumFunctionOnSet(w, DOMAIN k)
  <2>1. DOMAIN v = DOMAIN h /\ DOMAIN w = DOMAIN k
    OBVIOUS
  <2> QED
    BY <2>1 DEF Results, SumFunction
<1> DEFINE D == DOMAIN h
<1>5. /\ IsFiniteSet(D) /\ n \notin D /\ Results(a) = SumFunctionOnSet(v, D)
      /\ Results(b) = SumFunctionOnSet(w, D \cup {n})
      /\ \A i \in D : w[i] \in Int /\ v[i] = w[i]
  BY <1>1, <1>2, <1>3, <1>4
<1> HIDE DEF D, v, w, n
<1>6. SumFunctionOnSet(v, D) = SumFunctionOnSet(w, D)
  BY <1>5, SumOfEqual
<1>7. SumFunctionOnSet(w, D \cup {n}) = w[n] + SumFunctionOnSet(w, D)
  BY <1>3, <1>5, SumWith
<1>8. SumFunctionOnSet(w, D) \in Int
  BY <1>5, SumIsInteger
<1> QED
  BY <1>3, <1>5, <1>6, <1>7, <1>8

(* One position's entry fees change by what its cost does.                              *)
LEMMA EntryFeesChange ==
    ASSUME NEW a \in Account, NEW b \in Account, NEW c \in Coins,
           \A d \in Coins \ {c} : b.position[d] = a.position[d]
    PROVE  EntryFees(b) = EntryFees(a) - Fee(a.position[c].cost) + Fee(b.position[c].cost)
<1> DEFINE v == [d \in Coins |-> Fee(b.position[d].cost)]
           w == [d \in Coins |-> Fee(a.position[d].cost)]
<1>1. \A d \in Coins : a.position[d].cost \in Int /\ b.position[d].cost \in Int
  BY DEF Account, Holding
<1>2. \A d \in Coins : v[d] \in Int /\ w[d] \in Int
  BY <1>1, FeeType
<1>3. \A d \in Coins \ {c} : v[d] = w[d]
  OBVIOUS
<1>4. EntryFees(b) = SumFunctionOnSet(v, Coins) /\ EntryFees(a) = SumFunctionOnSet(w, Coins)
  <2>1. DOMAIN v = Coins /\ DOMAIN w = Coins
    OBVIOUS
  <2> QED
    BY <2>1 DEF EntryFees, SumFunction
<1>5. v[c] = Fee(b.position[c].cost) /\ w[c] = Fee(a.position[c].cost)
  OBVIOUS
<1> HIDE DEF v, w
<1>6. SumFunctionOnSet(v, Coins) = SumFunctionOnSet(w, Coins) - w[c] + v[c]
  BY <1>2, <1>3, PaperConstants, SumOfChanged
<1> QED
  BY <1>4, <1>5, <1>6

(* A trade of the position's quantity or a part of it is explained by its record.       *)
LEMMA TradeBooked ==
    ASSUME NEW a, Good(a), NEW b \in Account, NEW c \in Coins, NEW gross \in Int,
           NEW cost \in Int, NEW proceeds \in Int, now \in Nat,
           b.balance = a.balance + Trade(gross, cost, proceeds).net,
           b.history = Append(a.history, Trade(gross, cost, proceeds)),
           \A d \in Coins \ {c} : b.position[d] = a.position[d],
           b.position[c].cost = a.position[c].cost - cost,
           b.position[c].qty = 0 => b.position[c] = None
    PROVE  Good(b)
<1> DEFINE t == Trade(gross, cost, proceeds)
<1>1. /\ t.net = gross - Fee(proceeds) /\ t.gross = gross /\ t.fee = Fee(cost) + Fee(proceeds)
      /\ t \in Result
  <2>1. Fee(cost) \in Int /\ Fee(proceeds) \in Int
    BY FeeType
  <2> QED
    BY <2>1 DEF Trade, Result
<1>2. a \in Account /\ Balanced(a)
  BY DEF Good
<1>3. Results(b) = Results(a) + t.gross - t.fee
  BY <1>1, <1>2, ResultsGrow
<1> HIDE DEF t
<1>4. a.position[c].cost \in Int /\ a.balance \in Int
  BY <1>2 DEF Account, Holding
<1>5. EntryFees(b) = EntryFees(a) - Fee(a.position[c].cost) + Fee(b.position[c].cost)
  BY <1>2, EntryFeesChange
<1>6. Fee(b.position[c].cost) = Fee(a.position[c].cost) - Fee(cost)
  BY <1>4, FeeSum
<1>7. /\ Fee(cost) \in Int /\ Fee(proceeds) \in Int /\ Fee(a.position[c].cost) \in Int
      /\ Results(a) \in Int /\ EntryFees(a) \in Int /\ InitialBalance \in Int
  <2>1. Results(a) \in Int /\ EntryFees(a) \in Int
    BY <1>2, SumsAreNumbers
  <2>2. Fee(cost) \in Int /\ Fee(proceeds) \in Int /\ Fee(a.position[c].cost) \in Int
    BY <1>4, FeeType
  <2> QED
    BY <2>1, <2>2, PaperConstants
<1>8. b.balance = a.balance + gross - Fee(proceeds)
  BY <1>1, <1>4, <1>7 DEF t
<1>9. Balanced(b)
  <2>1. a.balance = InitialBalance + Results(a) - EntryFees(a)
    BY <1>2 DEF Balanced
  <2>2. Results(b) = Results(a) + gross - (Fee(cost) + Fee(proceeds))
    BY <1>1, <1>3 DEF t
  <2>3. EntryFees(b) = EntryFees(a) - Fee(cost)
    BY <1>5, <1>6, <1>7
  <2>4. b.balance = InitialBalance + Results(b) - EntryFees(b)
    BY <1>7, <1>8, <2>1, <2>2, <2>3
  <2> QED
    BY <2>4 DEF Balanced
<1>10. FlatIsNone(b)
  BY DEF Good, FlatIsNone
<1> QED
  BY <1>9, <1>10 DEF Good

(* The sign of a direction.                                                           *)
LEMMA SignedType == ASSUME NEW dir PROVE Signed(dir) \in {1, -1} /\ Signed(dir) \in Int
BY DEF Signed

(* No position is the empty holding.                                                  *)
LEMMA NoneIsHolding == None \in Holding /\ None.qty = 0 /\ None.cost = 0 /\ None.dir = "NONE"
BY DEF None, Holding, Dirs

(* close_position books the whole position and leaves none.                           *)
LEMMA ClosedGood ==
    ASSUME NEW a, Good(a), NEW c \in Coins, NEW price \in Nat, now \in Nat
    PROVE  /\ Good(Closed(a, c, price))
           /\ Closed(a, c, price).position = [a.position EXCEPT ![c] = None]
<1> DEFINE p == a.position[c]
           gross == Signed(p.dir) * (p.qty * price - p.cost) * Unit
           value == p.qty * price
           t == Trade(gross, p.cost, value)
           b == Closed(a, c, price)
           more == a.balance + t.net
           longer == Append(a.history, t)
           flat == [a.position EXCEPT ![c] = None]
<1>1. a \in Account /\ p \in Holding /\ p.qty \in Nat /\ p.cost \in Int /\ a.balance \in Int
  BY DEF Good, Account, Holding
<1>2. value \in Int /\ gross \in Int
  <2>1. value \in Int /\ (value - p.cost) \in Int
    BY <1>1
  <2> DEFINE x == value - p.cost
             s == Signed(p.dir)
  <2>2. x \in Int /\ s \in Int /\ gross = s * x * 1000
    BY <2>1, SignedType, PaperConstants
  <2> HIDE DEF x, s
  <2>3. gross \in Int
    BY <2>2
  <2> QED
    BY <2>1, <2>3
<1>3. b = [a EXCEPT !.balance = more, !.history = longer, !.position = flat]
  BY <1>1 DEF Closed, Account
<1> HIDE DEF gross, value
<1>4. t \in Result
  <2>1. Fee(p.cost) \in Int /\ Fee(value) \in Int
    BY <1>1, <1>2, FeeType
  <2> QED
    BY <1>2, <2>1 DEF Trade, Result
<1>5. more \in Int /\ longer \in Seq(Result) /\ flat \in [Coins -> Holding] /\ t.net \in Int
  BY <1>1, <1>4, NoneIsHolding DEF Account, Result
<1> HIDE DEF b, t
<1>6. /\ b \in Account /\ b.balance = more /\ b.history = longer /\ b.position = flat
  <2> HIDE DEF more, longer, flat
  <2> QED
    BY <1>1, <1>3, <1>5 DEF Account
<1>7. /\ \A d \in Coins \ {c} : b.position[d] = a.position[d]
      /\ b.position[c] = None
  BY <1>1, <1>6 DEF Account
<1>8. b.position[c].cost = p.cost - p.cost
  BY <1>1, <1>7, NoneIsHolding
<1>9. b.position[c].qty = 0 => b.position[c] = None
  BY <1>7
<1>10. b.balance = a.balance + t.net /\ b.history = Append(a.history, t)
  BY <1>6
<1>11. Good(b)
  <2> HIDE DEF p, more, longer, flat
  <2>1. b.position[c].cost = a.position[c].cost - p.cost
    BY <1>8 DEF p
  <2>2. b.balance = a.balance + Trade(gross, p.cost, value).net
        /\ b.history = Append(a.history, Trade(gross, p.cost, value))
    BY <1>10 DEF t
  <2> QED
    BY <1>1, <1>2, <1>6, <1>7, <1>9, <2>1, <2>2, TradeBooked
<1> QED
  BY <1>6, <1>11 DEF b

(* The grains are positive numbers up to a million, one of them 1.                    *)
LEMMA GrainsType ==
    /\ Grains \subseteq Nat \ {0} /\ 1 \in Grains
    /\ \E n \in Nat : \A g \in Grains : g <= n
<1>1. Grains \subseteq Nat \ {0} /\ 1 \in Grains
  BY SMT DEF Grains
<1> DEFINE most == 1000000
<1>2. most \in Nat /\ \A g \in Grains : g <= most
  BY SMT DEF Grains
<1> HIDE DEF most
<1> QED
  BY <1>1, <1>2

(* The last digit of a quantity that is not zero has a positive weight.               *)
LEMMA GrainType == ASSUME NEW qty \in Nat PROVE Grain(qty) \in Nat \ {0}
<1> DEFINE S == {g \in Grains : qty % g = 0}
<1>1. PICK n \in Nat : \A g \in Grains : g <= n
  BY GrainsType
<1>2. S \subseteq Nat \ {0} /\ \A g \in S : g <= n
  BY <1>1, GrainsType
<1>3. 1 \in S
  <2>1. qty % 1 = 0
    OBVIOUS
  <2> QED
    BY <2>1, GrainsType
<1>4. Grain(qty) = Max(S)
  BY DEF Grain
<1> HIDE DEF S
<1>5. S \subseteq Nat /\ S # {}
  BY <1>2, <1>3
<1>6. Max(S) \in S
  BY <1>2, <1>5, Greatest
<1> QED
  BY <1>2, <1>4, <1>6

(* A quotient, times its divisor, is at most the dividend.                            *)
LEMMA WholeParts ==
    ASSUME NEW a \in Nat, NEW b \in Nat \ {0}
    PROVE  a \div b \in Nat /\ b * (a \div b) <= a
BY Z3

(* What a partial close leaves is a position still.                                     *)
LEMMA PartIsLess ==
    ASSUME NEW qty \in Nat \ {0}, NEW ratio \in 1 .. 99
    PROVE  PartOf(qty, ratio) \in Nat /\ PartOf(qty, ratio) < qty
<1> DEFINE g == Grain(qty)
           x == qty * ratio
           y == 100 * g
           k == x \div y
<1>1. g \in Nat \ {0}
  BY GrainType
<1> HIDE DEF g
<1>2. x \in Nat /\ y \in Nat \ {0} /\ x <= 99 * qty
  BY <1>1
<1>3. k \in Nat /\ y * k <= x
  <2> HIDE DEF x, y
  <2> QED
    BY <1>2, WholeParts
<1>4. PartOf(qty, ratio) = k * g
  BY DEF PartOf, g
<1> DEFINE m == k * g
<1> HIDE DEF k, x
<1>5. m \in Nat /\ 100 * m = y * k
  BY <1>1, <1>3
<1> HIDE DEF y, m
<1>6. 100 * m <= 99 * qty
  <2>1. y * k \in Int /\ x \in Int
    BY <1>2, <1>5
  <2> QED
    BY <1>2, <1>3, <1>5, <2>1
<1>7. m < qty
  BY <1>5, <1>6
<1> QED
  BY <1>4, <1>5, <1>7 DEF m

(* A quotient is an integer.                                                          *)
LEMMA WholePart ==
    ASSUME NEW a \in Int, NEW b \in Nat \ {0}
    PROVE  a \div b \in Int
BY Z3

(* partial_close books a part of the position and keeps the rest, of the same direction.*)
LEMMA ReducedGood ==
    ASSUME NEW a, Good(a), NEW c \in Coins, a.position[c].qty > 0, NEW price \in Nat,
           NEW ratio \in 1 .. 99, now \in Nat
    PROVE  /\ Good(Reduced(a, c, price, ratio))
           /\ LET b == Reduced(a, c, price, ratio)
              IN  /\ \A d \in Coins \ {c} : b.position[d] = a.position[d]
                  /\ b.position[c].dir = a.position[c].dir /\ b.position[c].qty <= a.position[c].qty
<1> DEFINE p == a.position[c]
           part == PartOf(p.qty, ratio)
           cost == (p.cost * part) \div p.qty
           gross == Signed(p.dir) * (part * price - cost) * Unit
           value == part * price
           t == Trade(gross, cost, value)
           b == Reduced(a, c, price, ratio)
           left == p.qty - part
           rest == p.cost - cost
           margin == p.margin - (p.margin * ratio) \div 100
           q == [p EXCEPT !.qty = left, !.cost = rest, !.margin = margin]
           more == a.balance + t.net
           longer == Append(a.history, t)
           kept == [a.position EXCEPT ![c] = q]
<1>1. /\ a \in Account /\ p \in Holding /\ p.qty \in Nat \ {0} /\ p.cost \in Int /\ a.balance \in Int
      /\ p.margin \in Int
  BY DEF Good, Account, Holding
<1>2. part \in Nat /\ left \in Nat \ {0}
  <2> HIDE DEF part
  <2>1. part \in Nat /\ part < p.qty
    BY <1>1, PartIsLess DEF part
  <2> QED
    BY <1>1, <2>1
<1> HIDE DEF part
<1>3. cost \in Int /\ rest \in Int /\ margin \in Int
  <2>1. p.cost * part \in Int /\ p.margin * ratio \in Int
    BY <1>1, <1>2
  <2>2. cost \in Int /\ (p.margin * ratio) \div 100 \in Int
    BY <1>1, <2>1, WholePart
  <2> HIDE DEF cost
  <2> QED
    BY <1>1, <2>2
<1>4. b = [a EXCEPT !.balance = more, !.history = longer, !.position = kept]
  BY <1>1 DEF Reduced, Account, part
<1> HIDE DEF cost
<1>5. value \in Int /\ gross \in Int
  <2> DEFINE x == value - cost
             s == Signed(p.dir)
  <2>1. value \in Int /\ x \in Int
    BY <1>2, <1>3
  <2>2. s \in Int /\ gross = s * x * 1000
    BY SignedType, PaperConstants
  <2> HIDE DEF x, s
  <2>3. gross \in Int
    BY <2>1, <2>2
  <2> QED
    BY <2>1, <2>3
<1> HIDE DEF gross, value, left, rest, margin
<1>6. t \in Result
  <2>1. Fee(cost) \in Int /\ Fee(value) \in Int
    BY <1>3, <1>5, FeeType
  <2> QED
    BY <1>5, <2>1 DEF Trade, Result
<1>7. q \in Holding /\ q.dir = p.dir /\ q.qty = left /\ q.cost = rest
  BY <1>1, <1>2, <1>3 DEF Holding
<1> HIDE DEF b, t, q
<1>8. more \in Int /\ longer \in Seq(Result) /\ kept \in [Coins -> Holding] /\ t.net \in Int
  BY <1>1, <1>6, <1>7 DEF Account, Result
<1>9. /\ b \in Account /\ b.balance = more /\ b.history = longer /\ b.position = kept
  <2> HIDE DEF more, longer, kept
  <2> QED
    BY <1>1, <1>4, <1>8 DEF Account
<1>10. /\ \A d \in Coins \ {c} : b.position[d] = a.position[d]
       /\ b.position[c] = q
  BY <1>1, <1>9 DEF Account
<1>11. b.balance = a.balance + t.net /\ b.history = Append(a.history, t)
  BY <1>9
<1>12. b.position[c].qty # 0
  BY <1>2, <1>7, <1>10
<1>13. Good(b)
  <2> HIDE DEF p, more, longer, kept
  <2>1. b.position[c].cost = a.position[c].cost - cost
    BY <1>7, <1>10 DEF rest, p
  <2>2. b.balance = a.balance + Trade(gross, cost, value).net
        /\ b.history = Append(a.history, Trade(gross, cost, value))
    BY <1>11 DEF t
  <2> QED
    BY <1>3, <1>5, <1>9, <1>10, <1>12, <2>1, <2>2, TradeBooked
<1>14. left <= p.qty
  BY <1>1, <1>2 DEF left
<1> QED
  BY <1>7, <1>10, <1>13, <1>14 DEF b

(* Sizes.                                                                                *)
LEMMA LockedType == ASSUME NEW a \in Account PROVE Locked(a) \in Int
<1> DEFINE f == [c \in Coins |-> a.position[c].margin]
<1>1. \A c \in Coins : f[c] \in Int
  BY DEF Account, Holding
<1>2. Locked(a) = SumFunctionOnSet(f, Coins)
  <2>1. DOMAIN f = Coins
    OBVIOUS
  <2> QED
    BY <2>1 DEF Locked, SumFunction
<1> HIDE DEF f
<1> QED
  BY <1>1, <1>2, SumIsInteger, PaperConstants

(* The numbers of a size, when the entry is off the stop.                             *)
LEMMA SizeType ==
    ASSUME NEW a \in Account, NEW s \in Signals, s.entry # s.sl
    PROVE  /\ Size(a, s).qty \in Nat /\ Size(a, s).margin \in Int /\ Size(a, s).risk \in Int
<1> DEFINE risk == (Available(a) * RiskPct) \div 100
           dist == Gap(s.entry, s.sl)
           qty  == risk \div (dist * Unit)
           margin == (qty * s.entry * Unit) \div s.lev
<1>1. s.entry \in Nat /\ s.sl \in Nat /\ s.lev \in Nat \ {0}
  BY SignalsAssumption
<1>2. dist \in Nat \ {0} /\ dist * Unit \in Nat \ {0}
  <2>1. dist \in Nat \ {0}
    BY <1>1 DEF Gap
  <2> HIDE DEF dist
  <2> QED
    BY <2>1, PaperConstants
<1>3. Available(a) \in Nat
  <2>1. a.balance \in Int /\ Locked(a) \in Int
    BY LockedType DEF Account
  <2> QED
    BY <2>1 DEF Available
<1>4. risk \in Nat
  <2> DEFINE x == Available(a) * RiskPct
  <2>1. x \in Nat
    BY <1>3, PaperConstants
  <2> HIDE DEF x
  <2>2. x \div 100 \in Nat
    BY <2>1
  <2> QED
    BY <2>2 DEF x
<1> HIDE DEF risk, dist
<1>5. qty \in Nat
  BY <1>2, <1>4, WholeParts
<1>6. Size(a, s) = [qty |-> qty, margin |-> margin, risk |-> qty * dist * Unit]
  BY DEF Size, risk, dist
<1> HIDE DEF qty
<1>7. qty * dist * Unit \in Int /\ qty * s.entry * Unit \in Int
  BY <1>1, <1>2, <1>5, PaperConstants
<1>8. margin \in Int
  BY <1>1, <1>7, WholePart
<1> QED
  BY <1>5, <1>6, <1>7, <1>8

(* An accepted signal has passed every check.                                            *)
LEMMA Accepted ==
    ASSUME NEW a, NEW s, Refusal(a, s) = "OK"
    PROVE  \A i \in 1 .. 15 : ~Checks(a, s)[i][2]
<1> DEFINE checks == Checks(a, s)
           failing == {i \in 1 .. Len(checks) : checks[i][2]}
<1>1. Len(checks) = 15
  BY DEF Checks
<1>2. \A i \in 1 .. 15 : checks[i][1] # "OK"
  BY DEF Checks
<1> HIDE DEF checks
<1>3. Refusal(a, s) = IF failing # {}
                      THEN IF Min(failing) = 0 THEN "OK" ELSE checks[Min(failing)][1]
                      ELSE "OK"
  BY DEF Refusal, SelectInSeq, checks
<1>4. CASE failing # {}
  <2>1. failing \subseteq Nat
    BY <1>1
  <2> HIDE DEF failing
  <2>2. Min(failing) \in failing
    BY <1>4, <2>1, Least
  <2>3. Min(failing) \in 1 .. 15
    BY <1>1, <2>2 DEF failing
  <2> QED
    BY <1>2, <1>3, <1>4, <2>3
<1>5. CASE failing = {}
  BY <1>1, <1>5 DEF checks
<1> QED
  BY <1>4, <1>5

(* The checks an accepted signal has passed, those the limits are about.              *)
LEMMA AcceptedFits ==
    ASSUME NEW a, NEW s \in Signals, Refusal(a, s) = "OK"
    PROVE  /\ s.dir \in {"LONG", "SHORT"} /\ s.entry # s.sl /\ Size(a, s).qty >= 1
           /\ ~(Streak(a) >= StreakCooldown) /\ ~DailySpent(a)
<1>1. \A i \in 1 .. 15 : ~Checks(a, s)[i][2]
  BY Accepted
<1>2. ~Checks(a, s)[2][2] /\ ~Checks(a, s)[4][2] /\ ~Checks(a, s)[7][2]
      /\ ~Checks(a, s)[11][2] /\ ~Checks(a, s)[14][2]
  BY <1>1
<1>3. /\ s.dir # "HOLD" /\ RewardEnough(s) /\ ~DailySpent(a)
      /\ ~(Streak(a) >= StreakCooldown) /\ SizeFits(a, s)
  BY <1>2 DEF Checks
<1>4. s.dir \in {"LONG", "SHORT"} /\ s.entry \in Nat /\ s.sl \in Nat
  BY <1>3, SignalsAssumption
<1>5. s.entry # s.sl
  <2>1. Signed(s.dir) * (s.entry - s.sl) > 0
    BY <1>3 DEF RewardEnough
  <2> QED
    BY <1>4, <2>1, SignedType
<1> QED
  BY <1>3, <1>4, <1>5 DEF SizeFits

(* A position that a signal opens or adds to has paid its entry fee.                     *)
LEMMA EntryBooked ==
    ASSUME NEW a, Good(a), NEW b \in Account, NEW c \in Coins, NEW cost \in Int,
           b.balance = a.balance - Fee(cost), b.history = a.history,
           \A d \in Coins \ {c} : b.position[d] = a.position[d],
           b.position[c].cost = a.position[c].cost + cost, b.position[c].qty > 0
    PROVE  Good(b)
<1>1. a \in Account /\ Balanced(a)
  BY DEF Good
<1>2. a.position[c].cost \in Int /\ a.balance \in Int
  BY <1>1 DEF Account, Holding
<1>3. EntryFees(b) = EntryFees(a) - Fee(a.position[c].cost) + Fee(b.position[c].cost)
  BY <1>1, EntryFeesChange
<1>4. Fee(b.position[c].cost) = Fee(a.position[c].cost) + Fee(cost)
  BY <1>2, FeeSum
<1>5. Fee(cost) \in Int /\ Fee(a.position[c].cost) \in Int
  BY <1>2, FeeType
<1>6. Results(a) \in Int /\ EntryFees(a) \in Int /\ InitialBalance \in Int
  BY <1>1, SumsAreNumbers, PaperConstants
<1>7. Results(b) = Results(a)
  BY DEF Results
<1>8. Balanced(b)
  <2>1. a.balance = InitialBalance + Results(a) - EntryFees(a)
    BY <1>1 DEF Balanced
  <2>2. b.balance = InitialBalance + Results(b) - EntryFees(b)
    BY <1>2, <1>3, <1>4, <1>5, <1>6, <1>7, <2>1
  <2> QED
    BY <2>2 DEF Balanced
<1>9. FlatIsNone(b)
  BY DEF Good, FlatIsNone
<1> QED
  BY <1>8, <1>9 DEF Good

\* b is account a after the entry of a signal, which checks on a allowed.
Enters(a, b, s) ==
    /\ Good(b) /\ b.history = a.history
    /\ \A c \in Coins \ {s.coin} : b.position[c] = a.position[c]
    /\ b.position[s.coin].dir = s.dir /\ s.dir # "NONE"
    /\ a.balance = b.balance + EntryPaid(b.position[s.coin], a.position[s.coin])

(* open_position books the entry fee of what it opens, and changes no other coin.     *)
LEMMA OpenedGood ==
    ASSUME NEW a, Good(a), NEW s \in Signals, Refusal(a, s) = "OK", a.position[s.coin].qty = 0
    PROVE  Enters(a, Opened(a, s), s)
<1> DEFINE c == s.coin
           z == Size(a, s)
           cost == z.qty * s.entry
           less == a.balance - Fee(cost)
           q == [dir |-> s.dir, qty |-> z.qty, cost |-> cost, sl |-> s.sl, tp |-> s.tp,
                 lev |-> s.lev, margin |-> z.margin, risk |-> z.risk, dca |-> 0]
           opened == [a.position EXCEPT ![c] = q]
           b == Opened(a, s)
<1>1. /\ a \in Account /\ a.balance \in Int /\ c \in Coins /\ a.position[c].cost = 0
      /\ a.position[c].dir = "NONE"
  BY NoneIsHolding DEF Good, Account, Coins, FlatIsNone
<1>2. /\ s.dir \in {"LONG", "SHORT"} /\ s.entry # s.sl /\ z.qty >= 1
      /\ s.entry \in Nat /\ s.sl \in Nat /\ s.tp \in Nat /\ s.lev \in Nat
  BY AcceptedFits, SignalsAssumption
<1>3. z.qty \in Nat /\ z.margin \in Int /\ z.risk \in Int
  BY <1>1, <1>2, SizeType
<1> HIDE DEF z
<1>4. cost \in Int /\ Fee(cost) \in Int
  <2>1. cost \in Int
    BY <1>2, <1>3
  <2> QED
    BY <2>1, FeeType
<1>5. b = [a EXCEPT !.balance = less, !.position = opened]
  BY <1>1 DEF Opened, Account, z
<1> HIDE DEF cost
<1>6. q \in Holding /\ q.dir = s.dir /\ q.cost = cost /\ q.qty = z.qty
  BY <1>2, <1>3, <1>4 DEF Holding, Dirs
<1> HIDE DEF q, b
<1>7. less \in Int /\ opened \in [Coins -> Holding]
  BY <1>1, <1>4, <1>6 DEF Account
<1>8. /\ b \in Account /\ b.balance = less /\ b.position = opened /\ b.history = a.history
  <2> HIDE DEF less, opened
  <2> QED
    BY <1>1, <1>5, <1>7 DEF Account
<1>9. (\A d \in Coins \ {c} : b.position[d] = a.position[d]) /\ b.position[c] = q
  BY <1>1, <1>8 DEF Account
<1>10. b.position[c].cost = a.position[c].cost + cost /\ b.position[c].qty > 0
  BY <1>1, <1>2, <1>3, <1>4, <1>6, <1>9
<1>11. Good(b)
  <2> HIDE DEF c, opened
  <2> QED
    BY <1>1, <1>4, <1>8, <1>9, <1>10, EntryBooked
<1>12. EntryPaid(b.position[c], a.position[c]) = Fee(cost)
  <2>1. q.dir # a.position[c].dir /\ cost - 0 = cost
    BY <1>1, <1>2, <1>4, <1>6
  <2> QED
    BY <1>6, <1>9, <2>1 DEF EntryPaid
<1>13. a.balance = b.balance + Fee(cost)
  BY <1>1, <1>4, <1>8
<1>14. b.position[c].dir = s.dir /\ s.dir # "NONE"
  BY <1>2, <1>6, <1>9
<1> QED
  BY <1>8, <1>9, <1>11, <1>12, <1>13, <1>14 DEF Enters, b, c

(* apply_dca books the entry fee of what it adds, and changes no other coin.          *)
LEMMA AddedGood ==
    ASSUME NEW a, Good(a), NEW s \in Signals, Refusal(a, s) = "OK", a.position[s.coin].dir = s.dir
    PROVE  Enters(a, Added(a, s), s)
<1> DEFINE c == s.coin
           p == a.position[c]
           z == Size(a, s)
           cost == z.qty * s.entry
           less == a.balance - Fee(cost)
           qty == p.qty + z.qty
           total == p.cost + cost
           margin == p.margin + z.margin
           risk == p.risk + z.risk
           times == p.dca + 1
           q == [p EXCEPT !.qty = qty, !.cost = total, !.margin = margin, !.risk = risk, !.dca = times]
           added == [a.position EXCEPT ![c] = q]
           b == Added(a, s)
<1>1. /\ a \in Account /\ a.balance \in Int /\ c \in Coins /\ p \in Holding
      /\ p.qty \in Nat /\ p.cost \in Int /\ p.margin \in Int /\ p.risk \in Int /\ p.dca \in Nat
  BY DEF Good, Account, Coins, Holding
<1>2. /\ s.dir \in {"LONG", "SHORT"} /\ s.entry # s.sl /\ z.qty >= 1 /\ s.entry \in Nat
  BY AcceptedFits, SignalsAssumption
<1>3. z.qty \in Nat /\ z.margin \in Int /\ z.risk \in Int
  BY <1>1, <1>2, SizeType
<1> HIDE DEF z
<1>4. cost \in Int /\ Fee(cost) \in Int
  <2>1. cost \in Int
    BY <1>2, <1>3
  <2> QED
    BY <2>1, FeeType
<1>5. b = [a EXCEPT !.balance = less, !.position = added]
  <2>1. b = [a EXCEPT !.balance = less, !.position[c] = q]
    BY <1>1 DEF Added, Account, z
  <2> HIDE DEF less, q, b
  <2> QED
    BY <1>1, <2>1 DEF Account
<1> HIDE DEF cost
<1>6. /\ qty \in Nat /\ qty > 0 /\ total \in Int /\ margin \in Int /\ risk \in Int /\ times \in Nat
  BY <1>1, <1>2, <1>3, <1>4
<1>7. total - p.cost = cost
  BY <1>1, <1>4
<1> HIDE DEF qty, total, margin, risk, times
<1>8. q \in Holding /\ q.dir = p.dir /\ q.cost = total /\ q.qty = qty
  BY <1>1, <1>6 DEF Holding
<1> HIDE DEF q, b
<1>9. less \in Int /\ added \in [Coins -> Holding]
  BY <1>1, <1>4, <1>8 DEF Account
<1>10. /\ b \in Account /\ b.balance = less /\ b.position = added /\ b.history = a.history
  <2> HIDE DEF less, added
  <2> QED
    BY <1>1, <1>5, <1>9 DEF Account
<1>11. (\A d \in Coins \ {c} : b.position[d] = a.position[d]) /\ b.position[c] = q
  BY <1>1, <1>10 DEF Account
<1>12. b.position[c].cost = a.position[c].cost + cost /\ b.position[c].qty > 0
  BY <1>6, <1>8, <1>11 DEF total
<1>13. Good(b)
  <2> HIDE DEF c, p, added
  <2> QED
    BY <1>1, <1>4, <1>10, <1>11, <1>12, EntryBooked
<1>14. EntryPaid(b.position[c], a.position[c]) = Fee(cost)
  BY <1>7, <1>8, <1>11 DEF EntryPaid
<1>15. a.balance = b.balance + Fee(cost)
  BY <1>1, <1>4, <1>10
<1>16. b.position[c].dir = s.dir /\ s.dir # "NONE"
  BY <1>2, <1>8, <1>11
<1> QED
  BY <1>10, <1>11, <1>13, <1>14, <1>15, <1>16 DEF Enters, b, c

(* A refusal may halt the account or start its cooldown and moves nothing else.       *)
LEMMA DeclinedGood ==
    ASSUME NEW a, Good(a), NEW s \in Signals, now \in Nat
    PROVE  Good(Declined(a, s)) /\ Declined(a, s).position = a.position
<1> DEFINE code == Refusal(a, s)
           stopped == a.halted \/ code \in {"ORDER_001", "WEEKLY_LOSS", "STREAK_HALT"}
           until == IF code = "STREAK_COOLDOWN" THEN now + Cooldown ELSE a.cooldown
           b == Declined(a, s)
<1>1. a \in Account /\ Balanced(a) /\ FlatIsNone(a)
  BY DEF Good
<1>2. until \in Int /\ stopped \in BOOLEAN
  <2>1. a.cooldown \in Int /\ now + Cooldown \in Int
    BY <1>1, PaperConstants DEF Account
  <2> QED
    BY <2>1
<1>3. b = [a EXCEPT !.halted = stopped, !.cooldown = until]
  BY <1>1 DEF Declined, Account
<1> HIDE DEF stopped, until, b
<1>4. /\ b \in Account /\ b.balance = a.balance /\ b.position = a.position /\ b.history = a.history
  BY <1>1, <1>2, <1>3 DEF Account
<1>5. Good(b)
  BY <1>1, <1>4 DEF Good, Balanced, FlatIsNone, Results, EntryFees
<1> QED
  BY <1>4, <1>5 DEF b

(* The losses of a day, and the trades lost in a row, are numbers.                        *)
LEMMA LossType == ASSUME NEW a \in Account, NEW start PROVE LossSince(a, start) \in Int
<1> DEFINE h == a.history
           worth(t) == IF t.net < 0 /\ t.at >= start THEN -t.net ELSE 0
           w == [i \in DOMAIN h |-> worth(h[i])]
<1>1. h \in Seq(Result)
  BY DEF Account
<1>2. IsFiniteSet(DOMAIN h) /\ \A i \in DOMAIN h : h[i].net \in Int
  <2>1. DOMAIN h = 1 .. Len(h) /\ Len(h) \in Int /\ \A i \in DOMAIN h : h[i] \in Result
    BY <1>1
  <2>2. \A i \in DOMAIN h : h[i].net \in Int
    BY <2>1 DEF Result
  <2> HIDE DEF h
  <2>3. IsFiniteSet(1 .. Len(h))
    BY <2>1, FS_Interval
  <2> QED
    BY <2>1, <2>2, <2>3
<1>3. \A i \in DOMAIN h : w[i] \in Int
  BY <1>2
<1>4. LossSince(a, start) = SumFunctionOnSet(w, DOMAIN h)
  <2>1. DOMAIN w = DOMAIN h
    OBVIOUS
  <2> QED
    BY <2>1 DEF LossSince, SumFunction
<1> HIDE DEF h, w
<1> QED
  BY <1>2, <1>3, <1>4, SumIsInteger

(* The losses in a row are a number.                                                  *)
LEMMA StreakType == ASSUME NEW a \in Account PROVE Streak(a) \in Int
<1> DEFINE n == Len(a.history)
           S == {i \in DOMAIN a.history : a.history[i].net >= 0} \cup {0}
<1>1. n \in Nat /\ S \subseteq Nat /\ S # {} /\ \A i \in S : i <= n
  BY DEF Account
<1>2. Streak(a) = n - Max(S)
  BY DEF Streak
<1> HIDE DEF n, S
<1>3. Max(S) \in S
  BY <1>1, Greatest
<1> DEFINE m == Max(S)
<1>4. m \in S /\ Streak(a) = n - m
  BY <1>2, <1>3
<1> HIDE DEF m
<1>5. m \in Nat
  BY <1>1, <1>4
<1> QED
  BY <1>1, <1>4, <1>5

(* What the checks say of the losses holds of any account with the same trades.           *)
LEMMA CheckedFits ==
    ASSUME NEW a \in Account, NEW s \in Signals, Refusal(a, s) = "OK", NEW b, b.history = a.history
    PROVE  /\ Streak(b) < StreakCooldown
           /\ DailyLoss(b) + (a.balance * RiskPct) \div 100 <= (a.balance * DailyPct) \div 100
<1>1. ~(Streak(a) >= StreakCooldown) /\ ~DailySpent(a)
  BY AcceptedFits
<1>2. Streak(b) = Streak(a) /\ DailyLoss(b) = DailyLoss(a)
  BY DEF Streak, DailyLoss, LossSince
<1>3. Streak(a) \in Int /\ DailyLoss(a) \in Int
  BY StreakType, LossType DEF DailyLoss
<1> DEFINE limit == (a.balance * DailyPct) \div 100
           next  == (a.balance * RiskPct) \div 100
<1>4. limit \in Int /\ next \in Int
  <2> DEFINE x == a.balance * DailyPct
             y == a.balance * RiskPct
  <2>1. x \in Int /\ y \in Int /\ limit = x \div 100 /\ next = y \div 100
    BY PaperConstants DEF Account
  <2> HIDE DEF x, y, limit, next
  <2> QED
    BY <2>1
<1>5. ~(DailyLoss(a) + next > limit)
  BY <1>1 DEF DailySpent
<1> HIDE DEF limit, next
<1>6. DailyLoss(b) + next <= limit /\ Streak(b) < StreakCooldown
  BY <1>1, <1>2, <1>3, <1>4, <1>5 DEF StreakCooldown
<1> QED
  BY <1>6 DEF limit, next

\* The step from account a to b grows the position of coin c within the limits.
Within(a, b, c) ==
    Grows(b.position[c], a.position[c]) =>
        LET balance == b.balance + EntryPaid(b.position[c], a.position[c])
        IN  /\ Streak(b) < StreakCooldown
            /\ DailyLoss(b) + (balance * RiskPct) \div 100 <= (balance * DailyPct) \div 100
AllWithin(a, b) == Good(b) /\ \A c \in Coins : Within(a, b, c)

(* A position that stays, shrinks or goes does not grow.                                  *)
LEMMA NotGrown ==
    ASSUME NEW a, Good(a), NEW b, NEW c \in Coins,
           \/ b.position[c] = a.position[c] \/ b.position[c] = None
           \/ b.position[c].dir = a.position[c].dir /\ b.position[c].qty <= a.position[c].qty
                 /\ b.position[c].qty \in Nat
    PROVE  Within(a, b, c)
<1>1. a.position[c].qty \in Nat
  BY DEF Good, Account, Holding
<1>2. ~Grows(b.position[c], a.position[c])
  BY <1>1, NoneIsHolding DEF Grows
<1> QED
  BY <1>2 DEF Within

(* A reversal: the losses counted include the one of the position it has just closed, *)
(* because the signal is checked again in the account that leaves.                    *)
LEMMA ReversedWithin ==
    ASSUME NEW a, Good(a), NEW s \in Signals, now \in Nat, PreAction(a, s) = "close_existing"
    PROVE  AllWithin(a, Reversed(a, s))
<1> DEFINE flat == Closed(a, s.coin, s.entry)
           b == Reversed(a, s)
<1>1. s.coin \in Coins /\ s.entry \in Nat /\ a \in Account
  BY SignalsAssumption DEF Coins, Good
<1>2. Good(flat) /\ flat.position = [a.position EXCEPT ![s.coin] = None]
  BY <1>1, ClosedGood
<1>3. flat.position[s.coin] = None /\ \A c \in Coins \ {s.coin} : flat.position[c] = a.position[c]
  BY <1>1, <1>2 DEF Account
<1>4. b = IF Refusal(flat, s) = "OK" THEN Opened(flat, s) ELSE Declined(flat, s)
  BY DEF Reversed
<1> HIDE DEF flat, b
<1>5. CASE Refusal(flat, s) = "OK"
  <2>1. b = Opened(flat, s)
    BY <1>4, <1>5
  <2>2. Enters(flat, b, s)
    BY <1>2, <1>3, <1>5, <2>1, NoneIsHolding, OpenedGood
  <2>3. Good(b) /\ b.history = flat.history /\ b.position[s.coin].dir = s.dir /\ s.dir # "NONE"
    BY <2>2 DEF Enters
  <2>4. a.position[s.coin].dir # s.dir
    BY DEF PreAction
  <2>5. EntryPaid(b.position[s.coin], a.position[s.coin]) = EntryPaid(b.position[s.coin], None)
    BY <2>3, <2>4, NoneIsHolding DEF EntryPaid
  <2>6. flat.balance = b.balance + EntryPaid(b.position[s.coin], a.position[s.coin])
    BY <1>3, <2>2, <2>5 DEF Enters
  <2>7. /\ Streak(b) < StreakCooldown
        /\ DailyLoss(b) + (flat.balance * RiskPct) \div 100 <= (flat.balance * DailyPct) \div 100
    BY <1>2, <1>5, <2>3, CheckedFits DEF Good
  <2>8. Within(a, b, s.coin)
    BY <2>6, <2>7 DEF Within
  <2>9. ASSUME NEW c \in Coins \ {s.coin} PROVE Within(a, b, c)
    <3>1. b.position[c] = a.position[c]
      BY <1>3, <2>2 DEF Enters
    <3> QED
      BY <3>1, NotGrown
  <2>10. \A c \in Coins : Within(a, b, c)
    BY <2>8, <2>9
  <2> HIDE DEF Within, Good
  <2>11. AllWithin(a, b)
    BY <2>3, <2>10 DEF AllWithin
  <2> QED
    BY <2>11 DEF b
<1>6. CASE Refusal(flat, s) # "OK"
  <2>1. Good(b) /\ b.position = flat.position
    BY <1>2, <1>4, <1>6, DeclinedGood
  <2>2. ASSUME NEW c \in Coins PROVE Within(a, b, c)
    <3>1. b.position[c] = a.position[c] \/ b.position[c] = None
      BY <1>3, <2>1
    <3> QED
      BY <3>1, NotGrown
  <2>3. AllWithin(a, b)
    BY <2>1, <2>2 DEF AllWithin
  <2> QED
    BY <2>3 DEF b
<1> QED
  BY <1>5, <1>6

(* An entry in a flat coin, or an addition in the position's direction.               *)
LEMMA TakenWithin ==
    ASSUME NEW a, Good(a), NEW s \in Signals, Refusal(a, s) = "OK",
           PreAction(a, s) # "close_existing"
    PROVE  AllWithin(a, Taken(a, s))
<1> DEFINE b == Taken(a, s)
<1>1. s.coin \in Coins
  BY DEF Coins
<1>2. Enters(a, b, s)
  <2>1. CASE a.position[s.coin].qty = 0
    BY <2>1, OpenedGood DEF Taken, PreAction
  <2>2. CASE a.position[s.coin].qty # 0
    <3>1. PreAction(a, s) = "dca" /\ a.position[s.coin].dir = s.dir
      BY <2>2 DEF PreAction
    <3> QED
      BY <3>1, AddedGood DEF Taken
  <2> QED
    BY <2>1, <2>2
<1> HIDE DEF b
<1>3. /\ Good(b) /\ b.history = a.history
      /\ a.balance = b.balance + EntryPaid(b.position[s.coin], a.position[s.coin])
  BY <1>2 DEF Enters
<1>4. /\ Streak(b) < StreakCooldown
      /\ DailyLoss(b) + (a.balance * RiskPct) \div 100 <= (a.balance * DailyPct) \div 100
  BY <1>3, CheckedFits DEF Good
<1>5. Within(a, b, s.coin)
  BY <1>3, <1>4 DEF Within
<1>6. ASSUME NEW c \in Coins \ {s.coin} PROVE Within(a, b, c)
  <2>1. b.position[c] = a.position[c]
    BY <1>2 DEF Enters
  <2> QED
    BY <2>1, NotGrown
<1>7. AllWithin(a, b)
  BY <1>3, <1>5, <1>6 DEF AllWithin
<1> QED
  BY <1>7 DEF b

(* Every action keeps the invariant and grows positions within the limits only.       *)
LEMMA PaperStep ==
    ASSUME PaperInv, Next
    PROVE  PaperInv' /\ \A c \in Coins : Within(account, account', c)
<1>1. Good(account) /\ now \in Nat /\ account \in Account
  BY DEF PaperInv, Good
<1>2. ASSUME AllWithin(account, account'), UNCHANGED now
      PROVE  PaperInv' /\ \A c \in Coins : Within(account, account', c)
  BY <1>1, <1>2 DEF AllWithin, PaperInv, Good, Balanced, FlatIsNone, Results, EntryFees, Fee
<1>3. ASSUME Good(account'), UNCHANGED now, account'.position = account.position
      PROVE  AllWithin(account, account')
  BY <1>1, <1>3, NotGrown DEF AllWithin
<1>4. ASSUME NEW s \in Signals, Submit(s) PROVE AllWithin(account, account')
  <2>1. CASE Refusal(account, s) # "OK"
    BY <1>1, <1>3, <1>4, <2>1, DeclinedGood DEF Submit
  <2>2. CASE Refusal(account, s) = "OK" /\ PreAction(account, s) = "close_existing"
    BY <1>1, <1>4, <2>2, ReversedWithin DEF Submit
  <2>3. CASE Refusal(account, s) = "OK" /\ PreAction(account, s) # "close_existing"
    BY <1>1, <1>4, <2>3, TakenWithin DEF Submit
  <2> QED
    BY <2>1, <2>2, <2>3
<1>5. ASSUME NEW c \in Coins, NEW price \in Nat, account' = Closed(account, c, price)
      PROVE  AllWithin(account, account')
  <2>1. Good(account') /\ account'.position = [account.position EXCEPT ![c] = None]
    BY <1>1, <1>5, ClosedGood
  <2>2. ASSUME NEW d \in Coins PROVE Within(account, account', d)
    <3>1. account'.position[d] = account.position[d] \/ account'.position[d] = None
      BY <1>1, <2>1 DEF Account
    <3> QED
      BY <1>1, <3>1, NotGrown
  <2> QED
    BY <2>1, <2>2 DEF AllWithin
<1>6. ASSUME NEW c \in Coins, NEW price \in Nat, NEW ratio \in 1 .. 99,
             PartialClose(c, price, ratio)
      PROVE  AllWithin(account, account')
  <2>1. account' = Reduced(account, c, price, ratio) /\ account.position[c].qty > 0
    BY <1>6 DEF PartialClose, Held
  <2>2. /\ Good(account')
        /\ \A d \in Coins \ {c} : account'.position[d] = account.position[d]
        /\ account'.position[c].dir = account.position[c].dir
        /\ account'.position[c].qty <= account.position[c].qty
    BY <1>1, <2>1, ReducedGood
  <2>3. account'.position[c].qty \in Nat
    BY <2>2 DEF Good, Account, Holding
  <2>4. ASSUME NEW d \in Coins PROVE Within(account, account', d)
    BY <1>1, <2>2, <2>3, NotGrown
  <2> QED
    BY <2>2, <2>4 DEF AllWithin
<1>7. ASSUME Halt \/ Resume PROVE AllWithin(account, account')
  <2>1. /\ account' \in Account /\ account'.balance = account.balance
        /\ account'.position = account.position /\ account'.history = account.history
    <3>1. /\ account.balance \in Int /\ account.position \in [Coins -> Holding]
          /\ account.history \in Seq(Result) /\ account.halted \in BOOLEAN
          /\ account.cooldown \in Int
          /\ account = [balance |-> account.balance, position |-> account.position,
                        history |-> account.history, halted |-> account.halted,
                        cooldown |-> account.cooldown]
      BY <1>1 DEF Account
    <3>2. \E h \in BOOLEAN, u \in Int :
             account' = [balance |-> account.balance, position |-> account.position,
                         history |-> account.history, halted |-> h, cooldown |-> u]
      <4>1. CASE Halt
        BY <3>1, <4>1 DEF Halt
      <4>2. CASE Resume
        <5>1. account' = [balance |-> account.balance, position |-> account.position,
                          history |-> account.history, halted |-> FALSE, cooldown |-> 0]
          BY <3>1, <4>2 DEF Resume
        <5>2. FALSE \in BOOLEAN /\ 0 \in Int
          OBVIOUS
        <5> QED
          BY <5>1, <5>2
      <4> QED
        BY <1>7, <4>1, <4>2
    <3> QED
      BY <3>1, <3>2 DEF Account
  <2>2. Good(account')
    BY <1>1, <2>1 DEF Good, Balanced, FlatIsNone, Results, EntryFees
  <2> QED
    BY <1>3, <1>7, <2>1, <2>2 DEF Halt, Resume
<1>8. \A c \in Coins : Prices[c] \subseteq Nat
  BY PricesAssumption DEF Coins
<1>9. CASE Wait
  <2>1. PaperInv'
    BY <1>1, <1>9 DEF Wait, PaperInv, Good, Balanced, FlatIsNone, Results, EntryFees, Fee
  <2>2. \A c \in Coins : Within(account, account', c)
    BY <1>1, <1>9, NotGrown DEF Wait
  <2> QED
    BY <2>1, <2>2
<1>10. CASE \E s \in Signals : Submit(s)
  BY <1>2, <1>4, <1>10 DEF Submit
<1>11. CASE \E c \in Coins : \E p \in Prices[c] : Tick(c, p) \/ Close(c, p)
  BY <1>2, <1>5, <1>8, <1>11 DEF Tick, Close
<1>12. CASE \E c \in Coins, r \in Ratios : \E p \in Prices[c] : PartialClose(c, p, r)
  <2>1. PICK c \in Coins, r \in Ratios : \E p \in Prices[c] : PartialClose(c, p, r)
    BY <1>12
  <2>2. PICK p \in Prices[c] : PartialClose(c, p, r)
    BY <2>1
  <2>3. r \in 1 .. 99 /\ p \in Nat
    BY <1>8, PricesAssumption
  <2> QED
    BY <1>2, <1>6, <2>2, <2>3 DEF PartialClose
<1>13. CASE Halt \/ Resume
  BY <1>2, <1>7, <1>13 DEF Halt, Resume
<1> QED
  BY <1>9, <1>10, <1>11, <1>12, <1>13 DEF Next

(* An account starts with its balance, no position and no history.                    *)
LEMMA PaperStarts == Init => PaperInv
<1> SUFFICES ASSUME Init PROVE PaperInv
  OBVIOUS
<1> DEFINE f == [c \in Coins |-> Fee(account.position[c].cost)]
           w == [i \in DOMAIN account.history |-> account.history[i].gross - account.history[i].fee]
<1>1. /\ account.balance = InitialBalance /\ account.position = [c \in Coins |-> None]
      /\ account.history = <<>> /\ account.halted = FALSE /\ account.cooldown = 0 /\ now = 0
  BY DEF Init
<1>2. account \in Account
  <2>1. InitialBalance \in Int /\ [c \in Coins |-> None] \in [Coins -> Holding] /\ <<>> \in Seq(Result)
    BY PaperConstants, NoneIsHolding
  <2> QED
    BY <2>1 DEF Init, Account
<1>3. \A c \in Coins : account.position[c] = None
  BY <1>1
<1>4. \A c \in Coins : f[c] \in Int /\ f[c] <= 0 /\ 0 <= f[c]
  BY <1>3, NoneIsHolding, FreeIsFree
<1>5. Results(account) = 0
  <2>1. DOMAIN w = {} /\ Results(account) = SumFunctionOnSet(w, DOMAIN w)
    BY <1>1 DEF Results, SumFunction
  <2> HIDE DEF w
  <2> QED
    BY <2>1, SumEmpty
<1>6. EntryFees(account) = 0
  <2>1. EntryFees(account) = SumFunctionOnSet(f, Coins)
    <3>1. DOMAIN f = Coins
      OBVIOUS
    <3> QED
      BY <3>1 DEF EntryFees, SumFunction
  <2> HIDE DEF f
  <2>2. \A c \in Coins : f[c] \in Nat
    BY <1>4
  <2>3. SumFunctionOnSet(f, Coins) \in Nat
    BY <2>2, PaperConstants, SumIsNatural
  <2>4. SumFunctionOnSet(f, Coins) <= 0 * Cardinality(Coins)
    BY <1>4, PaperConstants, SumOfAtMost
  <2>5. Cardinality(Coins) \in Nat
    BY PaperConstants, FS_CardinalityType
  <2> QED
    BY <2>1, <2>3, <2>4, <2>5
<1>7. Balanced(account)
  BY <1>1, <1>5, <1>6, PaperConstants DEF Balanced
<1>8. FlatIsNone(account)
  BY <1>3 DEF FlatIsNone
<1> QED
  BY <1>1, <1>2, <1>7, <1>8 DEF PaperInv, Good

(* The account's fields have their types, its balance is explained, and a coin without*)
(* quantity has no position, in every reachable state.                                *)
THEOREM PaperInvariance == Spec => []PaperInv
<1>1. PaperInv /\ [Next]_vars => PaperInv'
  <2>1. PaperInv /\ UNCHANGED vars => PaperInv'
    BY DEF vars, PaperInv, Good, Balanced, FlatIsNone, Results, EntryFees, Fee
  <2> QED
    BY <2>1, PaperStep
<1> QED
  BY <1>1, PaperStarts, PTL DEF Spec

(* BooksBalance: every unit of the paper balance is explained by the trades recorded  *)
(* and the entry fees of what is open, for any signals, prices and fees.              *)
THEOREM Balances == Spec => []BooksBalance
<1>1. PaperInv => BooksBalance
  BY DEF PaperInv, Good, Balanced, BooksBalance
<1> QED
  BY <1>1, PaperInvariance, PTL

(* GrowsWithinLimits: no position is opened, reversed or added to once the day's losses*)
(* leave no room for one more or three of them are in a row.                          *)
THEOREM Grown == Spec => GrowsWithinLimits
<1>1. PaperInv /\ [Next]_vars =>
        [\A c \in Coins : Grows(account'.position[c], account.position[c]) =>
            LET balance == account'.balance + EntryPaid(account'.position[c], account.position[c])
            IN  /\ Streak(account') < StreakCooldown
                /\ DailyLoss(account') + (balance * RiskPct) \div 100
                      <= (balance * DailyPct) \div 100]_vars
  BY PaperStep DEF Within
<1> QED
  BY <1>1, PaperInvariance, PTL DEF Spec, GrowsWithinLimits

(*********************************** the backtest ***********************************)

(* Whole parts of integers.                                                            *)
LEMMA PartsAreIntegers ==
    ASSUME NEW a \in Int, NEW b \in Nat \ {0}
    PROVE  a \div b \in Int
OBVIOUS

LEMMA ProductsAreIntegers ==
    ASSUME NEW a \in Int, NEW b \in Int
    PROVE  a * b \in Int
OBVIOUS

(* The figures of a trade are numbers, while it is open and when it is closed.         *)
OpenTrades == [dir : {s.dir : s \in ReplaySignals}, tp : Int, sl : Int, fill : Int, qty : Int,
               margin : Int, entryFee : Int, slippage : Int, funding : Int]

ClosedOk(t) == {t.fees, t.slippage, t.funding, t.margin, t.net} \subseteq Int

Reports == [trades : Int, winners : Int, won : Int, lost : Int, fees : Int,
            slippage : Int, funding : Int]

BarOk(b) == {b.open, b.low, b.high, b.close, b.funding} \subseteq Int

LEMMA CostsAreNumbers ==
    /\ {Capital, Risk, FeePct, SlipPct, MaxOpen} \subseteq Nat /\ SlipPct < 100
    /\ \A b \in ReplayBars : BarOk(b) /\ b.open > 0
BY CostsAssumption DEF BarOk

LEMMA FillsAreNumbers ==
    ASSUME NEW dir, NEW price \in Int
    PROVE  /\ EntryFill(dir, price) \in Int /\ ExitFill(dir, price) \in Int
           /\ price > 0 => EntryFill(dir, price) > 0
<1>1. price * (100 + SlipPct) \in Int /\ price * (100 - SlipPct) \in Int
  BY CostsAreNumbers, ProductsAreIntegers
<1>2. price > 0 => price * (100 + SlipPct) > 0 /\ price * (100 - SlipPct) > 0
  BY CostsAreNumbers, Z3
<1> QED BY <1>1, <1>2 DEF EntryFill, ExitFill, Bought, Sold

LEMMA CostsOf ==
    ASSUME NEW q \in Int, NEW p \in Int
    PROVE  FeeOn(q, p) \in Int /\ Slippage(q, p) \in Int
<1>1. q * p \in Int
  BY ProductsAreIntegers
<1>2. q * p * SlipPct \in Int /\ q * p * FeePct \in Int
  BY <1>1, CostsAreNumbers, ProductsAreIntegers
<1> QED BY <1>2, ProductsAreIntegers DEF FeeOn, Slippage

LEMMA FundingOf ==
    ASSUME NEW t, t.qty \in Int, NEW p \in Int, NEW rate \in Int
    PROVE  Funding(t, p, rate) \in Int
<1>1. Way(t.dir) * t.qty \in Int
  BY DEF Way
<1>2. Way(t.dir) * t.qty * p \in Int
  BY <1>1, ProductsAreIntegers
<1> QED BY <1>2, ProductsAreIntegers DEF Funding

(* Entering gives such a trade ...                                                     *)
LEMMA EntersTrade ==
    ASSUME NEW sig \in ReplaySignals, NEW b \in ReplayBars
    PROVE  EnteredAt(sig, b) \in OpenTrades
<1> DEFINE fill == EntryFill(sig.dir, b.open)
           qty  == Quantity(fill, sig.sl)
<1>1. {sig.tp, sig.sl} \subseteq Nat /\ sig.lev \in Nat \ {0}
  BY CostsAssumption
<1>2. b.open \in Int /\ b.open > 0
  BY CostsAreNumbers DEF BarOk
<1>3. fill \in Int /\ fill > 0
  BY <1>2, FillsAreNumbers
<1> HIDE DEF fill
<1>4. qty \in Int
  <2> DEFINE gap == Abs(fill - 100 * sig.sl)
  <2>1. gap \in Nat
    BY <1>1, <1>3 DEF Abs
  <2> HIDE DEF gap
  <2>2. Risk * 100 * 1000 \in Int /\ Risk * 100 \in Int
    BY CostsAreNumbers
  <2>3. (Risk * 100 * 1000) \div fill \in Int
    BY <1>3, <2>2, PartsAreIntegers
  <2>4. gap # 0 => (Risk * 100) \div gap \in Int
    BY <2>1, <2>2, PartsAreIntegers
  <2> QED BY <2>3, <2>4 DEF Quantity, gap
<1> HIDE DEF qty
<1>5. qty * fill \in Int
  BY <1>3, <1>4, ProductsAreIntegers
<1>6. (qty * fill * 100) \div sig.lev \in Int
  BY <1>1, <1>5, ProductsAreIntegers, PartsAreIntegers
<1>7. FeeOn(qty, fill) \in Int /\ Slippage(qty, b.open) \in Int
  BY <1>2, <1>3, <1>4, CostsOf
<1> QED BY <1>1, <1>3, <1>4, <1>6, <1>7 DEF EnteredAt, OpenTrades, fill, qty

(* ... that funding leaves one, with the same margin ...                               *)
LEMMA AccruesTrade ==
    ASSUME NEW t \in OpenTrades, NEW b, BarOk(b)
    PROVE  /\ Accrued(t, b) \in OpenTrades /\ Accrued(t, b).margin = t.margin
           /\ Charged(t, b) \in Int
<1>1. Charged(t, b) \in Int
  <2>1. b.close * 100 \in Int /\ b.funding \in Int /\ t.qty \in Int
    BY DEF BarOk, OpenTrades
  <2> QED BY <2>1, FundingOf DEF Charged
<1> QED BY <1>1 DEF Accrued, OpenTrades

(* ... and a close turns into figures that are numbers, with that margin.               *)
LEMMA ClosesTrade ==
    ASSUME NEW t \in OpenTrades, NEW b, BarOk(b), NEW level \in Int
    PROVE  ClosedOk(ClosedAt(t, b, level)) /\ ClosedAt(t, b, level).margin = t.margin
<1> DEFINE fill    == ExitFill(t.dir, level)
           funding == t.funding + Funding(t, fill, b.funding)
           slip    == t.slippage + Slippage(t.qty, level)
           fees    == t.entryFee + FeeOn(t.qty, fill)
           gross   == Way(t.dir) * (fill - t.fill) * t.qty * 100
<1>1. {t.fill, t.qty, t.margin, t.entryFee, t.slippage, t.funding} \subseteq Int /\ b.funding \in Int
  BY DEF OpenTrades, BarOk
<1>2. fill \in Int
  BY FillsAreNumbers
<1> HIDE DEF fill
<1>3. funding \in Int /\ slip \in Int /\ fees \in Int
  <2>1. Funding(t, fill, b.funding) \in Int
    BY <1>1, <1>2, FundingOf
  <2>2. Slippage(t.qty, level) \in Int /\ FeeOn(t.qty, fill) \in Int
    BY <1>1, <1>2, CostsOf
  <2> QED BY <1>1, <2>1, <2>2
<1>4. gross \in Int
  <2>1. Way(t.dir) * (fill - t.fill) \in Int
    BY <1>1, <1>2 DEF Way
  <2>2. Way(t.dir) * (fill - t.fill) * t.qty \in Int
    BY <1>1, <2>1, ProductsAreIntegers
  <2> QED BY <2>2, ProductsAreIntegers
<1> HIDE DEF funding, slip, fees, gross
<1>5. Abs(funding) \in Int
  BY <1>3 DEF Abs
<1>6. ClosedAt(t, b, level) =
        [dir |-> t.dir, qty |-> t.qty, fill |-> t.fill, level |-> level, sl |-> t.sl,
         margin |-> t.margin, fees |-> fees, slippage |-> slip, funding |-> Abs(funding),
         net |-> gross - (fees + Abs(funding) + slip)]
  BY DEF ClosedAt, funding, slip, fees, gross, fill
<1> QED BY <1>1, <1>3, <1>4, <1>5, <1>6 DEF ClosedOk

--------------------------------------------------------------------------------
(* What the trades closed bring back and what is reported of them.                     *)
LEMMA Settled ==
    ASSUME NEW done, IsFiniteSet(DOMAIN done), \A n \in DOMAIN done : ClosedOk(done[n]),
           NEW r \in Reports
    PROVE  /\ Counted(r, done) \in Reports
           /\ PaidBack(done) \in Int /\ Total(LAMBDA t : t.margin, done) \in Int
           /\ PaidBack(done) = Total(LAMBDA t : t.margin, done)
                 + (Counted(r, done).won - r.won) - (Counted(r, done).lost - r.lost)
<1> DEFINE D == DOMAIN done
           margin == [n \in D |-> done[n].margin]
           paid   == [n \in D |-> done[n].net]
           both   == [n \in D |-> done[n].margin + done[n].net]
           won    == [n \in D |-> IF done[n].net > 0 THEN done[n].net ELSE 0]
           lost   == [n \in D |-> IF done[n].net < 0 THEN -done[n].net ELSE 0]
           one    == [n \in D |-> 1]
           wins   == [n \in D |-> IF done[n].net > 0 THEN 1 ELSE 0]
           fees   == [n \in D |-> done[n].fees]
           slip   == [n \in D |-> done[n].slippage]
           fund   == [n \in D |-> done[n].funding]
<1>1. /\ \A n \in D : margin[n] \in Int /\ paid[n] \in Int /\ both[n] = margin[n] + paid[n]
      /\ \A n \in D : both[n] \in Int
      /\ \A n \in D : won[n] \in Int /\ lost[n] \in Int /\ won[n] = paid[n] + lost[n]
      /\ \A n \in D : one[n] \in Int /\ wins[n] \in Int
      /\ \A n \in D : fees[n] \in Int /\ slip[n] \in Int /\ fund[n] \in Int
  BY DEF ClosedOk
<1>2. /\ Total(LAMBDA t : t.margin, done) = SumFunctionOnSet(margin, D)
      /\ PaidBack(done) = SumFunctionOnSet(both, D)
  BY SumOfFunction DEF Total, PaidBack
<1>3. Counted(r, done) =
        [trades   |-> r.trades + SumFunctionOnSet(one, D),
         winners  |-> r.winners + SumFunctionOnSet(wins, D),
         won      |-> r.won + SumFunctionOnSet(won, D),
         lost     |-> r.lost + SumFunctionOnSet(lost, D),
         fees     |-> r.fees + SumFunctionOnSet(fees, D),
         slippage |-> r.slippage + SumFunctionOnSet(slip, D),
         funding  |-> r.funding + SumFunctionOnSet(fund, D)]
  BY SumOfFunction DEF Total, Counted
<1> HIDE DEF D, margin, paid, both, won, lost, one, wins, fees, slip, fund
<1>4. IsFiniteSet(D)
  BY DEF D
<1>5. /\ SumFunctionOnSet(margin, D) \in Int /\ SumFunctionOnSet(paid, D) \in Int
      /\ SumFunctionOnSet(won, D) \in Int /\ SumFunctionOnSet(lost, D) \in Int
      /\ SumFunctionOnSet(one, D) \in Int /\ SumFunctionOnSet(wins, D) \in Int
      /\ SumFunctionOnSet(fees, D) \in Int /\ SumFunctionOnSet(slip, D) \in Int
      /\ SumFunctionOnSet(fund, D) \in Int /\ SumFunctionOnSet(both, D) \in Int
  BY <1>1, <1>4, SumIsInteger
<1>6. SumFunctionOnSet(both, D) = SumFunctionOnSet(margin, D) + SumFunctionOnSet(paid, D)
  BY <1>1, <1>4, SumOfSums
<1>7. SumFunctionOnSet(won, D) = SumFunctionOnSet(paid, D) + SumFunctionOnSet(lost, D)
  BY <1>1, <1>4, SumOfSums
<1>8. Counted(r, done) \in Reports
  BY <1>3, <1>5 DEF Reports
<1>9. /\ Counted(r, done).won = r.won + SumFunctionOnSet(won, D) /\ r.won \in Int
      /\ Counted(r, done).lost = r.lost + SumFunctionOnSet(lost, D) /\ r.lost \in Int
  BY <1>3 DEF Reports
<1> QED BY <1>2, <1>5, <1>6, <1>7, <1>8, <1>9

--------------------------------------------------------------------------------
(* The books of a run.                                                                 *)
BacktestInv ==
    /\ bar \in Nat /\ (bar > 0 => last \in ReplayBars)
    /\ waiting \in ReplaySignals \cup {NoSignal}
    /\ IsFiniteSet(DOMAIN open)
    /\ \A n \in DOMAIN open : n \in 0 .. bar - 1 /\ open[n] \in OpenTrades
    /\ cash \in Int /\ upfront \in Int /\ report \in Reports
    /\ ReportAddsUp

LEMMA ReplayStep ==
    ASSUME BacktestInv, NEW b \in ReplayBars, NEW sig \in ReplaySignals \cup {NoSignal}, Replay(b, sig)
    PROVE  BacktestInv'
<1> DEFINE held  == HeldAt(b)
           D     == DOMAIN held
           out   == {n \in D : LeavesAt(held[n], b)}
           done  == [n \in out |-> ClosedAt(Accrued(held[n], b), b, ExitLevel(held[n], b))]
           entry == EnteredAt(waiting, b)
           paid  == IF Takes THEN entry.margin ELSE 0
           cost  == IF Takes THEN entry.entryFee ELSE 0
           due   == Total(LAMBDA t : Charged(t, b), held)
           w     == [n \in D |-> held[n].margin]
<1>1. BarOk(b)
  BY CostsAreNumbers
<1>2. Takes => entry \in OpenTrades
  BY EntersTrade DEF BacktestInv, Takes
<1>3. paid \in Int /\ cost \in Int
  BY <1>2 DEF OpenTrades
<1>4. /\ D = DOMAIN open \cup (IF Takes THEN {bar} ELSE {}) /\ IsFiniteSet(D)
      /\ bar \in Nat /\ bar \notin DOMAIN open
  BY FS_AddElement DEF BacktestInv, HeldAt
<1>5. /\ \A n \in DOMAIN open : held[n] = open[n]
      /\ Takes => held[bar] = entry
  BY <1>4 DEF HeldAt
<1>6. \A n \in D : held[n] \in OpenTrades
  BY <1>2, <1>4, <1>5 DEF BacktestInv
<1>7. /\ bar' = bar + 1 /\ last' = b /\ cash' = cash - paid - cost - due + PaidBack(done)
      /\ open' = [n \in D \ out |-> Accrued(held[n], b)]
      /\ report' = Counted(report, done) /\ upfront' = upfront + cost + due
      /\ waiting' \in ReplaySignals \cup {NoSignal}
  BY DEF Replay
<1> HIDE DEF held, D, out, entry, paid, cost, due
<1>8. /\ out \subseteq D /\ IsFiniteSet(out) /\ IsFiniteSet(D \ out)
  BY <1>4, FS_Subset DEF out
<1>9. \A n \in D : /\ Accrued(held[n], b) \in OpenTrades /\ Accrued(held[n], b).margin = held[n].margin
                   /\ Charged(held[n], b) \in Int
  BY <1>1, <1>6, AccruesTrade
<1>10. due \in Int
  <2> DEFINE c == [n \in D |-> Charged(held[n], b)]
  <2>1. due = SumFunctionOnSet(c, D)
    BY SumOfFunction DEF Total, due, D
  <2>2. \A n \in D : c[n] \in Int
    BY <1>9
  <2> HIDE DEF c
  <2> QED BY <1>4, <2>1, <2>2, SumIsInteger
<1>11. \A n \in out : ClosedOk(done[n]) /\ done[n].margin = w[n]
  <2> SUFFICES ASSUME NEW n \in out PROVE ClosedOk(done[n]) /\ done[n].margin = w[n]
    OBVIOUS
  <2>1. n \in D /\ ExitLevel(held[n], b) \in Int
    BY <1>6, <1>8 DEF ExitLevel, OpenTrades
  <2> QED BY <1>1, <1>9, <2>1, ClosesTrade
<1>12. DOMAIN done = out
  OBVIOUS
<1>13. \A n \in D : w[n] \in Int /\ w[n] = held[n].margin
  BY <1>6 DEF OpenTrades
<1>14. Total(LAMBDA t : t.margin, done) = SumFunctionOnSet(w, out)
  <2> DEFINE m == [n \in out |-> done[n].margin]
  <2>1. Total(LAMBDA t : t.margin, done) = SumFunctionOnSet(m, out)
    BY <1>12, SumOfFunction DEF Total
  <2>2. \A n \in out : w[n] \in Int /\ m[n] = w[n]
    BY <1>8, <1>11, <1>13
  <2> HIDE DEF m, w
  <2> QED BY <1>8, <2>1, <2>2, SumOfEqual
<1>15. Total(LAMBDA t : t.margin, open)' = SumFunctionOnSet(w, D \ out)
  <2> DEFINE m == [n \in D \ out |-> open'[n].margin]
  <2>1. Total(LAMBDA t : t.margin, open)' = SumFunctionOnSet(m, D \ out)
    BY <1>7, SumOfFunction DEF Total
  <2>2. \A n \in D \ out : w[n] \in Int /\ m[n] = w[n]
    BY <1>7, <1>9, <1>13
  <2> HIDE DEF m, w
  <2> QED BY <1>8, <2>1, <2>2, SumOfEqual
<1>16. Total(LAMBDA t : t.margin, open) = SumFunctionOnSet(w, DOMAIN open)
  <2> DEFINE m == [n \in DOMAIN open |-> open[n].margin]
  <2>1. Total(LAMBDA t : t.margin, open) = SumFunctionOnSet(m, DOMAIN open)
    BY SumOfFunction DEF Total
  <2>2. \A n \in DOMAIN open : w[n] \in Int /\ m[n] = w[n]
    BY <1>4, <1>5, <1>13
  <2> HIDE DEF m, w
  <2> QED BY <2>1, <2>2, SumOfEqual DEF BacktestInv
<1> HIDE DEF done
<1>17. SumFunctionOnSet(w, D) = SumFunctionOnSet(w, DOMAIN open) + paid
  <2> HIDE DEF w
  <2>1. CASE Takes
    <3>1. D = DOMAIN open \cup {bar} /\ w[bar] \in Int /\ w[bar] = paid
      BY <1>4, <1>5, <1>13, <2>1 DEF paid
    <3>2. (\A n \in DOMAIN open : w[n] \in Int) /\ IsFiniteSet(DOMAIN open)
      BY <1>4, <1>13 DEF BacktestInv
    <3>3. SumFunctionOnSet(w, DOMAIN open) \in Int
      BY <3>2, SumIsInteger
    <3>4. SumFunctionOnSet(w, D) = w[bar] + SumFunctionOnSet(w, DOMAIN open)
      BY <1>4, <3>1, <3>2, SumWith
    <3> QED BY <1>3, <3>1, <3>3, <3>4
  <2>2. CASE ~Takes
    <3>1. D = DOMAIN open /\ paid = 0
      BY <1>4, <2>2 DEF paid
    <3>2. SumFunctionOnSet(w, D) \in Int
      BY <1>4, <1>13, SumIsInteger
    <3> QED BY <3>1, <3>2
  <2> QED BY <2>1, <2>2
<1> HIDE DEF w
<1>18. SumFunctionOnSet(w, D) = SumFunctionOnSet(w, out) + SumFunctionOnSet(w, D \ out)
  BY <1>4, <1>8, <1>13, SumOfParts
<1>19. /\ SumFunctionOnSet(w, D) \in Int /\ SumFunctionOnSet(w, out) \in Int
       /\ SumFunctionOnSet(w, D \ out) \in Int /\ SumFunctionOnSet(w, DOMAIN open) \in Int
  <2>1. SumFunctionOnSet(w, D) \in Int
    BY <1>4, <1>13, SumIsInteger
  <2>2. SumFunctionOnSet(w, out) \in Int
    BY <1>8, <1>13, SumIsInteger
  <2>3. SumFunctionOnSet(w, D \ out) \in Int
    BY <1>8, <1>13, SumIsInteger
  <2>4. SumFunctionOnSet(w, DOMAIN open) \in Int
    BY <1>4, <1>13, SumIsInteger DEF BacktestInv
  <2> QED BY <2>1, <2>2, <2>3, <2>4
<1>20. /\ report' \in Reports /\ PaidBack(done) \in Int
       /\ PaidBack(done) = SumFunctionOnSet(w, out)
              + (report'.won - report.won) - (report'.lost - report.lost)
  BY <1>7, <1>8, <1>11, <1>12, <1>14, Settled DEF BacktestInv
<1>21. ReportAddsUp'
  <2>1. cash + SumFunctionOnSet(w, DOMAIN open) = Capital + report.won - report.lost - upfront
    BY <1>16 DEF BacktestInv, ReportAddsUp
  <2>2. /\ {report.won, report.lost, report'.won, report'.lost} \subseteq Int
        /\ cash \in Int /\ upfront \in Int /\ Capital \in Int
    BY <1>20, CostsAreNumbers DEF BacktestInv, Reports
  <2>3. cash' + SumFunctionOnSet(w, D \ out) = Capital + report'.won - report'.lost - upfront'
    BY <1>3, <1>7, <1>10, <1>17, <1>18, <1>19, <1>20, <2>1, <2>2
  <2> QED BY <1>15, <2>3 DEF ReportAddsUp
<1>22. \A n \in DOMAIN open' : n \in 0 .. bar' - 1 /\ open'[n] \in OpenTrades
  <2>1. DOMAIN open' = D \ out /\ \A n \in D \ out : open'[n] \in OpenTrades
    BY <1>7, <1>9
  <2>2. \A n \in D : n \in 0 .. bar
    BY <1>4 DEF BacktestInv
  <2>3. bar' - 1 = bar
    BY <1>4, <1>7
  <2> QED BY <2>1, <2>2, <2>3
<1>23. cash' \in Int /\ upfront' \in Int
  BY <1>3, <1>7, <1>10, <1>20 DEF BacktestInv
<1>24. bar' \in Nat /\ last' \in ReplayBars /\ IsFiniteSet(DOMAIN open')
  BY <1>4, <1>7, <1>8
<1> QED BY <1>7, <1>20, <1>21, <1>22, <1>23, <1>24 DEF BacktestInv

LEMMA CloseStep ==
    ASSUME BacktestInv, CloseLeft
    PROVE  BacktestInv'
<1> DEFINE done == [n \in DOMAIN open |-> ClosedAt(open[n], last, last.close)]
           w    == [n \in DOMAIN open |-> open[n].margin]
<1>1. /\ bar' = bar /\ waiting' = waiting /\ last' = last /\ upfront' = upfront
      /\ open' = <<>> /\ cash' = cash + PaidBack(done) /\ report' = Counted(report, done)
  BY DEF CloseLeft
<1>2. BarOk(last) /\ last.close \in Int
  BY CostsAreNumbers DEF CloseLeft, BacktestInv, BarOk
<1>3. \A n \in DOMAIN open : ClosedOk(done[n]) /\ done[n].margin = open[n].margin
  BY <1>2, ClosesTrade DEF BacktestInv
<1>4. DOMAIN done = DOMAIN open
  OBVIOUS
<1>5. Total(LAMBDA t : t.margin, done) = SumFunctionOnSet(w, DOMAIN open)
  <2> DEFINE m == [n \in DOMAIN open |-> done[n].margin]
  <2>1. Total(LAMBDA t : t.margin, done) = SumFunctionOnSet(m, DOMAIN open)
    BY <1>4, SumOfFunction DEF Total
  <2>2. m = w
    BY <1>3
  <2> QED BY <2>1, <2>2
<1>6. Total(LAMBDA t : t.margin, open) = SumFunctionOnSet(w, DOMAIN open)
  BY SumOfFunction DEF Total
<1>7. Total(LAMBDA t : t.margin, open)' = 0
  <2>1. Total(LAMBDA t : t.margin, open)'
          = SumFunctionOnSet([n \in DOMAIN open' |-> open'[n].margin], DOMAIN open')
    BY SumOfFunction DEF Total
  <2>2. DOMAIN open' = {}
    BY <1>1
  <2> QED BY <2>1, <2>2, SumEmpty
<1> HIDE DEF done, w
<1>8. /\ report' \in Reports /\ PaidBack(done) \in Int /\ SumFunctionOnSet(w, DOMAIN open) \in Int
      /\ PaidBack(done) = SumFunctionOnSet(w, DOMAIN open)
              + (report'.won - report.won) - (report'.lost - report.lost)
  BY <1>1, <1>3, <1>4, <1>5, Settled DEF BacktestInv
<1>9. ReportAddsUp'
  <2>1. cash + SumFunctionOnSet(w, DOMAIN open) = Capital + report.won - report.lost - upfront
    BY <1>6 DEF BacktestInv, ReportAddsUp
  <2>2. /\ {report.won, report.lost, report'.won, report'.lost} \subseteq Int
        /\ cash \in Int /\ upfront \in Int /\ Capital \in Int
    BY <1>8, CostsAreNumbers DEF BacktestInv, Reports
  <2>3. cash' = Capital + report'.won - report'.lost - upfront
    <3>1. /\ PaidBack(done) \in Int /\ SumFunctionOnSet(w, DOMAIN open) \in Int
          /\ PaidBack(done) = SumFunctionOnSet(w, DOMAIN open)
                  + (report'.won - report.won) - (report'.lost - report.lost)
      BY <1>8
    <3>2. cash' = cash + PaidBack(done)
      BY <1>1
    <3> QED BY <2>1, <2>2, <3>1, <3>2
  <2>4. upfront' = upfront /\ cash' \in Int
    BY <1>1, <1>8, <2>2
  <2> QED BY <1>7, <2>2, <2>3, <2>4 DEF ReportAddsUp
<1>10. cash' \in Int
  BY <1>1, <1>8 DEF BacktestInv
<1>11. DOMAIN open' = {} /\ IsFiniteSet(DOMAIN open')
  BY <1>1, FS_EmptySet
<1> QED BY <1>1, <1>8, <1>9, <1>10, <1>11 DEF BacktestInv

LEMMA BacktestInvariance == ReplaySpec => []BacktestInv
<1>1. ReplayInit => BacktestInv
  <2> SUFFICES ASSUME ReplayInit PROVE BacktestInv
    OBVIOUS
  <2>1. DOMAIN open = {} /\ IsFiniteSet(DOMAIN open)
    BY FS_EmptySet DEF ReplayInit
  <2>2. Total(LAMBDA t : t.margin, open) = 0
    <3>1. Total(LAMBDA t : t.margin, open)
            = SumFunctionOnSet([n \in DOMAIN open |-> open[n].margin], DOMAIN open)
      BY SumOfFunction DEF Total
    <3> QED BY <2>1, <3>1, SumEmpty
  <2>3. report \in Reports /\ report.won = 0 /\ report.lost = 0
    BY DEF ReplayInit, Reports, Empty
  <2>4. ReportAddsUp
    BY <2>2, <2>3, CostsAreNumbers DEF ReplayInit, ReportAddsUp
  <2> QED BY <2>1, <2>3, <2>4, CostsAreNumbers DEF ReplayInit, BacktestInv
<1>2. BacktestInv /\ [ReplayNext]_replayVars => BacktestInv'
  <2> SUFFICES ASSUME BacktestInv, [ReplayNext]_replayVars PROVE BacktestInv'
    OBVIOUS
  <2>1. CASE UNCHANGED replayVars
    BY <2>1 DEF replayVars, BacktestInv, ReportAddsUp, Total
  <2> QED BY <2>1, ReplayStep, CloseStep DEF ReplayNext
<1> QED BY <1>1, <1>2, PTL DEF ReplaySpec

(* ReportAddsUp: the equity a run ends with is its capital, what the reported trades    *)
(* won less what they lost, and what was taken from cash before a close, for any bars,  *)
(* signals, fees and number of open positions.                                          *)
THEOREM AddsUp == ReplaySpec => []ReportAddsUp
<1>1. BacktestInv => ReportAddsUp
  BY DEF BacktestInv
<1> QED BY <1>1, BacktestInvariance, PTL

(******************************** the closed shadow trade ****************************)

LEMMA PnlBounds ==
    /\ Interval \in Nat \ {0} /\ Interval <= 48
    /\ Quotes \subseteq Nat /\ Times \subseteq Nat /\ FundingRate \in Int
    /\ TakerFee \in Nat /\ SlippageBps \in Nat
<1>1. FundingHours \in Nat \ {0} /\ 24 % FundingHours = 0
  BY PnlAssumption
<1>2. FundingHours <= 24
  <2> SUFFICES ASSUME 24 < FundingHours PROVE FALSE
    BY <1>1
  <2>1. 24 % FundingHours = 24
    BY <1>1, Z3
  <2> QED BY <1>1, <2>1
<1> QED BY <1>1, <1>2, PnlAssumption DEF Interval

(* The loop over the payments meets every one after the opening, up to the close.           *)
LEMMA EventsArePayments ==
    ASSUME NEW opened \in Nat, NEW closed \in Nat, opened <= closed
    PROVE  /\ FundingEvents(opened, closed)
                = Cardinality({x \in opened .. closed : x # opened /\ x % Interval = 0})
           /\ FundingEvents(opened, closed) \in Nat
<1> DEFINE ahead == {x \in WholeHour(opened) .. opened + 48 : x > opened /\ x % Interval = 0}
           first == Min(ahead)
           counted  == {x \in first .. closed : (x - first) % Interval = 0}
           payments == {x \in opened .. closed : x # opened /\ x % Interval = 0}
<1>1. WholeHour(opened) \in Int /\ WholeHour(opened) <= opened
  BY DEF WholeHour
<1>2. ahead \subseteq Nat /\ \A x \in ahead : x > opened /\ x % Interval = 0
  BY <1>1
<1>3. \A x \in Nat : opened < x /\ x <= opened + 48 /\ x % Interval = 0 => x \in ahead
  BY <1>1
<1>4. ahead # {}
  <2> DEFINE q == opened \div Interval + 1
  <2>1. /\ opened \div Interval \in Nat /\ (opened \div Interval) * Interval <= opened
        /\ opened < q * Interval
    BY PnlBounds, Division
  <2>2. q * Interval = (opened \div Interval) * Interval + Interval
    BY <2>1, PnlBounds, Z3
  <2>3. q \in Nat
    BY <2>1
  <2> HIDE DEF q
  <2>4. q * Interval \in Nat /\ (q * Interval) % Interval = 0
    BY <2>3, PnlBounds, Multiple
  <2>5. (opened \div Interval) * Interval \in Nat
    BY <2>1, PnlBounds, Multiple
  <2>6. q * Interval <= opened + 48
    BY <2>1, <2>2, <2>4, <2>5, PnlBounds
  <2> QED BY <2>1, <2>4, <2>6, <1>3
<1> HIDE DEF ahead
<1>5. first \in ahead /\ \A x \in ahead : first <= x
  BY <1>2, <1>4, Least
<1>6. first \in Nat /\ first > opened /\ first % Interval = 0 /\ first <= opened + 48
  BY <1>2, <1>5 DEF ahead
<1>7. counted = payments
  <2>1. ASSUME NEW x \in counted PROVE x \in payments
    <3>1. x \in Nat /\ first <= x /\ x <= closed /\ (x - first) % Interval = 0
      BY <1>6
    <3>2. x % Interval = 0
      BY <1>6, <3>1, PnlBounds, SameRest
    <3> QED BY <1>6, <3>1, <3>2
  <2>2. ASSUME NEW x \in payments PROVE x \in counted
    <3>1. x \in Nat /\ opened < x /\ x <= closed /\ x % Interval = 0
      OBVIOUS
    <3>2. first <= x
      BY <1>3, <1>5, <1>6, <3>1
    <3>3. (x - first) % Interval = 0
      BY <1>6, <3>1, <3>2, PnlBounds, SameRest
    <3> QED BY <1>6, <3>1, <3>2, <3>3
  <2> QED BY <2>1, <2>2
<1>8. IsFiniteSet(payments)
  <2>1. IsFiniteSet(opened .. closed)
    BY FS_Interval
  <2> QED BY <2>1, FS_Subset
<1>9. FundingEvents(opened, closed) = IF closed <= opened THEN 0 ELSE Cardinality(counted)
  BY DEF FundingEvents, ahead
<1>10. closed <= opened => payments = {}
  OBVIOUS
<1> HIDE DEF first, counted, payments
<1>11. FundingEvents(opened, closed) = Cardinality(payments)
  BY <1>7, <1>9, <1>10, FS_EmptySet
<1> QED BY <1>8, <1>11, FS_CardinalityType DEF payments

(* The two sums for quotes a and b, slippage s, fee f, rate r and n payments.                *)
LongNet(a, b, s, f, r, n) ==
    1 * (b - a) * 10000 * 10000 - (a * (10000 + s) * f + b * (10000 - s) * f)
        - 1 * (a + b) * 5000 * r * n - (a * s * 10000 + b * s * 10000)
LongCash(a, b, s, f, r, n) ==
    (b * (10000 - s) - a * (10000 + s)) * 10000 - (a * (10000 + s) + b * (10000 - s)) * f
        - n * 1 * (a + b) * 5000 * r
ShortNet(a, b, s, f, r, n) ==
    (-1) * (b - a) * 10000 * 10000 - (a * (10000 - s) * f + b * (10000 + s) * f)
        - (-1) * (a + b) * 5000 * r * n - (a * s * 10000 + b * s * 10000)
ShortCash(a, b, s, f, r, n) ==
    (a * (10000 - s) - b * (10000 + s)) * 10000 - (b * (10000 + s) + a * (10000 - s)) * f
        - n * (-1) * (b + a) * 5000 * r

LEMMA SameSum ==
    ASSUME NEW a \in Int, NEW b \in Int, NEW s \in Int, NEW f \in Int, NEW r \in Int, NEW n \in Int
    PROVE  /\ LongNet(a, b, s, f, r, n) = LongCash(a, b, s, f, r, n)
           /\ ShortNet(a, b, s, f, r, n) = ShortCash(a, b, s, f, r, n)
BY Z3 DEF LongNet, LongCash, ShortNet, ShortCash

(* The four figures and the two orders come to the same.                                     *)
LEMMA FiguresAreCash ==
    ASSUME NEW t \in Closings, t.opened <= t.closed
    PROVE  Figures(t).net = Cash(t)
<1> DEFINE n == Cardinality({x \in t.opened .. t.closed : x # t.opened /\ x % Interval = 0})
           a == t.entry
           b == t.exit
<1>1. /\ t.dir \in {"LONG", "SHORT"} /\ a \in Nat /\ b \in Nat
      /\ t.opened \in Nat /\ t.closed \in Nat
  BY PnlBounds DEF Closings
<1>2. FundingEvents(t.opened, t.closed) = n /\ n \in Nat
  BY <1>1, EventsArePayments
<1>3. 10000 \div 2 = 5000
  OBVIOUS
<1> HIDE DEF n
<1>4. /\ a \in Int /\ b \in Int /\ n \in Int
      /\ SlippageBps \in Int /\ TakerFee \in Int /\ FundingRate \in Int
  BY <1>1, <1>2, PnlBounds
<1>5. CASE t.dir = "LONG"
  <2>1. Figures(t).net = LongNet(a, b, SlippageBps, TakerFee, FundingRate, n)
    BY <1>2, <1>3, <1>5 DEF LongNet, Figures, GrossPnl, Fees, FillFee, FillPrice, FundingFee,
       SlippageCost, FillSlippage, Facing, One
  <2>2. Cash(t) = LongCash(a, b, SlippageBps, TakerFee, FundingRate, n)
    BY <1>3, <1>5 DEF LongCash, Cash, Facing, One, n
  <2>3. LongNet(a, b, SlippageBps, TakerFee, FundingRate, n)
          = LongCash(a, b, SlippageBps, TakerFee, FundingRate, n)
    <3> HIDE DEF a, b
    <3> QED BY <1>4, SameSum
  <2> QED BY <2>1, <2>2, <2>3
<1>6. CASE t.dir = "SHORT"
  <2>1. Figures(t).net = ShortNet(a, b, SlippageBps, TakerFee, FundingRate, n)
    BY <1>2, <1>3, <1>6 DEF ShortNet, Figures, GrossPnl, Fees, FillFee, FillPrice, FundingFee,
       SlippageCost, FillSlippage, Facing, One
  <2>2. Cash(t) = ShortCash(a, b, SlippageBps, TakerFee, FundingRate, n)
    BY <1>3, <1>6 DEF ShortCash, Cash, Facing, One, n
  <2>3. ShortNet(a, b, SlippageBps, TakerFee, FundingRate, n)
          = ShortCash(a, b, SlippageBps, TakerFee, FundingRate, n)
    <3> HIDE DEF a, b
    <3> QED BY <1>4, SameSum
  <2> QED BY <2>1, <2>2, <2>3
<1> QED BY <1>1, <1>5, <1>6

(* NetIsCashMoved: the net result booked for a shadow trade is the cash its two orders, *)
(* their fees and the funding payments met on the way would have moved, for any quotes, *)
(* times, fees, slippage and rate.                                                      *)
THEOREM NetHolds == PnlSpec => []NetIsCashMoved
<1>1. PnlInit => NetIsCashMoved
  BY DEF PnlInit, NetIsCashMoved
<1>2. NetIsCashMoved /\ [PnlNext]_booked => NetIsCashMoved'
  <2> SUFFICES ASSUME NetIsCashMoved, [PnlNext]_booked PROVE NetIsCashMoved'
    OBVIOUS
  <2>1. CASE UNCHANGED booked
    BY <2>1 DEF NetIsCashMoved
  <2>2. ASSUME NEW t \in Closings, t.opened <= t.closed, Book(t) PROVE NetIsCashMoved'
    BY <2>2, FiguresAreCash DEF Book, NetIsCashMoved
  <2> QED BY <2>1, <2>2 DEF PnlNext
<1> QED BY <1>1, <1>2, PTL DEF PnlSpec
================================================================================
