-------------------------- MODULE OrderExecutionProofs -------------------------
(* What the order path keeps for every number of attempts and cycles and every   *)
(* combination of faults.                                                        *)
(*                                                                               *)
(* The invariants a run checks speak of the end of a cycle or of an attempt; the *)
(* inductive ones below say the same of every place in between: how much of the  *)
(* position the order under way has still to cover, and how many orders of each  *)
(* kind an attempt can have sent by then.                                        *)
EXTENDS OrderExecution, TLAPS

(************************** the inductive invariants ****************************)

\* The unit of this cycle's entry that no stop-loss and no close has answered for.
Uncovered ==
    IF \/ pc = "entry" /\ wire = "accepted"
       \/ pc = "take_profit"
       \/ pc \in {"stop_loss", "emergency_close"} /\ wire # "accepted"
    THEN 1 ELSE 0

Clean == ~alarm /\ faults \cap {"lost", "cancelled", "killed"} = {}

\* While nothing was reported and no such fault was met, the position exceeds the
\* live stop-losses by the uncovered unit at most.
ExposureInv == Clean => position <= resting["stop_loss"] + Uncovered

\* What the current attempt may have sent of each order kind, seen from its place.
EntriesBy ==
    IF pc \in {"start", "gate"} \/ (pc = "entry" /\ wire = "none") THEN 0 ELSE 1

LegsBy(leg, before) ==
    IF pc \in before THEN 0
    ELSE IF pc = leg THEN (IF retried THEN 1 ELSE 0) + (IF wire = "none" THEN 0 ELSE 1)
    ELSE 2

ClosesBy ==
    IF \/ pc \in {"start", "gate", "entry", "take_profit", "stop_loss"}
       \/ pc = "emergency_close" /\ wire = "none"
    THEN 0 ELSE 1

\* Earlier attempts sent their share, the current one what its place allows.
OrdersInv ==
    /\ sent["entry"] <= attempt - 1 + EntriesBy
    /\ sent["take_profit"] <=
          2 * (attempt - 1) + LegsBy("take_profit", {"start", "gate", "entry"})
    /\ sent["stop_loss"] <=
          2 * (attempt - 1) + LegsBy("stop_loss", {"start", "gate", "entry", "take_profit"})
    /\ sent["emergency_close"] <= attempt - 1 + ClosesBy

\* One if the order under way is of this kind and was accepted.
Pending(p) == IF pc = p /\ wire = "accepted" THEN 1 ELSE 0

\* In a cycle without a fault, what was accepted follows from the place.
ShapeInv ==
    cycleFaults \subseteq {"hook"} =>
        /\ pc \in {"start", "gate", "entry"} =>
             /\ sent["entry"] = Pending("entry") /\ sent["take_profit"] = 0
             /\ sent["stop_loss"] = 0 /\ sent["emergency_close"] = 0
             /\ report = "none"
        /\ pc = "take_profit" =>
             /\ sent["entry"] = 1 /\ sent["take_profit"] = Pending("take_profit")
             /\ sent["stop_loss"] = 0 /\ sent["emergency_close"] = 0
             /\ report = "none"
        /\ pc = "stop_loss" =>
             /\ sent["entry"] = 1 /\ sent["take_profit"] = 1
             /\ sent["stop_loss"] = Pending("stop_loss") /\ sent["emergency_close"] = 0
             /\ report = "none"
        /\ pc = "emergency_close" =>
             /\ sent["entry"] = 1 /\ sent["stop_loss"] = 0
             /\ sent["emergency_close"] = Pending("emergency_close")
             /\ report = "none"

\* Without any fault, the only close not yet in the books is the one under way.
BooksInv ==
    faults = {} =>
        unbooked = IF pc = "hook" \/ (pc = "emergency_close" /\ wire = "accepted")
                   THEN 1 ELSE 0

\* A close waiting for the hook was accepted, so the books never go below zero.
HookInv ==
    /\ unbooked \in Nat
    /\ (pc = "hook" \/ (pc = "emergency_close" /\ wire = "accepted")) => unbooked >= 1

Inv ==
    /\ TypeOK
    /\ ExposureInv /\ OrdersInv /\ ShapeInv /\ BooksInv /\ HookInv
    /\ ReportMatchesExchange

(********************************* the steps ************************************)

\* The orders of the path are counted one by one.
LEMMA SentTypes ==
    ASSUME TypeOK
    PROVE  /\ sent["entry"] \in Nat /\ sent["emergency_close"] \in Nat
           /\ sent["take_profit"] \in Nat /\ sent["stop_loss"] \in Nat
           /\ resting["take_profit"] \in Nat /\ resting["stop_loss"] \in Nat
BY DEF TypeOK, Purposes, Legs

LEMMA InvInit == Init => Inv
<1> SUFFICES ASSUME Init PROVE Inv
    OBVIOUS
<1> USE DEF Init
<1>1. TypeOK
    <2>1. attempt \in 1 .. Attempts /\ cycles \in 0 .. Cycles
        BY AttemptsAssumption, CyclesAssumption
    <2> QED BY <2>1 DEF TypeOK, Purposes, Legs, Reports, AllFaults
<1>2. ExposureInv
    BY DEF ExposureInv, Uncovered, Legs
<1>3. OrdersInv
    BY DEF OrdersInv, EntriesBy, LegsBy, ClosesBy, Purposes
<1>4. ShapeInv /\ ReportMatchesExchange
    BY DEF ShapeInv, ReportMatchesExchange, Purposes
<1>5. BooksInv /\ HookInv
    BY DEF BooksInv, HookInv
<1> QED BY <1>1, <1>2, <1>3, <1>4, <1>5 DEF Inv

\* A new cycle begins with nothing sent and no position of its own.
LEMMA InvBeginCycle == Inv /\ BeginCycle => Inv'
<1> SUFFICES ASSUME Inv, BeginCycle PROVE Inv'
    OBVIOUS
<1> USE DEF Inv, BeginCycle
<1>1. TypeOK'
    <2>1. attempt' \in 1 .. Attempts /\ cycles' \in 0 .. Cycles
        BY AttemptsAssumption, CyclesAssumption DEF TypeOK
    <2> QED BY <2>1 DEF TypeOK, Purposes, Reports
<1>2. ExposureInv'
    BY DEF ExposureInv, Clean, Uncovered
<1>3. OrdersInv'
    BY DEF OrdersInv, EntriesBy, LegsBy, ClosesBy, Purposes, Legs
<1>4. ShapeInv' /\ ReportMatchesExchange'
    BY DEF ShapeInv, Pending, ReportMatchesExchange, Purposes
<1>5. BooksInv' /\ HookInv'
    BY DEF BooksInv, HookInv
<1> QED BY <1>1, <1>2, <1>3, <1>4, <1>5

LEMMA InvValidate == Inv /\ Validate => Inv'
<1> SUFFICES ASSUME Inv, Validate PROVE Inv'
    OBVIOUS
<1> USE DEF Inv, Validate, Goes, Returns, NoFault, exchange
<1>1. TypeOK'
    BY DEF TypeOK, Purposes, Reports
<1>2. ExposureInv'
    BY DEF ExposureInv, Clean, Uncovered
<1>3. OrdersInv'
    BY SentTypes DEF OrdersInv, EntriesBy, LegsBy, ClosesBy, Legs, TypeOK
<1>4. ShapeInv' /\ ReportMatchesExchange'
    BY DEF ShapeInv, Pending, ReportMatchesExchange, Purposes
<1>5. BooksInv' /\ HookInv'
    BY DEF BooksInv, HookInv
<1> QED BY <1>1, <1>2, <1>3, <1>4, <1>5

LEMMA InvCheckGate == Inv /\ CheckGate => Inv'
<1> SUFFICES ASSUME Inv, CheckGate PROVE Inv'
    OBVIOUS
<1> USE DEF Inv, CheckGate, Goes, Returns, NoFault, exchange
<1>1. TypeOK'
    BY DEF TypeOK, Purposes, Reports
<1>2. ExposureInv'
    BY DEF ExposureInv, Clean, Uncovered
<1>3. OrdersInv'
    BY SentTypes DEF OrdersInv, EntriesBy, LegsBy, ClosesBy, Legs, TypeOK
<1>4. ShapeInv' /\ ReportMatchesExchange'
    BY DEF ShapeInv, Pending, ReportMatchesExchange, Purposes
<1>5. BooksInv' /\ HookInv'
    BY DEF BooksInv, HookInv
<1> QED BY <1>1, <1>2, <1>3, <1>4, <1>5

\* The engine hears of an order: the place it goes to matches what it heard.
LEMMA InvHears == Inv /\ Hears => Inv'
<1> SUFFICES ASSUME Inv, Hears PROVE Inv'
    OBVIOUS
<1> USE DEF Inv, Hears, Answered, Goes, Returns, NoFault, exchange
<1>1. TypeOK'
    BY DEF TypeOK, Purposes, Legs, Reports
<1>2. ExposureInv'
    <2> SUFFICES ASSUME Clean'
                 PROVE  position' <= resting'["stop_loss"] + Uncovered'
        BY DEF ExposureInv
    <2>1. Clean
        BY DEF Clean, TypeOK
    <2>2. position <= resting["stop_loss"] + Uncovered
        BY <2>1 DEF ExposureInv
    <2>3. ~(pc = "emergency_close" /\ wire # "accepted")
        BY DEF Clean, Legs
    <2>4. Uncovered \in Int /\ Uncovered' \in Int /\ Uncovered <= Uncovered'
        BY <2>3 DEF Uncovered, Legs
    <2> QED BY <2>2, <2>4, SentTypes DEF TypeOK
<1>3. OrdersInv'
    BY SentTypes DEF OrdersInv, EntriesBy, LegsBy, ClosesBy, Legs, TypeOK
<1>4. ShapeInv' /\ ReportMatchesExchange'
    BY SentTypes DEF ShapeInv, Pending, ReportMatchesExchange, Purposes, Legs, TypeOK
<1>5. BooksInv' /\ HookInv'
    BY DEF BooksInv, HookInv, Legs, TypeOK
<1> QED BY <1>1, <1>2, <1>3, <1>4, <1>5

LEMMA InvHook == Inv /\ Hook => Inv'
<1> SUFFICES ASSUME Inv, Hook PROVE Inv'
    OBVIOUS
<1> USE DEF Inv, Hook, exchange
<1>1. TypeOK'
    BY DEF TypeOK, Purposes, HookInv
<1>2. ExposureInv'
    BY DEF ExposureInv, Clean, Uncovered
<1>3. OrdersInv'
    BY SentTypes DEF OrdersInv, EntriesBy, LegsBy, ClosesBy, Legs, TypeOK
<1>4. ShapeInv' /\ ReportMatchesExchange'
    BY DEF ShapeInv, Pending, ReportMatchesExchange, Purposes
<1>5. BooksInv' /\ HookInv'
    BY DEF BooksInv, HookInv
<1> QED BY <1>1, <1>2, <1>3, <1>4, <1>5

\* An accepted order changes position, resting orders and counts together.
LEMMA InvAccept == Inv /\ Accept => Inv'
<1> SUFFICES ASSUME Inv, Accept PROVE Inv'
    OBVIOUS
<1> USE DEF Inv, Accept
<1>1. TypeOK'
    BY DEF TypeOK, Purposes, Legs, HookInv
<1>2. ExposureInv'
    BY SentTypes DEF ExposureInv, Clean, Uncovered, Legs, Purposes, TypeOK
<1>3. /\ sent'["entry"] = sent["entry"] + (IF pc = "entry" THEN 1 ELSE 0)
      /\ sent'["emergency_close"] =
            sent["emergency_close"] + (IF pc = "emergency_close" THEN 1 ELSE 0)
      /\ sent'["take_profit"] = sent["take_profit"] + (IF pc = "take_profit" THEN 1 ELSE 0)
      /\ sent'["stop_loss"] = sent["stop_loss"] + (IF pc = "stop_loss" THEN 1 ELSE 0)
    BY SentTypes DEF Purposes, TypeOK
<1>4. OrdersInv'
    BY <1>3, SentTypes DEF OrdersInv, EntriesBy, LegsBy, ClosesBy, Legs, Purposes, TypeOK
<1>5. ShapeInv'
    BY <1>3, SentTypes DEF ShapeInv, Pending, Purposes
<1>6. ReportMatchesExchange'
    BY DEF ReportMatchesExchange, Purposes
<1>7. BooksInv' /\ HookInv'
    BY DEF BooksInv, HookInv, Purposes
<1> QED BY <1>1, <1>2, <1>4, <1>5, <1>6, <1>7

LEMMA InvRefuse == Inv /\ Refuse => Inv'
<1> SUFFICES ASSUME Inv, Refuse PROVE Inv'
    OBVIOUS
<1> USE DEF Inv, Refuse, exchange, history
<1>1. TypeOK'
    BY DEF TypeOK
<1>2. ExposureInv'
    BY DEF ExposureInv, Clean, Uncovered, Purposes
<1>3. OrdersInv'
    BY SentTypes DEF OrdersInv, EntriesBy, LegsBy, ClosesBy, Legs, Purposes, TypeOK
<1>4. ShapeInv' /\ ReportMatchesExchange'
    BY DEF ShapeInv, Pending, ReportMatchesExchange, Purposes
<1>5. BooksInv' /\ HookInv'
    BY DEF BooksInv, HookInv, Purposes
<1> QED BY <1>1, <1>2, <1>3, <1>4, <1>5

\* A resting order fires: what it reduces it also covered, or nothing was open.
LEMMA InvTriggers == \A leg \in Legs : Inv /\ Triggers(leg) => Inv'
<1> SUFFICES ASSUME NEW leg \in Legs, Inv, Triggers(leg) PROVE Inv'
    OBVIOUS
<1> USE DEF Inv, Triggers, engine, history
<1>1. TypeOK'
    BY DEF TypeOK, Legs
<1>2. ExposureInv'
    BY SentTypes DEF ExposureInv, Clean, Uncovered, Legs, TypeOK
<1>3. OrdersInv'
    BY SentTypes DEF OrdersInv, EntriesBy, LegsBy, ClosesBy, Legs, TypeOK
<1>4. ShapeInv' /\ ReportMatchesExchange'
    BY DEF ShapeInv, Pending, ReportMatchesExchange, Purposes
<1>5. BooksInv' /\ HookInv'
    BY DEF BooksInv, HookInv
<1> QED BY <1>1, <1>2, <1>3, <1>4, <1>5

LEMMA InvLoseAnswer == Inv /\ LoseAnswer => Inv'
<1> SUFFICES ASSUME Inv, LoseAnswer PROVE Inv'
    OBVIOUS
<1> USE DEF Inv, LoseAnswer, Answered, Goes, Returns, Meets, exchange
<1>1. TypeOK'
    BY FaultsAssumption DEF TypeOK, Purposes, Legs, Reports
<1>2. ExposureInv'
    BY DEF ExposureInv, Clean
<1>3. OrdersInv'
    BY SentTypes DEF OrdersInv, EntriesBy, LegsBy, ClosesBy, Legs, TypeOK
<1>4. ShapeInv' /\ ReportMatchesExchange'
    BY DEF ShapeInv, ReportMatchesExchange
<1>5. BooksInv' /\ HookInv'
    BY DEF BooksInv, HookInv, Legs
<1> QED BY <1>1, <1>2, <1>3, <1>4, <1>5

\* A cancelled attempt leaves its share of orders to the count of earlier ones.
LEMMA InvTimeout == Inv /\ Timeout => Inv'
<1> SUFFICES ASSUME Inv, Timeout PROVE Inv'
    OBVIOUS
<1> USE DEF Inv, Timeout, Returns, Meets, exchange
<1>1. TypeOK'
    <2>1. attempt' \in 1 .. Attempts
        BY AttemptsAssumption DEF TypeOK
    <2>2. pc' \in {"start", "idle"} /\ report' \in Reports
          /\ retried' \in BOOLEAN /\ wire' = "none" /\ alarm' \in BOOLEAN
          /\ unbooked' = unbooked
        BY DEF TypeOK, Reports
    <2>3. faults' \subseteq AllFaults /\ cycleFaults' \subseteq faults'
        BY FaultsAssumption DEF TypeOK
    <2> QED BY <2>1, <2>2, <2>3 DEF TypeOK
<1>2. ExposureInv'
    BY DEF ExposureInv, Clean
<1>3. OrdersInv'
    BY SentTypes DEF OrdersInv, EntriesBy, LegsBy, ClosesBy, Legs, Purposes, TypeOK
<1>4. ShapeInv' /\ ReportMatchesExchange'
    BY DEF ShapeInv, ReportMatchesExchange
<1>5. BooksInv' /\ HookInv'
    BY DEF BooksInv, HookInv
<1> QED BY <1>1, <1>2, <1>3, <1>4, <1>5

LEMMA InvKilled == Inv /\ Killed => Inv'
<1> SUFFICES ASSUME Inv, Killed PROVE Inv'
    OBVIOUS
<1> USE DEF Inv, Killed, Meets, exchange
<1>1. TypeOK'
    BY FaultsAssumption DEF TypeOK, Purposes
<1>2. ExposureInv'
    BY DEF ExposureInv, Clean
<1>3. OrdersInv'
    BY SentTypes DEF OrdersInv, EntriesBy, LegsBy, ClosesBy, Legs, Purposes, TypeOK
<1>4. ShapeInv' /\ ReportMatchesExchange'
    BY DEF ShapeInv, ReportMatchesExchange
<1>5. BooksInv' /\ HookInv'
    BY DEF BooksInv, HookInv
<1> QED BY <1>1, <1>2, <1>3, <1>4, <1>5

LEMMA InvHookFails == Inv /\ HookFails => Inv'
<1> SUFFICES ASSUME Inv, HookFails PROVE Inv'
    OBVIOUS
<1> USE DEF Inv, HookFails, Meets, exchange
<1>1. TypeOK'
    BY FaultsAssumption DEF TypeOK, Purposes
<1>2. ExposureInv'
    BY DEF ExposureInv, Clean, Uncovered
<1>3. OrdersInv'
    BY SentTypes DEF OrdersInv, EntriesBy, LegsBy, ClosesBy, Legs, TypeOK
<1>4. ShapeInv' /\ ReportMatchesExchange'
    BY DEF ShapeInv, ReportMatchesExchange, Purposes
<1>5. BooksInv' /\ HookInv'
    BY DEF BooksInv, HookInv
<1> QED BY <1>1, <1>2, <1>3, <1>4, <1>5

LEMMA InvStep == Inv /\ [Next]_vars => Inv'
<1> SUFFICES ASSUME Inv, [Next]_vars PROVE Inv'
    OBVIOUS
<1>1. CASE UNCHANGED vars
    BY <1>1 DEF vars, engine, exchange, history, Inv, TypeOK, ExposureInv, Clean,
       Uncovered, OrdersInv, EntriesBy, LegsBy, ClosesBy, ShapeInv, Pending, BooksInv, HookInv,
       ReportMatchesExchange
<1>2. CASE Next
    BY <1>2, InvBeginCycle, InvValidate, InvCheckGate, InvHears, InvHook, InvAccept,
       InvRefuse, InvTriggers, InvLoseAnswer, InvTimeout, InvKilled, InvHookFails
       DEF Next
<1> QED BY <1>1, <1>2

(********************************* the theorems *********************************)

THEOREM Invariance == Spec => []Inv
<1> QED BY InvInit, InvStep, PTL DEF Spec

\* Every variable keeps its type: in particular the books never go below zero.
THEOREM TypeCorrect == Spec => []TypeOK
<1>1. Inv => TypeOK
    BY DEF Inv
<1> QED BY <1>1, Invariance, PTL

\* Without a lost answer, a cancelled attempt or a killed worker, and unless it was
\* reported, no cycle leaves a position beyond its live stop-losses.
THEOREM Exposure == Spec => []ExposureHasCause
<1>1. Inv => ExposureHasCause
    BY SentTypes DEF Inv, ExposureHasCause, ExposureInv, Clean, Uncovered, TypeOK
<1> QED BY <1>1, Invariance, PTL

\* What a faultless cycle reports is what the exchange accepted.
THEOREM ReportsMatch == Spec => []ReportMatchesExchange
<1>1. Inv => ReportMatchesExchange
    BY DEF Inv
<1> QED BY <1>1, Invariance, PTL

\* An attempt sends one entry, one emergency close and two of each leg at most.
THEOREM Orders == Spec => []OrdersPerAttempt
<1>1. Inv => OrdersPerAttempt
    BY SentTypes DEF Inv, OrdersPerAttempt, OrdersInv, EntriesBy, LegsBy, ClosesBy, Legs, TypeOK
<1> QED BY <1>1, Invariance, PTL

\* Without a fault every emergency close reaches the loss switches.
THEOREM Books == Spec => []ClosesAreBooked
<1>1. Inv => ClosesAreBooked
    BY DEF Inv, ClosesAreBooked, BooksInv
<1> QED BY <1>1, Invariance, PTL
================================================================================
