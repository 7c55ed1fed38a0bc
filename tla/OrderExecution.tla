----------------------------- MODULE OrderExecution ----------------------------
(* The live order path of one user and one symbol: steps 9 and 10 of the         *)
(* orchestrator's pipeline (an attempt under a timeout, retried by AgentRunner), *)
(* the execution engine inside it (gate, entry, take-profit, stop-loss, one      *)
(* retry, emergency close, post-trade hook) and the exchange behind the gateway, *)
(* whose resting orders fill whenever the price moves.  Every order counts one   *)
(* unit, the approved quantity.                                                  *)
(*                                                                               *)
(* A call of place_order is two steps, what the exchange does and what the       *)
(* engine hears of it, so that an answer can be lost and an attempt cancelled in *)
(* between.                                                                      *)
EXTENDS Integers

CONSTANTS
    Attempts,   \* attempts the runner gives the execution step (retries + 1)
    Cycles,     \* bound: analysis cycles for the symbol
    Faults      \* the faults an instance exercises

AllFaults == {"lost", "cancelled", "killed", "hook"}

ASSUME AttemptsAssumption == Attempts \in Nat \ {0}
ASSUME CyclesAssumption   == Cycles \in Nat
ASSUME FaultsAssumption   == Faults \subseteq AllFaults

VARIABLES
    live,      \* LIVE_TRADING_ENABLED, as the engine was built
    pc,        \* where the worker is
    attempt,   \* the runner's attempt
    retried,   \* the engine is in its second round of TP/SL
    wire,      \* what became of the order under way, not yet heard of
    report,    \* the ExecutionResult of the current or last cycle
    position,  \* exchange: open quantity
    resting,   \* exchange: live take-profit and stop-loss orders
    cycles,    \* cycles left
    sent,      \* history: orders of each kind accepted in this cycle
    unbooked,  \* history: emergency closes the hook has not been told of
    alarm,     \* history: some cycle reported emergency_close_failed
    faults,    \* history: the faults met since the beginning
    cycleFaults \* history: those of this cycle

engine   == <<pc, attempt, retried, wire, report>>
exchange == <<position, resting, sent>>
history  == <<unbooked, alarm, faults, cycleFaults>>
vars == <<live, engine, exchange, cycles, history>>

Purposes == {"entry", "take_profit", "stop_loss", "emergency_close"}
Legs     == {"take_profit", "stop_loss"}
Reports  == {"none", "rejected", "paper", "filled", "emergencyClosed",
             "closeFailed", "stepFailed"}

TypeOK ==
    /\ live \in BOOLEAN
    /\ pc \in Purposes \cup {"idle", "start", "gate", "hook"}
    /\ attempt \in 1 .. Attempts
    /\ retried \in BOOLEAN
    /\ wire \in {"none", "accepted", "refused"}
    /\ report \in Reports
    /\ position \in Nat
    /\ resting \in [Legs -> Nat]
    /\ cycles \in 0 .. Cycles
    /\ sent \in [Purposes -> Nat]
    /\ unbooked \in Nat
    /\ alarm \in BOOLEAN
    /\ faults \subseteq AllFaults /\ cycleFaults \subseteq faults

Init ==
    /\ live \in BOOLEAN
    /\ pc = "idle" /\ attempt = 1 /\ retried = FALSE /\ wire = "none"
    /\ report = "none"
    /\ position = 0 /\ resting = [leg \in Legs |-> 0]
    /\ cycles = Cycles
    /\ sent = [p \in Purposes |-> 0]
    /\ unbooked = 0 /\ alarm = FALSE /\ faults = {} /\ cycleFaults = {}

(******************************* the engine's steps *****************************)

NoFault == UNCHANGED <<faults, cycleFaults>>
Meets(fault) ==
    /\ fault \in Faults
    /\ faults'      = faults \cup {fault}
    /\ cycleFaults' = cycleFaults \cup {fault}

\* The engine goes on to another call, in its first or second round of TP/SL.
Goes(place, again) ==
    /\ pc' = place /\ retried' = again /\ wire' = "none"
    /\ UNCHANGED <<attempt, report, unbooked, alarm>>

\* Variant: the hook is left out after an emergency close.
ReturnsWithoutHook(r) ==
    /\ report' = r
    /\ pc'     = "idle"
    /\ alarm'  = (alarm \/ r = "closeFailed")
    /\ wire'   = "none"
    /\ UNCHANGED <<attempt, retried, unbooked>>

\* The engine returns its result, or the runner gives up, and the pipeline ends
\* the cycle; an emergency close goes through the post-trade hook first.
Returns(r) ==
    /\ report' = r
    /\ pc'     = IF r = "emergencyClosed" THEN "hook" ELSE "idle"
    /\ alarm'  = (alarm \/ r = "closeFailed")
    /\ wire'   = "none"
    /\ UNCHANGED <<attempt, retried, unbooked>>

\* A cycle reaches the execution step with an approved validation and a LONG or
\* SHORT.  It knows nothing of earlier cycles: live users come without positions.
BeginCycle ==
    /\ pc = "idle" /\ cycles > 0
    /\ cycles' = cycles - 1
    /\ pc' = "start" /\ attempt' = 1 /\ retried' = FALSE /\ wire' = "none"
    /\ report' = "none"
    /\ sent' = [p \in Purposes |-> 0]
    /\ cycleFaults' = {}
    /\ UNCHANGED <<live, position, resting, unbooked, alarm, faults>>

\* The checks before the gate: refused (fast_exit_v2, no approval, local safety),
\* approved on paper, or on to the gate.
Validate ==
    /\ pc = "start"
    /\ \/ Returns("rejected")
       \/ ~live /\ Returns("paper")
       \/ live /\ Goes("gate", FALSE)
    /\ NoFault /\ UNCHANGED <<live, exchange, cycles>>

\* check_order_allowed answers (SafetyLayer says when it allows); a refusal and an
\* exception alike end the execution.
CheckGate ==
    /\ pc = "gate"
    /\ \/ Returns("rejected")
       \/ Goes("entry", FALSE)
    /\ NoFault /\ UNCHANGED <<live, exchange, cycles>>

\* Variants: a second failure of a leg passes for success; the second round
\* sends both legs again; a failed entry is sent again.
AnsweredGivesUp(ok) ==
    \/ pc = "entry" /\ ok  /\ Goes("take_profit", FALSE)
    \/ pc = "entry" /\ ~ok /\ Returns("rejected")
    \/ pc = "take_profit" /\ ok /\ Goes("stop_loss", retried)
    \/ pc \in Legs /\ ~ok /\ ~retried /\ Goes(pc, TRUE)
    \/ pc = "stop_loss" /\ ok /\ Returns("filled")
    \/ pc \in Legs /\ ~ok /\ retried /\ Returns("filled")
AnsweredRepeats(ok) ==
    \/ pc = "entry" /\ ok  /\ Goes("take_profit", FALSE)
    \/ pc = "entry" /\ ~ok /\ Returns("rejected")
    \/ pc = "take_profit" /\ ok /\ Goes("stop_loss", retried)
    \/ pc = "stop_loss"   /\ ok /\ Returns("filled")
    \/ pc \in Legs /\ ~ok /\ ~retried /\ Goes("take_profit", TRUE)
    \/ pc \in Legs /\ ~ok /\ retried  /\ Goes("emergency_close", TRUE)
    \/ pc = "emergency_close" /\ ok   /\ Returns("emergencyClosed")
    \/ pc = "emergency_close" /\ ~ok  /\ Returns("closeFailed")
AnsweredAgain(ok) ==
    \/ pc = "entry" /\ ok  /\ Goes("take_profit", FALSE)
    \/ pc = "entry" /\ ~ok /\ Goes("entry", FALSE)
    \/ pc \in Legs /\ ok  /\ Returns("filled")

\* What the engine does once place_order returned (`ok`) or raised: the entry is
\* tried once, a missing leg once more, then the position is closed at market.
Answered(ok) ==
    \/ pc = "entry" /\ ok  /\ Goes("take_profit", FALSE)
    \/ pc = "entry" /\ ~ok /\ Returns("rejected")
    \/ pc = "take_profit" /\ ok /\ Goes("stop_loss", retried)
    \/ pc = "stop_loss"   /\ ok /\ Returns("filled")
    \/ pc \in Legs /\ ~ok /\ ~retried /\ Goes(pc, TRUE)
    \/ pc \in Legs /\ ~ok /\ retried  /\ Goes("emergency_close", TRUE)
    \/ pc = "emergency_close" /\ ok   /\ Returns("emergencyClosed")
    \/ pc = "emergency_close" /\ ~ok  /\ Returns("closeFailed")

Hears ==
    /\ wire # "none"
    /\ Answered(wire = "accepted")
    /\ NoFault /\ UNCHANGED <<live, exchange, cycles>>

\* _fire_post_trade_hook: the close goes into the loss switches.
Hook ==
    /\ pc = "hook"
    /\ pc' = "idle"
    /\ unbooked' = unbooked - 1
    /\ UNCHANGED <<live, attempt, retried, wire, report, exchange, cycles,
                   alarm, faults, cycleFaults>>

(********************************* the exchange *********************************)

\* The order under way is accepted: an entry opens, an emergency close reduces
\* what is open, the two legs rest.
Accept ==
    /\ pc \in Purposes /\ wire = "none"
    /\ wire' = "accepted"
    /\ position' = IF pc = "entry" THEN position + 1
                   ELSE IF pc = "emergency_close" /\ position > 0 THEN position - 1
                   ELSE position
    /\ resting' = [leg \in Legs |-> resting[leg] + (IF leg = pc THEN 1 ELSE 0)]
    /\ sent' = [sent EXCEPT ![pc] = @ + 1]
    /\ unbooked' = unbooked + (IF pc = "emergency_close" THEN 1 ELSE 0)
    /\ UNCHANGED <<live, pc, attempt, retried, report, cycles, alarm,
                   faults, cycleFaults>>

\* It is refused, or does not reach the exchange, or the gateway raises first.
Refuse ==
    /\ pc \in Purposes /\ wire = "none"
    /\ wire' = "refused"
    /\ UNCHANGED <<live, pc, attempt, retried, report, exchange, cycles,
                   history>>

\* The price reaches a resting order: it reduces what is open, if anything is.
Triggers(leg) ==
    /\ resting[leg] > 0
    /\ resting'  = [resting EXCEPT ![leg] = @ - 1]
    /\ position' = IF position > 0 THEN position - 1 ELSE position
    /\ UNCHANGED <<live, engine, cycles, sent, history>>

(*********************************** failures ***********************************)

\* The exchange took the order but its answer is lost: to the engine an exception
\* like any other.
LoseAnswer ==
    /\ wire = "accepted"
    /\ Answered(FALSE)
    /\ Meets("lost") /\ UNCHANGED <<live, exchange, cycles>>

\* Variant: an attempt that was cut off does not count.
TimeoutUncounted ==
    /\ pc \in Purposes \cup {"gate"}
    /\ pc' = "start" /\ retried' = FALSE /\ wire' = "none"
    /\ UNCHANGED <<attempt, report, unbooked, alarm>>
    /\ Meets("cancelled") /\ UNCHANGED <<live, exchange, cycles>>

\* The runner's timeout cancels the attempt at whatever it is waiting for, and
\* starts a fresh one or gives up; execute() catches no cancellation.
Timeout ==
    /\ pc \in Purposes \cup {"gate"}
    /\ IF attempt < Attempts
       THEN /\ attempt' = attempt + 1
            /\ pc' = "start" /\ retried' = FALSE /\ wire' = "none"
            /\ UNCHANGED <<report, unbooked, alarm>>
       ELSE Returns("stepFailed")
    /\ Meets("cancelled") /\ UNCHANGED <<live, exchange, cycles>>

\* The worker is killed; the task comes back from the queue as a new cycle.
Killed ==
    /\ pc # "idle"
    /\ pc' = "idle" /\ retried' = FALSE /\ wire' = "none"
    /\ Meets("killed")
    /\ UNCHANGED <<live, attempt, report, exchange, cycles, unbooked, alarm>>

\* The hook raises: logged, and the cycle ends all the same.
HookFails ==
    /\ pc = "hook"
    /\ pc' = "idle"
    /\ Meets("hook")
    /\ UNCHANGED <<live, attempt, retried, wire, report, exchange, cycles,
                   unbooked, alarm>>

Next ==
    \/ BeginCycle \/ Validate \/ CheckGate \/ Hears \/ Hook
    \/ Accept \/ Refuse
    \/ \E leg \in Legs : Triggers(leg)
    \/ LoseAnswer \/ Timeout \/ Killed \/ HookFails

Spec == Init /\ [][Next]_vars

\* The worker goes on while it has something to do of its own, the stores behind
\* the hook answer, and the runner's clock runs whether or not the exchange does.
FairSpec ==
    /\ Spec
    /\ WF_vars(Validate) /\ WF_vars(Timeout)
    /\ WF_vars(Hook \/ HookFails)

(********************************* properties ***********************************)

\* Between cycles, a position beyond what live stop-losses cover has been reported
\* as emergency_close_failed, or an answer was lost, an attempt cancelled or a
\* worker killed: refusals of any orders, in any combination with fills of the
\* resting ones and over several cycles, do not produce one (engine.py STEP 3a).
ExposureHasCause ==
    pc = "idle" /\ position > resting["stop_loss"] =>
        alarm \/ faults \cap {"lost", "cancelled", "killed"} # {}

\* A cycle without such a fault reports what the exchange has accepted: nothing,
\* an entry with its two legs, or an entry closed again before any stop-loss.
ReportMatchesExchange ==
    pc \in {"idle", "hook"} /\ cycleFaults \subseteq {"hook"} =>
        /\ report = "filled" =>
             /\ \A p \in Legs \cup {"entry"} : sent[p] = 1
             /\ sent["emergency_close"] = 0
        /\ report \in {"emergencyClosed", "closeFailed"} =>
             /\ sent["entry"] = 1 /\ sent["stop_loss"] = 0
             /\ sent["emergency_close"] = IF report = "closeFailed" THEN 0 ELSE 1
        /\ report \notin {"filled", "emergencyClosed", "closeFailed"} =>
             \A p \in Purposes : sent[p] = 0

\* Whatever fails, an attempt sends its entry and its emergency close once and each
\* leg twice at most: the only way to a second entry is the runner's retry.
OrdersPerAttempt ==
    /\ sent["entry"] <= attempt /\ sent["emergency_close"] <= attempt
    /\ \A leg \in Legs : sent[leg] <= 2 * attempt

\* Between cycles, an emergency close the loss switches were not told of goes back
\* to a fault (pipeline.py _fire_post_trade_hook; RISK_ENGINE.md:83).
ClosesAreBooked == pc = "idle" /\ unbooked > 0 => faults # {}

\* A cycle ends, even when the exchange never answers: each attempt is cut off and
\* the runner runs out of attempts.
EveryCycleEnds == pc # "idle" ~> pc = "idle"

\* RISK_ENGINE.md:86 says that no position is left open without a stop-loss; a
\* close that failed is at least reported for manual intervention.
StopLossOnEveryPosition ==
    pc = "idle" /\ position > resting["stop_loss"] => alarm
================================================================================
