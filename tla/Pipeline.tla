-------------------------------- MODULE Pipeline -------------------------------
(* OrchestratorPipeline.run and the Celery tasks that start it: ten steps, each   *)
(* an agent called through the runner with a timeout and retries, for one coin    *)
(* after the other of a cycle, in several worker processes for the same user.     *)
(* What an agent answers is its own module's matter (DecisionChain, Order-        *)
(* Execution, ShadowTrades); here it is any answer that agent can give, and the   *)
(* pipeline decides what follows, what it reports and what it writes down.        *)
EXTENDS Integers, Sequences, FiniteSets, FiniteSetsExt, SequencesExt

CONSTANTS
    Coins,       \* the symbols of a cycle
    Workers,     \* worker processes
    MaxOpen,     \* the user's max_concurrent_positions
    MaxFaults,   \* bound: steps that fail once or more, workers that die
    MaxCycles,   \* bound: cycles started
    MaxManual,   \* bound: runs asked for by the user
    MaxEvents    \* bound: things the user, the market and the monitors do

ASSUME CoinsAssumption  == IsFiniteSet(Coins) /\ IsFiniteSet(Workers)
ASSUME BoundsAssumption == /\ MaxOpen \in Nat \ {0} /\ MaxFaults \in Nat
                           /\ MaxCycles \in Nat /\ MaxManual \in Nat /\ MaxEvents \in Nat

VARIABLES
    mode,      \* LIVE_TRADING_ENABLED, SHADOW_TRADING_ENABLED and ai_review_required
    active,    \* UserSettings.is_trading_active
    halted,    \* who halted the user's trading in Redis: the loss switch, the risk
               \* engine, nobody
    shut,      \* workers whose run began under a halt that has stood since
    open,      \* positions of each coin: rows of shadow_trades, or at the exchange
    run,       \* what each worker is doing
    losses,    \* what the daily loss switch has counted
    faults, cycles, manual, events

vars == <<mode, active, halted, shut, open, run, losses, faults, cycles, manual, events>>

StepNames == <<"market_data", "technical", "strategy", "decision", "ai_review", "risk",
               "final_decision", "portfolio", "position_manager", "execution">>
Retries == [market_data |-> 2, technical |-> 1, strategy |-> 1, decision |-> 0,
            ai_review |-> 1, risk |-> 0, final_decision |-> 0, portfolio |-> 0,
            position_manager |-> 0, execution |-> 3]
Place(name) == CHOOSE i \in DOMAIN StepNames : StepNames[i] = name

Shadow == mode.shadow /\ ~mode.live

\* _shadow_decision_config: only shadow trading can do without the reviewer.
ReviewRequired == mode.review \/ ~Shadow

\* _virtual_balance: with live trading alone there is neither an account_state nor
\* a portfolio_account.
HasAccount == ~mode.live \/ mode.shadow

(********************************* the runs *************************************)

\* step: the step whose agent is running; steps: what is recorded of each; reads:
\* the snapshot the run judges by; trade: what became of its order; cut: an attempt
\* at execution, or the answer to an order, was lost on the way.
NoRun == [coins |-> {}, step |-> "idle", attempt |-> 1, coin |-> "none", kind |-> "none",
          steps |-> <<>>, active |-> TRUE, seen |-> {}, final |-> "HOLD",
          trade |-> "none", cut |-> FALSE, opened |-> 0, status |-> "running", row |-> "none"]

Init ==
    /\ mode \in {m \in [live : BOOLEAN, shadow : BOOLEAN, review : BOOLEAN] :
                    m.review \/ m.shadow}
    /\ active = TRUE /\ halted = "none" /\ shut = {}
    /\ open = [c \in Coins |-> 0]
    /\ run = [w \in Workers |-> NoRun]
    /\ losses = 0 /\ faults = 0 /\ cycles = 0 /\ manual = 0 /\ events = 0

\* run_analysis_cycle: the users are read once, those whose trading is on.
StartCycle(w) ==
    /\ run[w].step = "idle" /\ run[w].coins = {} /\ active
    /\ cycles < MaxCycles /\ cycles' = cycles + 1
    /\ run' = [run EXCEPT ![w] = [NoRun EXCEPT !.coins = Coins, !.kind = "cycle"]]
    /\ UNCHANGED <<mode, active, halted, shut, open, losses, faults, manual, events>>

\* run_signal_for_user: one coin, whatever the user's flag says; the risk engine
\* is told.
StartManual(w) ==
    /\ run[w].step = "idle" /\ run[w].coins = {} /\ manual < MaxManual
    /\ \E c \in Coins :
          run' = [run EXCEPT ![w] = [NoRun EXCEPT !.coins = {c}, !.kind = "manual",
                                                  !.active = active]]
    /\ manual' = manual + 1
    /\ UNCHANGED <<mode, active, halted, shut, open, losses, faults, events, cycles>>

Held == {c \in Coins : open[c] > 0}

\* Variant: the open positions are those of the user's context, which has none.
SeenNowhere(kind) == {}

\* Only the scheduled run of the shadow mode reads the open positions.
Seen(kind) == IF Shadow /\ kind = "cycle" THEN Held ELSE {}

\* The next coin's run begins.
Begin(w) ==
    /\ run[w].step = "idle"
    /\ \E c \in run[w].coins :
          run' = [run EXCEPT ![w] = [NoRun EXCEPT
                     !.coins = run[w].coins \ {c}, !.coin = c, !.kind = run[w].kind,
                     !.step = "market_data", !.active = run[w].active,
                     !.seen = Seen(run[w].kind)]]
    /\ shut' = IF halted # "none" THEN shut \cup {w} ELSE shut \ {w}
    /\ UNCHANGED <<mode, active, halted, open, losses, faults, manual, events, cycles>>

(**************************** recording and reporting ***************************)

Recorded(r, result) == [r EXCEPT !.steps = Append(@, <<r.step, result>>), !.attempt = 1]

\* _append_skipped: the steps up to the given place that are not recorded yet.  Every
\* step is recorded in its turn, so these are the ones after the last one recorded.
Skipped(steps, upto) ==
    steps \o [i \in 1 .. upto - Len(steps) |-> <<StepNames[Len(steps) + i], "skipped">>]

\* The stage that stopped the run, if one did.
OfStage(stage, final) ==
    CASE stage = "ai_review" -> "AI_REJECT"
      [] stage = "risk"      -> "RISK_REJECT"
      [] stage = "portfolio" -> "PORTFOLIO_REJECT"
      [] stage \in {"position_manager", "execution"} -> "EXECUTION_FAILED"
      [] OTHER -> final

OfTrade == [stuck |-> "EXECUTION_FAILED", closed |-> "EXECUTION_EMERGENCY_CLOSED",
            open |-> "EXECUTED"]

\* Variant: the stage is looked at before the order.
StageFirst(r, stage) ==
    OfStage(stage, IF r.trade = "open" THEN "EXECUTED" ELSE r.final)

\* _decision_outcome: the row's decision_outcome, from the order first, then from the
\* stage that stopped the run.
Outcome(r, stage) ==
    IF r.trade \in DOMAIN OfTrade THEN OfTrade[r.trade] ELSE OfStage(stage, r.final)

\* _log_decision, then _finish; the session is committed after it.
Ends(r, status, stage) ==
    [r EXCEPT !.step = "commit", !.status = status, !.row = Outcome(r, stage)]

\* The run ends at its step: the steps after it are skipped.
Stops(r, result, status) ==
    [Ends(Recorded(r, result), status, r.step) EXCEPT
        !.steps = Skipped(@, Len(StepNames))]

Passes(r, result) == [Recorded(r, result) EXCEPT !.step = StepNames[Place(r.step) + 1]]

\* What a run becomes when its step has failed for good.
Fails(r) ==
    CASE r.step \in {"technical", "strategy"} -> Passes(r, "failed")
      [] r.step \in {"market_data", "position_manager", "execution"}
            -> Stops(r, "failed", "FAILED")
      [] r.step = "portfolio" -> Stops(r, "failed", "REJECTED")
      [] OTHER -> Stops(r, "failed", "HOLD")

\* The runner's loop: an exception or a timeout costs an attempt.
Attempts(r) == IF r.attempt <= Retries[r.step] THEN [r EXCEPT !.attempt = @ + 1]
               ELSE Fails(r)

At(w, name)    == run[w].step = name
Goes(w, r)     == run' = [run EXCEPT ![w] = r]
WorldRests     == UNCHANGED <<mode, active, shut, open, losses, manual, events, cycles>>
Answered(w, r) == Goes(w, r) /\ WorldRests /\ UNCHANGED <<halted, faults>>

(*********************************** the steps **********************************)

Gather(w) ==
    /\ \E name \in {"market_data", "technical", "strategy", "portfolio",
                    "position_manager"} : At(w, name)
    /\ Answered(w, Passes(run[w], "success"))

\* A candidate needs the primary timeframe, which the neutral result has not.
Decide(w) ==
    /\ At(w, "decision")
    /\ \/ Answered(w, Stops(run[w], "success", "HOLD"))
       \/ /\ run[w].steps[2][2] = "success"
          /\ IF ReviewRequired THEN Answered(w, Passes(run[w], "success"))
             ELSE Answered(w, [Recorded(run[w], "success") EXCEPT
                                  !.steps = Skipped(@, Place("ai_review")), !.step = "risk"])

Review(w) ==
    /\ At(w, "ai_review")
    /\ \/ Answered(w, Stops(run[w], "success", "HOLD"))
       \/ Answered(w, Passes(run[w], "success"))

\* Variant: the checks without the halt.
PermitsUnderHalt(r) ==
    r.active /\ HasAccount /\ r.coin \notin r.seen /\ Cardinality(r.seen) < MaxOpen

\* validate_candidate's checks of the state the pipeline hands it; without an account
\* it raises, which is a refusal too.
Permits(r) ==
    /\ halted = "none" /\ r.active /\ HasAccount
    /\ r.coin \notin r.seen /\ Cardinality(r.seen) < MaxOpen

\* The candidate is approved, refused, or refused with a halt.
Risk(w) ==
    /\ At(w, "risk")
    /\ \/ Permits(run[w]) /\ Answered(w, Passes(run[w], "success"))
       \/ Answered(w, Stops(run[w], "success", "HOLD"))
       \/ /\ halted = "none" /\ run[w].active /\ HasAccount /\ events < MaxEvents
          /\ halted' \in {"switch", "risk"} /\ events' = events + 1
          /\ Goes(w, Stops(run[w], "success", "HOLD"))
          /\ UNCHANGED <<mode, active, shut, open, losses, faults, manual, cycles>>

FinalDecision(w) ==
    /\ At(w, "final_decision")
    /\ \/ Answered(w, Stops(run[w], "success", "HOLD"))
       \/ Answered(w, [Passes(run[w], "success") EXCEPT !.final = "LONG"])

\* can_add_position refuses.
PortfolioRefuses(w) ==
    /\ At(w, "portfolio")
    /\ Answered(w, Stops(run[w], "success", "REJECTED"))

(********************************** execution ***********************************)

Completed(r, trade) ==
    LET done == [r EXCEPT !.trade = trade]
    IN  IF trade = "stuck" THEN Stops(done, "success", "FAILED")
        ELSE IF trade = "closed" THEN Stops(done, "success", "EMERGENCY_CLOSED")
        ELSE Ends(Recorded(done, "success"), "COMPLETED", "none")

\* Paper trading executes nothing, and neither does an engine that refuses.
Refused(w) ==
    /\ At(w, "execution")
    /\ Answered(w, Completed(run[w], "refused"))

\* The shadow engine inserts its row, which is nobody else's before the commit.
ShadowFills(w) ==
    /\ At(w, "execution") /\ Shadow
    /\ Answered(w, [Completed(run[w], "open") EXCEPT !.opened = 1])

Bought(w) == open' = [open EXCEPT ![run[w].coin] = @ + 1]

\* An order at the exchange, behind the gate: filled and protected; filled, neither
\* protected nor closed; or filled and answered by an exception, which the engine
\* turns into a refusal.
LiveFills(w) ==
    /\ At(w, "execution") /\ mode.live /\ halted # "switch"
    /\ \E trade \in {"open", "stuck", "refused"} :
          /\ trade = "open" \/ faults < MaxFaults
          /\ faults' = IF trade = "open" THEN faults ELSE faults + 1
          /\ Goes(w, [Completed(run[w], trade) EXCEPT
                         !.opened = @ + 1, !.cut = @ \/ trade = "refused"])
    /\ Bought(w)
    /\ UNCHANGED <<mode, active, halted, shut, losses, manual, events, cycles>>

\* _fire_post_trade_hook takes the balance the limit is a share of from an attribute
\* AccountState does not have.
Account == [available |-> 20, total |-> 20, initial |-> 20]
HookBalance == IF "balance" \in DOMAIN Account THEN Account["balance"] ELSE 0
Limit(balance) == balance \div 20

\* The emergency close succeeds, and the loss is booked: the switch halts once the
\* limit it was given is reached, and 0 is none.
EmergencyCloses(w) ==
    /\ At(w, "execution") /\ mode.live /\ halted # "switch" /\ faults < MaxFaults
    /\ losses' = losses + 1
    /\ LET halts == Limit(HookBalance) \in 1 .. losses'
       IN  /\ halted' = IF halts THEN "switch" ELSE halted
           /\ active' = (active /\ ~halts)
    /\ Goes(w, Completed(run[w], "closed"))
    /\ faults' = faults + 1
    /\ UNCHANGED <<mode, shut, open, manual, events, cycles>>

(******************************* failures and ends ******************************)

\* An attempt fails.  One at execution may have ordered already at the exchange;
\* what it had inserted goes with its session.
AttemptFails(w) ==
    /\ run[w].step \in Range(StepNames)
    /\ IF run[w].attempt = 1 THEN faults < MaxFaults /\ faults' = faults + 1
       ELSE UNCHANGED faults
    /\ \/ Goes(w, Attempts(run[w])) /\ UNCHANGED open
       \/ /\ At(w, "execution") /\ mode.live /\ halted # "switch"
          /\ Goes(w, Attempts([run[w] EXCEPT !.cut = TRUE, !.opened = @ + 1]))
          /\ Bought(w)
    /\ UNCHANGED <<mode, active, halted, shut, losses, manual, events, cycles>>

\* The task commits, in shadow mode with the trade; or the commit fails, which only
\* a log line tells.  Afterwards the worker turns to the next coin.
Finish(w) ==
    /\ At(w, "commit")
    /\ \/ /\ IF Shadow /\ run[w].opened = 1 THEN Bought(w) ELSE UNCHANGED open
          /\ UNCHANGED faults
       \/ Shadow /\ faults < MaxFaults /\ faults' = faults + 1 /\ UNCHANGED open
    /\ Goes(w, [NoRun EXCEPT !.coins = run[w].coins, !.kind = run[w].kind,
                             !.active = run[w].active])
    /\ UNCHANGED <<mode, active, halted, shut, losses, manual, events, cycles>>

\* The worker is killed; what Celery delivers again is as if asked for again.
Killed(w) ==
    /\ run[w].kind # "none" /\ faults < MaxFaults
    /\ faults' = faults + 1
    /\ Goes(w, NoRun)
    /\ UNCHANGED <<mode, active, halted, shut, open, losses, manual, events, cycles>>

\* The user's flag and the halts change, positions are closed.
Outside ==
    /\ events < MaxEvents /\ events' = events + 1
    /\ \/ active' = ~active /\ UNCHANGED <<halted, shut, open>>
       \/ halted # "none" /\ halted' = "none" /\ shut' = {} /\ UNCHANGED <<active, open>>
       \/ \E c \in Held : /\ open' = [open EXCEPT ![c] = @ - 1]
                          /\ UNCHANGED <<active, halted, shut>>
    /\ UNCHANGED <<mode, run, losses, faults, manual, cycles>>

Step(w) ==
    \/ StartCycle(w) \/ StartManual(w) \/ Begin(w)
    \/ Gather(w) \/ Decide(w) \/ Review(w) \/ Risk(w) \/ FinalDecision(w)
    \/ PortfolioRefuses(w) \/ Refused(w) \/ ShadowFills(w) \/ LiveFills(w)
    \/ EmergencyCloses(w) \/ AttemptFails(w) \/ Finish(w) \/ Killed(w)

Next == Outside \/ \E w \in Workers : Step(w)
Spec == Init /\ [][Next]_vars

(********************************** properties **********************************)

Answer   == {"success", "failed", "skipped"}
Steps    == Seq(Range(StepNames) \X Answer)
Trades   == {"none", "refused", "open", "closed", "stuck"}
Statuses == {"running", "HOLD", "REJECTED", "FAILED", "COMPLETED", "EMERGENCY_CLOSED"}
Rows     == {"none", "HOLD", "LONG", "AI_REJECT", "RISK_REJECT", "PORTFOLIO_REJECT",
             "EXECUTION_FAILED", "EXECUTION_EMERGENCY_CLOSED", "EXECUTED"}
Run == [coins : SUBSET Coins, step : Range(StepNames) \cup {"idle", "commit"},
        attempt : 1 .. 4, coin : Coins \cup {"none"}, kind : {"none", "cycle", "manual"},
        steps : Steps, active : BOOLEAN, seen : SUBSET Coins, final : {"HOLD", "LONG"},
        trade : Trades, cut : BOOLEAN, opened : Nat, status : Statuses, row : Rows]

TypeOK ==
    /\ mode \in [live : BOOLEAN, shadow : BOOLEAN, review : BOOLEAN]
    /\ active \in BOOLEAN /\ halted \in {"none", "switch", "risk"}
    /\ shut \subseteq Workers /\ open \in [Coins -> Nat]
    /\ run \in [Workers -> Run] /\ losses \in Nat
    /\ faults \in 0 .. MaxFaults /\ cycles \in 0 .. MaxCycles
    /\ manual \in 0 .. MaxManual /\ events \in 0 .. MaxEvents

\* What the decision log says of the order is what became of it, whichever step
\* ended the run, unless an answer was lost on its way.
RowTellsTheTrade ==
    \A w \in Workers : run[w].step = "commit" =>
        LET r == run[w]
        IN  /\ (r.row = "EXECUTED") <=> (r.trade = "open")
            /\ (r.row = "EXECUTION_EMERGENCY_CLOSED") <=> (r.trade = "closed")
            /\ r.row \in {"EXECUTED", "EXECUTION_EMERGENCY_CLOSED"} =>
                  \A i \in DOMAIN r.steps : r.steps[i][2] = "success" \/ i \in {3, 5}
            /\ r.opened > 0 /\ ~r.cut => r.row \in {"EXECUTED", "EXECUTION_FAILED"}

\* No run that began under a halt of the user's trading gets as far as an order
\* while the halt stands, whatever the user's flag said when the task read it.
HaltStopsTheQueue == \A w \in shut : run[w].opened = 0 /\ run[w].trade # "closed"

\* The limit of open positions binds what a run has read when it began: every worker
\* may have begun before the others' positions could be seen, for each position the
\* limit allows, and every manual run may add one more.
PositionsBounded ==
    Shadow => SumFunctionOnSet(open, Coins) <= MaxOpen * Cardinality(Workers) + manual

\* kill_switch.py:7: losses that reach the daily limit stop trading; an emergency
\* close is deducted from the loss counters (docs/RISK_ENGINE.md:82), so the one that
\* reaches the limit halts.
LossesReachTheSwitch ==
    [][losses' > losses /\ losses' >= Limit(Account.total) => halted' = "switch"]_vars
================================================================================
