# TLA+ verification of the trading system

This directory holds a TLA+ model of the trading system: the safety layer in front of live orders, the
path from a market reading through decision, risk checks and sizing to an order, the orders themselves,
the simulated trading that runs in their place until live trading is switched on, the accounts beside
it, and the data and the computations around it. It says what is modelled, what TLC checks on small
instances, what TLAPS proves for all values of the constants, and what is left.

## 1. The system

A Celery beat timer (every 15 minutes) and a candle stream consumer enqueue
`run_analysis_cycle(symbols)`. Worker processes run, for every user with automatic trading on and
every symbol, the orchestrator's ten-step pipeline: market data, technical analysis, strategy,
decision, AI review, risk validation, final decision, portfolio, position manager, execution.
Depending on settings the last step places orders at Binance (live), records simulated trades in
PostgreSQL (shadow) or does nothing (paper). An API process serves the frontend: risk status, kill
switch, resume, manual orders, sizing. The processes share Redis and PostgreSQL and no lock.

| Component | State it keeps | Operations | Interacts with | What makes it correct |
|---|---|---|---|---|
| Safety layer (`backend/app/safety`) | Redis `safety:ks:daily`, `safety:ks:weekly`, `safety:drawdown` per user, `safety:disconnect`, `safety:emergency`; writes the shared `risk:halt`, `risk:kill_switch:global` | `check_order_allowed`, `on_trade_closed`, `on_api_failure/success`, emergency on/off, resume, resets | execution engine, pipeline's hook, risk engine (shared keys), API | once the losses reach a limit no order passes until the boundary; nothing but time or an administrator lifts the halt; the database flag follows |
| Risk engine (`agents/risk`) | Redis `risk:halt`, `risk:kill_switch:*`, `risk:cooldown` | `validate`, `validate_candidate`, halts, sizing, Kelly | pipeline, safety layer, API | a halted user is refused first; what is approved loses no more at its stop than the limits say |
| Decision (`agents/decision`, `strategy`, `synthesis`) | none | regime, scores, selection, candidate, review, final decision | pipeline | the trade fits the regime; every verdict is heard |
| Orchestrator (`agents/orchestrator`), analysis worker | a run's context, Celery's queue | `run`, `AgentRunner.run` (timeouts, retries), hook, decision log | everything | no step runs after a refusal; the log says what became of the order; a halt stops what is queued |
| Order execution (`agents/execution`, gateway, REST client) | orders and positions at the exchange | gate, entry, TP, SL, retry, emergency close | safety layer, exchange, pipeline | no position without a stop-loss unless somebody is told; the report says what was done |
| Shadow trading (`agents/shadow`, repository, monitor worker) | `shadow_trades`, `shadow_decisions` rows | execute, save, monitor and close, results, report | analysis worker, price cache | a signal opens one trade, a trade closes once, open risk within its budget, figures right |
| Position manager, portfolio | position objects | open, add, move levels, partial/full close, tick, limits | pipeline | cost basis, risk and portfolio limit survive any order of operations |
| Paper trading | balance, positions, history in memory | submit, tick, close, halt, resume | | the books balance; limits hold when a position grows |
| Exchange accounts, manual orders | `exchange_accounts`; orders at the exchange | connect, order, close, delete | API, exchange | every unit held has a stop or a known reason for having none |
| Market data, candle consumer | `ohlcv`, Redis streams, price cache | collect, backfill, publish; read, enqueue, acknowledge | exchange, Celery | holes only for a reason; no message analysed twice |
| Indicators | none | RSI, MACD, averages, bands, levels, signals, score and direction | decision | a market and its mirror image have the same figures and are never called the same direction |
| Backtest, walk-forward | a run's cash and trades | replay a bar; fit and try a window | | results add up; no look-ahead |
| Trading, user, risk services | `UserSettings` | resume, enable, disable, settings | API, safety layer | flag and switches agree |
| Authentication, journal, reflection, coaching, alerts, monitoring, analyst agents, frontend, infrastructure | tokens, reports, metrics, views | | | not part of a trading decision |

The hard behaviour, in order of what it costs when wrong:

1. **Three Redis keys with expiries, written in step by two components** (loss switches and risk
   engine), without transactions, by several processes.
2. **Orders whose answers are lost, attempts that a timeout cuts off between two orders, workers
   killed between two orders**, while resting orders at the exchange fill at any moment.
3. **Two stores**: halts are in Redis, the activity flag in PostgreSQL, and tasks wait in a queue.
4. **Read-judge-insert in the shadow engine**, the session committed after success was reported, and
   a monitor that closes trades concurrently.
5. **Sizing in three places** (pipeline, sizing API, signal validation), each a chain of caps and
   roundings in which the last one may undo the first, and **positions that change afterwards**.
6. **Reconnection, restart and at-least-once delivery** in the data that all of it rests on.

`PROJECT.json` lists every hazard found in the code at its line, with the properties that cover it
or the reason why none does.

## 2. The modules

| Module | Models | Abstraction |
|---|---|---|
| `HaltStore` | the keys of one user, what one call computes on them (`state.py`, `kill_switch.py`) | money is a small number; time is "ticks left", `Second` ticks to a second so that the truncation of expiries is visible |
| `SafetyLayer` | every handler of gate, switches, adapter, risk halts, operator and resume as one atomic step, with time | the outage guard, the drawdown guard, the emergency and the kill switches are stops in a set `raised` |
| `LossLatch` | what one loss switch promises: adds up losses, shuts at the limit, opens at the end of its period | no keys, no expiries, no other component |
| `ShadowLedger` | what simulated trading promises of its book: runs entered whole with their answer, trades closed once, a ceiling | no transactions, retries, locks or workers |
| `SafetyRace` | the same handlers, one Redis or database command per step, by several workers that may be killed | untimed stops left out, they share no key with the switches |
| `OrderExecution` | runner attempts, execution engine, exchange, post-trade hook | one user and symbol, every order one unit; the checks before the gate are one decision |
| `Pipeline` | tasks, the ten steps, what is recorded and logged, the hook | each agent's answer is any answer it can give |
| `MarketScores`, `DecisionChain` | technical score, regime, strategies, evidence; selection, candidate, review, risk checks, final decision | readings are records of small numbers, points hundredths, money cents |
| `Sizing`, `SignalCheck` | the sizing API with Kelly; `POST /risk/validate` and its kill switch | money in units that make every division of the code exact or a rounding the code makes |
| `PositionBook` | position manager and portfolio limits | prices in cents, quantities in lots, break-even exact |
| `PaperAccount`, `ExchangeAccounts` | the paper trader; manual orders on an exchange account | cents are not rounded; one unit per manual order |
| `ShadowTrades`, `ShadowPnl`, `ShadowReport` | shadow execution with its transactions and monitors; what a closed trade earned; the report on the log | in `ShadowTrades` a trade is its worst loss and its outcome |
| `CandleFeed`, `CandleStream` | collector and backfill; consumer group | one symbol and interval; a message is its place |
| `Indicators` | the analysis of one timeframe, its score and direction | averages are multiples of 1/`Scale`, exact in the run; points are hundredths |
| `Backtest`, `WalkForward` | both backtesting engines | the strategy's signals are any; which parameters score best is any choice |
| `SafetyLayerProofs`, `SafetyRaceProofs`, `OrderExecutionProofs`, `PipelineProofs`, `DecisionProofs`, `ShadowProofs`, `AccountsProofs` | theorems and their proofs | |
| `SumTheorems` | what is true of every sum over a finite set; the other proofs cite it | |
| `MC...` | constants, symmetries and compositions that a `.cfg` cannot write | |

How they compose. `SafetyLayer` and `SafetyRace` both extend `HaltStore`, so that the same
operators say what a handler computes when it runs alone and what each of its commands computes when
it does not. `MCSafetyLayer` instantiates `LossLatch` once for each switch under a refinement mapping, `ShadowTrades`
instantiates `ShadowLedger`.
`DecisionChain` extends `MarketScores`. `Pipeline` calls the agents: what `DecisionChain`,
`OrderExecution` and `ShadowTrades` can answer are the choices of its steps, with the gate of
`SafetyLayer` as `Permits`. `MCDecisionChain`, `MCAccounts` and `MCSurroundings` put components that
share no state into one graph, one running while the others rest: what the check of each needs and no
product of them.

### Safety: `HaltStore`, `SafetyLayer`, `SafetyRace`

`own[ks]` is the JSON under `safety:ks:daily` or `safety:ks:weekly` (`halted`, `until`, `loss`, and
the `limit` that the last trade's balance gave) with its expiry `ttl`; `shared` is `risk:halt`.
`View` is `get_daily_kill_switch` with its fallback to the shared key, `SyncShared` is
`_sync_shared_halt`, `Recorded`/`RecordLoss` and `CheckSwitch` are the switches' `record_loss` and
`check`. `TradeClosed` is the whole chain adapter, gate, both switches, drawdown guard, database
flag; `CheckOrder` the gate's check with its automatic resets, in its order and with its early
returns; `Resume` the service, refused while a switch is halted. `RiskHalts`, `RiskCoolsDown`,
`OperatorStop` and `OperatorResume` write what the risk engine's manager writes. The losses that the
risk engine judges come with the cycle's context and not from the switches, hence it may halt at any
time. `counted` is a history variable: what was recorded since the switch last opened or was emptied.

In `SafetyRace`, `work[w]` is where worker `w` stands (`at`, named for the next command), which switch
it deals with and what it is about to write. `GetOwn`, `GetShared`, `SetOwn`, `SetShared`,
`PeekShared`, `PeekOther`, `DelShared` and `Flag` are the commands between two awaits; what lies
between two commands is local to the worker and runs with the command before it. `Tick` may fall
between any two commands, and shortens the end that a worker is about to write, since that end is an
instant. `Crash` drops what a worker was doing.

### Runs and orders: `Pipeline`, `OrderExecution`

`run[w]` is what worker `w` is doing: the symbols left, the step whose agent is running, its attempt,
what is recorded of the steps before, the snapshot it judges by (`active`, `seen`), what became of its
order, and the row it will write. `Answered`, `Stops`, `Passes`, `Fails` are `_run_step` and `_finish`;
`Ends` writes status and row the way `_log_decision` and `_decision_outcome` name them. `Begin` is the
task's start, where the user's flag and, for scheduled shadow runs only, the open positions are read.
`AttemptFails` is the runner's timeout or an exception at any step; `Killed` the worker's end, after
which Celery delivers the task again. `Permits` is what a halt in Redis does to the risk step.
Exceptions outside the runner's steps are not modelled.

In `OrderExecution`, `pc` is where the worker is; a call of `place_order` is `Accept` or `Refuse` (the
exchange) and then `Hears` or `LoseAnswer` (the engine), and `Answered` is what the engine does next.
`Timeout` is `asyncio.wait_for` in `AgentRunner.run`, which cancels `execute()` at the call it is
waiting for; `execute()` catches `Exception` and so no cancellation. `Triggers` is the exchange filling
a resting order. `report` is the execution result as the pipeline reads it. `sent`, `unbooked`,
`alarm`, `faults` and `cycleFaults` are history.

### Decision and sizing: `MarketScores`, `DecisionChain`, `Sizing`, `SignalCheck`

`Score` computes regime, strategy signals and the evidence for both directions; `Decide` selects a
strategy by `REGIME_ALLOWED_STRATEGIES` and builds the candidate (levels, leverage, liquidation price,
costs); `Review` is any answer of the external model, a failure, or the playbook guard's own refusal;
`Validate` runs the risk engine's checks in their order, with the halts they write; `Assemble` is
`decide_final_action`. Python's `value or default` treats an RSI, a %B or a fear-and-greed reading of
exactly 0 as missing, and so does the model.

`Sizing` is one request against a balance and a record: the method asked for, or all four compared.
`SignalCheck` is `RiskEngine.validate` behind `POST /risk/validate` with the kill-switch endpoints. The
tables of positions and trade logs that it reads have no writer in the repository; their rows are
inputs. It has no liquidation check, and an addition or a reversal still counts the position it
replaces.

### Positions and accounts: `PositionBook`, `PaperAccount`, `ExchangeAccounts`

`book[i]` is a `PositionState`. In the repository only `open` is called (by the pipeline); the other
operations are public and the model lets a caller make them in any order. `CheckDca` and `Dca` are two
actions, as `check_dca` and `dca` are two calls: `Dca` adds any quantity, asked about or not, and to a
closed position as well, which `apply_dca` does not refuse. `ledger` (what was paid and received),
`agreed` (the last answer of `check_dca`) and `late` (what was added to after its close) are kept by the
model and not by the code. A partial close rounds its quantity down while the margin shrinks by the exact
ratio (`lifecycle.py:121`); the margin is not modelled, nothing but a percentage that is shown depends
on it.

`PaperAccount` has one action per public operation of the engine; `Submit` is the whole of
`submit_signal`: checks, the close of an opposite position and the second check, addition, opening.
`ExchangeAccounts` serves several requests at once, each with the account it read at its start; every
call to Binance is a step with three outcomes (done, refused, done with the answer lost). `causes`
counts units that something left without a stop.

### Shadow trading: `ShadowTrades`, `ShadowPnl`, `ShadowReport`

`rows` is what is committed of `shadow_trades`, one row for each signal and strategy version (the
table's unique constraint), plus perhaps one row from before the risk columns, whose missing
`actual_max_loss_usdt` is risk 0. `run[s]` is the run behind signal `s`; `at` names its next command:
`judge` (`_baseline_risk`), `save` (insert of the baseline), `plan` and `variant`
(`_save_fast_variant`: the second reading of the open risk, the second insert), `log`, `commit`.
`mine` is what its transaction has written, `tx` what has become of the transaction: `aborted` after a
failed statement, when PostgreSQL turns a commit into a rollback without an error, `invalid` after a
cancellation or a failed flush, when the next statement and the commit raise. `kind` separates
`_run_cycle_async`, which logs the decision in the trade's session and swallows a failed commit, from
`_run_single_async`, which has a session for each and passes the failure on. `Timeout` is the runner's,
which calls `execute()` again with the session of the attempt it cancelled.

`mon[m]` is one `run_shadow_monitor` task. `Visit` is the UPDATEs of one row, all of them
`WHERE status = 'OPEN'`; the first locks the row, and a monitor that finds it locked waits (`Queue`),
behind whoever came first. Two monitors may visit rows in different orders, hence `Deadlocked`. `due`
holds the experiment's rows that have passed `max_hold_seconds`. Left out: excursions and the
`data_error` flag, which nothing reads back; the loss state read before the experiment's copy is judged,
one of the reasons for which `PlanFast` may reject it freely.

`ShadowLedger` is what all that should come to. Its `book` is `rows`, its `late` is `due`, and `told[s]` is
`Answer(run[s])`: pending until the run is over, then what it reported, where "executed" counts as said only
if nothing failed after the trade was saved; otherwise the answer is in doubt, and the ledger allows a trade
or none. `Enter` is a whole run in one step: nothing, a trade, or a trade and its copy, in agreement with
the answer and below the ceiling. `Close` is a monitor's commit and `Age` the passing of `max_hold_seconds`.
Every other step of `ShadowTrades` is none of the ledger's: nothing of a run shows before its end, and
nothing of a monitor before its commit.

`ShadowPnl` is `calculate_shadow_pnl` for a trade opened and closed at any of a set of half hours.
`ShadowReport` reads a log of rows of every form and computes what `analyze_decision_logs` does.

### Surroundings: `CandleFeed`, `CandleStream`, `Indicators`, `Backtest`, `WalkForward`

`CandleFeed`: `ohlcv` is the table, `heard` the last candle of this process, `closing` the closing
message the exchange still owes; `Drop`, `Crash`, `Connect` and `Backfill` are the life of the
connection, and `cut`, `spoilt`, `beyond` say what was lost to what. `CandleStream`: `at` is the next
command of the consumer, `pending` Redis's list of unacknowledged messages. `Indicators` adds candles to
a chart and analyses it with shorter periods than the code's, which are its constants: the figures, the
points each adds (`scorer.py:43-148`), their weighted sum and the direction it is called. In `Backtest` one
step is one turn of the loop over bars, `CloseLeft` what follows the loop; the open trades are a function
from the bar each was entered at, since a bar enters one at most. `WalkForward` cuts its windows from a history with holes and
simulates signals in each.

## 3. What TLC checks

| Run | Question | Instance |
|---|---|---|
| `safety_layer` | does a reached limit stop orders and trading until the boundary, whatever else happens? does each switch implement `LossLatch`? | day of 4 and week of 8 ticks, 2 ticks to a second, losses 0, 1, 2, three limit pairs (both 2; only the week; none); with the override and two stops at once of all six, or without the override and with two of them |
| `safety_race` | can a race book a loss twice, or block a user for ever? are halts reliable if one process records trades? | two workers; three handlers and no crash with one recorder and the risk engine beside it, or two handlers of any kind and one crash |
| `order_execution` | which faults leave a position unprotected or unreported; does every cycle end? | two attempts, two cycles, all faults |
| `shadow_runs` | do overlapping simulated runs, failures and retries keep the open risk bounded and the reports true? do they implement `ShadowLedger`? | two signals, two workers, one monitor, one failure of any kind |
| `shadow_monitors` | is a trade closed once, and one past its holding time in the end, if monitors overlap? | one signal and perhaps an old row, two monitors, one failure |
| `decision` | does what is approved fit the regime and its limits, however it was sized, and stay within them as a position? | every combination of low, middle and high readings, accounts at a limit; all sizing methods on edge inputs; two positions, three operations and any checks between them, two quantities to add |
| `pipeline` | does the log tell what became of an order; what may queued tasks do under a halt; how many positions do overlapping runs open? | two workers, two coins, two cycles, one manual run, one failure, one outside event, all settings |
| `accounts` | do the paper account's books balance and its limits hold; does every unit of a manual position have a stop? | two coins, four signals, four trades, two days; two requests, two entries, two mishaps |
| `surroundings` | holes, duplicates and losses of candles; how far indicators and score depend on direction; backtest accounts, look-ahead, figures and funding | five to six candles, four messages, four bars, ten days with up to two holes, logs of four lines |
| `race_two_recorders` | (violated) does a halt survive two recording processes? | two workers, two records |
| `order_lost_answer` | (violated) does every open position have a stop-loss? | lost answers only |
| `pipeline_hook` | (violated) does an emergency close's loss halt trading? | as `pipeline` |

**Why the bounds are enough.** Two ticks to a second is the least at which an expiry is rounded
down; a day of two seconds and a week of two days is the least at which a daily halt ends within a
weekly one. Losses 1 and 2 against a limit of 2 reach it in one step, in two, and exceed it. The third
limit is the zero that a missing balance produces. Two handlers are enough for every overlap of two,
three let a halt be written before two others overlap. Two cycles are enough for a leftover of one to
meet the other, two attempts for an attempt to follow one that was cut off. In `Shadow*`, a trade may
risk 1 or 2, its budget is 2 and the portfolio's limit 3: one signal and its experimental copy can fill
the limit, and two of them have to share it. Two runs are what a race on the open risk takes, two
monitors with up to three rows what a double close and a deadlock take. One failure is enough for what
the properties say, each about one run or one row; a second one could only hit a run already excused.
`Pipeline`: one open position is the limit, two workers and a manual run exceed it in every way they can;
`MaxFaults` counts steps that fail once or more, so that one fault already covers every number of
retries. `PositionBook`: three operations in every order (an opening, an addition, a partial close, a
moved stop, a close, a tick), with checks between any two of them that do not count; an addition of four
lots or of eight is one within what was agreed or beyond it. `PaperAccount`: losses of one per cent each, a day that allows two and a week that allows three, so
that within four trades the day, the week, the streak and the cooldown each refuse a signal.
`ExchangeAccounts`: two opposite or equal entries, a lost answer and a failed emergency close.
`CandleFeed`: pages of two and candles of two ticks, so that an outage can exceed a page and end in the
middle of a candle. `Backtest`: bars that stay between the levels, reach one or both, or open beyond one.
The readings of `decision` are the two sides of every threshold the scores have. The symmetries permute
signals, workers, coins or requests, in runs without liveness properties. `CHECK_DEADLOCK FALSE` stands
where the model stops when its bounded cycles, requests or bars are used up.

**Fairness.** `SafetyRace`: time passes, and a worker in the middle of a handler goes on to its next
command; a killed one has left its handler. `OrderExecution`: the worker runs (`WF(Validate)`), the
runner's timer fires if nothing else happens (`WF(Timeout)`, `asyncio.wait_for` has a finite timeout),
and the stores behind the post-trade hook answer (`WF(Hook \/ HookFails)`; no timeout surrounds the
hook, so this is an assumption on Redis and PostgreSQL). Nothing is assumed of the exchange.
`ShadowTrades`: the timer keeps starting monitors, a monitor that is not waiting goes on, and PostgreSQL
resolves deadlocks and serves a row's waiters in turn; nothing is assumed of the runs. That the price
cache is empty counts as a failure, so it is so finitely often: without prices no trade is ever closed.
`CandleStream`: the loop of a running consumer goes on, no more. Nothing in the repository starts the
consumer or restarts it, so `EveryMessageEnds` is stated on the condition that somebody does, again and
again; failures and ends are bounded.

**Properties.** Each is stated in its module with a comment. `LossLimitEnforced`,
`HaltHoldsUntilBoundary` and the latches are the safety layer's purpose; `ExpiryTracksBoundary` is the
invariant of the expiries that makes them true to within a second; `HaltKeepsTradingOff` relates Redis
and the database. `ExposureHasCause` and `StopsCover` name the faults, and the only ones, that can leave
more open than stop-losses cover, in the automatic and in the manual path; `ReportMatchesExchange`,
`RowTellsTheTrade`, `ExecutedHasTrade` and `RefusalLeavesNothing` relate what is reported to what was
done. `OpenRiskBounded` and `PositionsBounded` say what a limit is worth that is read, judged and only
then used: one worker keeps it, each further one may exceed it by what the others cannot see.
`LossIsBounded`, `SizedLossIsBounded` and `ApprovedSignalFits` are the same promise made in three places;
`AddingKeepsRisk`, `NewPositionFits` and `CostBasisHolds` say what remains of it as positions change.
`AddingKeepsRisk` is conditional, since the code is: `check_dca` is asked about an amount of risk, `dca`
adds a validation's quantity, which `risk/engine.py:303` sizes by the signal's stop, and nothing compares
the two. It states what the answer is worth: an addition whose loss at the position's stop is within the
amount asked about, to a position that risks no more than when it was asked, stays within twice the first
risk, whatever happened in between. `TRADING_RULES.md:582` promises the bound without these conditions.
`BothWaysAlike` turns the chart upside down and expects every figure and every fired signal turned. The
score is not turned: `scorer.py:43` gives an RSI of 30 its 0.7 and one of 70 its -0.3, volume and a
widening range speak for buying whatever the trend. The property says that the two scores differ from
opposites by exactly these three, and that the difference is too small for a chart and its mirror image to be
both BULLISH or both BEARISH.
`FiguresAreRight` and `NetIsCashMoved` compare one-pass code with the definition of the figure, and
`ReportAddsUp` the trades with the cash (what the code charges twice is a term of its own in it: the
property shows that nothing else is lost or counted twice).

Every property of a passing run has a mutant in `PROJECT.json`: a variant of a definition, kept next
to it and marked `Variant`, under which TLC finds the property violated.

### Where code and documentation disagree

With a run that shows it:

* Two workers recording trades take back each other's halts: `race_two_recorders`. The gate's
  automatic reset and `resume_auto_trading` race with a recording worker in the same way
  (`trading_service.py:5` calls the latter atomic).
* A lost answer to an entry leaves an open position without a stop-loss that is reported as a
  rejection (`RISK_ENGINE.md:86`): `order_lost_answer`.
* The post-trade hook reads a balance that the account state does not have; every limit is 0 and no
  loss ever halts (`kill_switch.py:7`): `pipeline_hook`. The drawdown guard is fed the same 0.

Seen while modelling, in modules of this directory, without a run of their own:

* Safety: a loss switch that halts overwrites the risk engine's manual halt, which then ends at midnight
  (`state.py:324` says such keys are not touched). `Resume` deletes a loss halt that the risk engine
  wrote when the switch's own key exists and is not halted; a losing trade below its limit does the same
  (`state.py:343`). After a resume or an operator's `resume_trading` a switch is halted and the shared key
  empty, so the risk engine does not see the halt. Losses of a day that ended below its limit count on
  the next (`TRADING_RULES.md:269`). A worker killed before `Flag` leaves the database flag on under a
  halt (`adapter.py:51`).
* Shadow: an open trade of the experiment takes room from the baseline, whose ledger is documented to be
  separate (`SHADOW_FAST_EXIT_V2.md:11`). A database error in the experiment's statements is caught as
  isolated (`execution.py:533`), but both inserts share a transaction, so the baseline is lost too while
  the run reports it executed. This is why `ExecutedHasTrade` excuses them. Entries of the production
  decision log never carry a result (`pipeline.py:1127`), so the report's figures come from exports.
* Pipeline: with live trading alone there is no account, so nothing is ever traded, though
  `docs/LIVE_TRADING_CHECKLIST.md:13` wants shadow trading off; an answer lost on the way leaves a
  position under a row that says execution failed; a failed emergency close is only logged.
* Decision: the risk engine halts for the day because a trade *could* reach the limit
  (`TRADING_RULES.md:306` speaks of losses); when the review is switched off the playbook guard, which has
  nothing to do with the model, is switched off too; levels rounded to cents can end below the reward
  ratio that was asked for.
* Sizing: `max(auto, config)` makes a quarter Kelly apply to records of 20 to 50 trades for which
  `kelly.py:180` recommends an eighth; the docstring of `sizing.py:8` multiplies by the leverage, the code
  does not, and is right.
* Paper: the three-loss cooldown starts again at every signal and never ends (`TRADING_RULES.md:427`);
  after five losses `resume()` changes nothing; the daily halt does not lift at midnight; an addition
  keeps the position's stop, so the loss can exceed the recorded maximum.
* Position manager: `dca` adds what it is given: more than was checked (`TRADING_RULES.md:582`: at most
  twice the first risk), or to a closed position, whose lots no later operation sells.
* Exchange accounts: manual orders consult neither the gate nor the halts (`gate.py` says every order
  must); the user is told that a position was closed when the emergency close failed; two connects at
  once leave two live rows.
* Market data: the collector publishes to `stream:analysis_trigger`, the consumer reads `candle:close`,
  which nothing in the repository writes; its comment says that unacknowledged messages are processed
  again, and they never are; a candle that was open when the connection was lost is not recovered.
* Indicators: volume and a widening range add to the upward score of a falling market too; on its
  thresholds the RSI takes the buying side; supports and resistances are the most extreme and not the latest.
* Backtests: the entry fee, funding and slippage are charged twice (cash and `net_pnl`), funding received is
  a cost, and a bar that opens beyond the stop closes at the stop; the walk-forward engine's combined
  equity is not the sum of its windows.

## 4. What is proved

`SafetyLayerProofs` (constants: any positive `Second`, `Day`, `Week`, any sets of losses and limits,
any cap; the named assumptions of `HaltStore` and `SafetyLayer`):

* `Invariance`: `Inv` is inductive. `TypeOK` and the properties alone are not: `Inv` adds, for each
  switch (`KeyInv`), that a binding halt ends at `left`, that its expiry is `Ttl` of that end up to
  the second that truncation takes, that a halted key has reached its limit, and that an open key's
  `loss` is what was `counted`; and that a binding halt goes with the flag off.
* `TypeCorrect`, `LossLimit`, `ExpiryTracks`, `TradingOff`, `HaltHolds`: the properties of run
  `safety_layer`, from `Inv`. `HaltHolds` is an action property: the step lemmas (one for each
  action) also say which halts survive the step.

The lemmas about `HaltStore` (`TtlBounds`, `RecordedKey`, `RecordLossStep`, `AgedKey`,
`EmptiedSwitch`, `CheckedSwitch`) are about single calls and do not mention the state.

`SafetyLayerProofs` also holds `Refinement`, `MCSpec => SwitchesAreLatches`, for every period, grain of the
clock, set of losses and of limits. `HandlersLatched` says it of one step of `SafetyLayer`, with nothing of
the bounds that `MCSpec` adds: under the mapping of a key to its total and whether it binds, a trade is
`Lose` (or nothing, when skipped), an order check, a resume and a reset are `Empty`, a tick is `Pass`, and
everything else, the halts of the risk engine among it, is no step of the latch. The mapping reads a halt
past its end as an empty latch, and `KeyInv` is what makes that total consistent.

`SafetyRaceProofs` (any finite set of workers, every set of losses and limits, every length of the
periods):

* `NothingInvented`: what a switch has booked is no more than what the trades have lost, however the
  commands interleave and wherever a worker is killed. The strengthening `Accounted` is a balance: the
  key's loss and the losses that workers have still to write to it (`Due`, a sum over the workers) stay
  within what was charged, and so does what a worker is about to write (`Held`, the key it read) with
  `Due`. Every command is then one move of that balance (`AccountedGoes`): a write turns a pending loss
  into a booked one, an overwritten key and a killed worker only take away.
* `HaltSurvivesAlone`: if a single worker `r` records trades (`Quiet`) and the others are the risk engine
  or idle, no step ends a binding halt before its boundary. `Lone(r)` adds the one fact that a second
  recorder would destroy: no halt binds the switch that `r` has read as open and is about to write.
  `race_two_recorders` is the counterexample without `Quiet`.

`OrderExecutionProofs` (any number of attempts and cycles, any set of faults): `Invariance` with the
strengthening that says for each `pc` what this attempt has sent and what of it is covered, and from
it `TypeCorrect`, `Exposure`, `ReportsMatch`, `Orders`, `Books`.

`PipelineProofs` (any finite sets of coins and workers, any limit of positions, any numbers of cycles,
manual runs, failures and outside events):

* `RowTells`. `RunInv` says of one run that the recorded steps are the steps before the present one, in
  their order (`InOrder`), that none of them has failed but the three that may (`Good`), that an order
  exists only at the end (`Placed`), and that the row says what became of it (`RowRight`). The proof of an
  agent's answer is made once (`StopsRun`, `PassesRun`, `FailsRun`, `AttemptsRun`) and used by each of the
  nine actions that give one.
* `PositionsStayBounded`: in shadow mode no more positions are open than `MaxOpen` for each worker and one
  for each manual run. Two workers that both begin with BTC and then both with ETH open four with a limit
  of two, since `seen` is read when the task begins and the code groups positions by coin; the bound is
  therefore a factor and not a sum. The invariant `Room` says of each coin that its positions and the
  scheduled runs that may still open one (`DueOf`) are at most the number of workers and the manual
  positions `m[c]` of that coin, for some distribution `m` of them, and of all coins together that they are
  at most `MaxOpen` for each worker and the manual ones. That `m` is never written down by the
  code; the invariant says that there is one, and each step gives the next.
* `QueueStops`: `HaltStopsTheQueue` alone is not inductive, for a run with no order yet could be past the
  risk step. `QueueInv` adds that a run which began under the standing halt is before the order's steps or
  about to commit (`Harmless`): the risk step is the only way on, and it refuses under a halt.

`DecisionProofs`, from the candles to a position that is added to:

* `Alike` (`Indicators`; any candles, periods, `Scale`, number of levels, candles a day and least number of
  rows from two on): `BothWaysAlike`. `ChartInv` says that what is shown is the analysis of the chart, and
  `Charts` that the analysis of `Over(rows)`, the chart upside down, is that of `rows` turned round, with a
  lemma for each figure. The averages are recursive functions; that they exist and that those of opposite
  values are opposite is shown by `AllNumbers` (`EwmIs`, `EwmOpposite`), sums of opposite terms by
  `SumOfOpposites`. The lows of a window are opposite to the other chart's highs (`MinOfOpposites`), and of
  these as many lie beyond each, so that the foremost levels correspond (`LowestTurned`). Order, MACD
  and bands add opposite points (`OrderTurned`, `MacdTurned`, `BandsOpposite`), the RSI's add up to what its
  thresholds lean (`RsiLean`), volume's and range's are the same; the weighted sum stays within the limits
  it is clipped to (`ScoreIs`), so that the two scores add up to the three leaning terms, at most 0.33, and
  two scores of 0.20 or more cannot (`SignalsDiffer`). What the theorem leaves open is what the property
  does: whether a close is within 1% of the long average.
* `ApprovedIsSafe` (`DecisionChain`; any readings, accounts and minimum score, under the assumptions that
  readings are numbers and the ATR is at least one unit, which `_MIN_ATR` sees to): an approved candidate
  loses at its stop no more than the share risked and than what is left of the day, and is not liquidated
  before. `ChainInv` follows what is known of the decision from stage to stage: the signal's levels are
  numbers (`ViewGiven`), hence the candidate's levels are whole cents on their side of the entry
  (`Priced`), hence at least a cent away, so that a loss of zero cannot stand for an unknown one; the
  risk checks give the rest. The three strategies (`EmaRated`, `RsiRated`, `BreakoutRated`), their vote and
  the choice between them (`VoteGiven`, `PreferredIsOne`) are lemmas on the operators.
* `TradesFollow`: no readings make a candidate without a regime or against the trend. There the pieces of
  evidence sum to 66 points at most and the derivatives add 8 (`ChartBounded`, `DerivativesBounded`), so the
  theorem holds for every `MinScore` above 74 points, and its hypothesis says so. The code's default is 75
  (`MIN_LONG_SCORE`); `SHADOW_MIN_LONG_SCORE` can lower it, and below 74 nothing is claimed.
* `CostBasis`, `AdditionsKeepRisk`, `NewOnesFit` (`PositionBook`; any number of positions, prices and
  quantities, any order of operations). `Sound` relates each position to its ledger: the profit it reports
  is the money that went in and out, up to half a unit for every lot that an addition averaged, the rounding
  of `AverageEntry` (`AveragePaid`). `PromiseInv` says what `check_dca` last agreed to: what the position
  risked then and what it was asked about came to at most twice the first risk, which no operation
  changes (`PromiseStays`). An addition within that leaves at most twice the first risk, up to what the
  rounding moves the entry (`AddedRisk`, `DcaRisk`); of other additions the theorem says nothing. A new position fits because the limit is checked against the sum
  of the risks (`OpenFits`). That a stop is not the entry is an assumption on the requests:
  `sizing.py:112` refuses one.
* `SizedWithinLimit`, `ApprovedWithinLimits` (`Sizing`, `SignalCheck`; any balances, prices, leverages and
  records that are natural numbers, any settings that `TraderAssumption` allows, the constraints of
  `user_settings.py:79`). The arithmetic rests on what whole parts of an amount give back (`WholeParts`) and
  two facts about products. `ShareBounded` and `AmountBounded` follow each method through its caps,
  `SizedBounded` the quantity it gives. For signals, `NoneFailed` says that approval means all fifteen checks
  passed, since the least failing one gives the code, and `ApprovedFits` what the three of them that weigh
  the quantity then leave of it. Rounding to cents is in neither model, and so not in the theorems.

`ShadowProofs` has five parts. The first (`ShadowTrades`; any finite set of signals, any monitors and risks, any budget and
limit, with or without the experiments, any number of workers and failures) is `Invariance` of `Inv`, and
from it `Executes`, `Refuses`, `Control`, `Closes`, `RiskBounded`, `Entries` and `TypeCorrect`. `Inv` has two halves that meet in the
table. `RunOk` says of a run what it has inserted and not committed, that the table has nothing of it before
it ends, and what it may report of that. `MonitorsInv` is the row locks, which the model has only as drafts
and queues: a drafted row is open and drafted by one monitor (`HeldInv`), a monitor that waits knows who
holds the row, and of two that wait one is behind the other (`QueueInv`); so a monitor with nobody ahead
is alone at its row (`NobodyAhead`), which is why no trade is closed twice. `Finish` then changes open
rows only, and so none that a run could have found absent.

`RiskBounded` is a theorem about the limit that several workers read, judge and then use. What a run may still
add unseen is its `Stake`: what its transaction has inserted, and the trade it was allowed to insert. A stake
is at most `Most`, one trade or a trade and its experiment but never more than the limit, and `RiskInv` says
that the committed open risk and all stakes together stay within the limit and one `Most` for each worker
but one. The run that judges sees the table and its own transaction, so all but the other workers' stakes
(`Seen`, `OthersStake`); a commit turns a stake into open risk, a failure drops it, and a monitor only closes.

`Entries` is the refinement: `ShadowTrades` implements `ShadowLedger`. It needs of a run that its risk, its
trade and its copy are of the kinds the ledger enters and that a run about to commit has answered
(`MadeInv`), and that only open trades are past their time and only such are drafted as closed for it
(`DueInv`). `RunGoesOn` is then every step of a run but its last, `RunEnds` the last, whether it commits,
fails to or is killed; there `RunOk` gives the agreement with the answer and `RiskInv` the ceiling.
`FinishCloses` and `ExpireAges` are the two steps of the table's other side. That a copy never stands
without its trade (`ExperimentHasControl`) is part of the invariant, and of what `Enter` allows.

The second (`CandleStream`; any size of a reply, any number of messages, failures and ends of the process) is
`StreamInvariance`, and from it `Analysed`. `AnalysedOnce` alone is not inductive: a second `Send` of a
message has to be excluded by where the process is. `StreamInv` adds that the group has delivered the
messages between its first and its last and no other (`GroupInv`); that the reply in hand is in the order
of the stream, pending, and that of its messages only the first can have been sent, and was sent exactly
when the next command is the acknowledgement (`BatchInv`); and that a message the group has not delivered
has started nothing (`CyclesInv`). `ProceedStep` is shared by the acknowledgement and every failure.

The third (`CandleFeed`; any length of a candle, any page of a backfill, any number of lost connections,
crashes and failures) is `Holes`. Between two backfills a candle may well be missing for no reason that is
recorded yet, so the invariant `FeedInv` follows the candles that are owed: over, missing and without a
cause (`Owed`). Each is either the one whose closing message is due, or the connection is down or new and
the next backfill starts no later than it (`Reached`): neither the last candle heard nor, in a process
that has heard none, the last one in the table is later. `MessageStep`, `LossStep`, `ConnectStep`,
`TickStep` and `BackfillStep` keep that; the last shows that what a backfill leaves owed it could not reach.

The fourth (`WalkForward`; any lengths of the two parts and of the step, any path of prices, any days
missing from it) is `NoLeak`. In `WalkInv` a day separates what each window was tuned on from what it was
judged on (`Apart`), and with a step no shorter than the second part no window so far was judged on a day
the next one may be judged on.

The fifth (`ShadowReport`; any lines, any length of the log) is `Figures`: that the code's single passes find
the extremes over all stretches of results. A recursive function exists because a pass over the numbers up
to any length does (`PassExists`). Then `FallsRight` and `RunsRight` say what a pass has found after n
results: the sum, the highest sum so far and the deepest fall ending anywhere; the run of losses that ends
here, that it cannot be prolonged to the left, and the longest ending anywhere. `FallsStep` and `RunsStep`
show that one more result keeps that, and `AllNumbers` that the whole pass has it. That `Kept` gives the
members that pass, and as many, is `NthExists`; that a profit factor of 120 is a fifth more won than lost is
`FactorIsRight`.

`AccountsProofs`, first the exchange account (any finite set of requests, which `AccountsAssumption` names,
any number of accounts and entries, any numbers of failed calls and crashes): `Invariance` of `AccountsInv`,
and from it `Covered`. `StopsCover` relates what is held to how many requests are between their entry and
its stop, so the proof counts: `InFlightStep` says what that number becomes when a single request moves, and
`CoverStep` what then remains of `StopsCover`; each action is a use of the two. `RequestInv` is the
strengthening: a request that is at the order's steps was made for an order, and works with an account that
exists.

Then the paper account (any finite set of signals, any prices, fees, ratios and limits, any number of
trades): `PaperInvariance` of `PaperInv`, and from it `Balances` and `Grown`. `Good` is the inductive part:
types, the balance, and that a position of quantity 0 is `None`, without which a coin that was closed could
keep a cost whose fee the balance no longer has. `Enters` says of opening and of adding alike which single
coin changes and what it pays; `ReversedWithin` carries the limits over the close in between. `CheckedFits`
is why a position grows within the day's limit: the checks compare the losses with the balance as it was
before the entry fee, which is what `GrowsWithinLimits` therefore says.

Then a backtest (any bars, signals, costs and limit of open positions): `AddsUp`, from `BacktestInv`, which
adds types to `ReportAddsUp`. Every figure is a sum over trades, so a bar is an equation between sums: the
trades held split into those that leave and those that stay (`SumOfParts`), and what the leaving ones bring
back is their margins and what the report counts as won less what it counts as lost (`Settled`).

Last, a closed shadow trade (any quotes, times, fee, slippage and rate, any funding interval that divides
the day): `NetHolds`. `EventsArePayments` shows that the loop of `funding_event_count`, from the first payment
after the opening in steps of the interval, meets the hours between opening and close that are multiples of
the interval (`SameRest`); `SameSum` that the four figures `pnl.py` computes and the cash of the two orders
are the same sum.

`SumTheorems` is about `SumFunctionOnSet` over finite sets: that a sum is the first term and the rest
(`SumWithout`, `SumWith`), and with it what a sum becomes when one term changes (`SumOfChanged`), bounds
(`SumOfAtMost`, `SumOfLess`), sums of sums, of parts and of opposite terms (`SumOfSums`, `SumOfParts`,
`SumOfOpposites`), and that a pass over numbered steps exists (`PassExists`). It also holds what the
others need of whole parts, rests and multiples. The library's induction rules take an operator as
parameter and cannot be used here; in their place a smallest counterexample is taken from a set of numbers
or of subsets (`AllNumbers`, `AllSubsets`), which asks only that the natural numbers are well founded.

Proving changed the models where they were wrong or said too little:

* `DecisionChain` gave a short candidate whose target would lie at or below zero; the code gives none
  (`candidate_generator.py:285`). `ApprovedIsSafe` could not be proved without it.
* `GrowsWithinLimits` was stated for the account as a whole, with a unit of tolerance; it is now exact, and
  for each coin.
* `Backtest` kept its open and closed trades in sequences, in an order that nothing depends on; they are
  functions and the report's figures sums over them.
* `ShadowReport` had its one-pass figures as folds over sequences, of which nothing can be proved here. They
  are recursive functions of the place in the sequence, as the code's loops are, and `Kept` numbers the
  members that pass a test instead of selecting them recursively.
* `Indicators` rounded its averages towards minus infinity. Where they are not exact, the average of falling
  prices was then not the opposite of that of rising ones, and `BothWaysAlike` was true of the run's `Scale`
  and not of every other. How a float rounds does not depend on the sign, nor does `Share` now. Sums and
  windows are over places of the chart instead of copied pieces of it.
* What had gone without saying is now in the assumptions of `WalkForward` (some day has a bar),
  `Indicators` (what a candle is, periods of at least one), `ShadowPnl` (quotes and times are natural numbers) and `Backtest` (prices and leverages are positive,
  slippage is below 100 per cent: at 100 a sale would bring nothing and the quantity divide by it).
* Where the code is a chain of `if`s, a `CASE` whose guards overlap says less than the code (`Leverage`,
  `Regime`, `Selected`, `Outcome`, `Submit`); these are conditionals now.

**Model-checked only**: liveness (`NoHaltForEver`, `EveryCycleEnds`, `ExpiredTradeCloses`,
`EveryMessageEnds`), which TLAPS cannot prove with fairness. Every other property of a passing run, the
refinements included, is stated by a theorem.

## 5. What is not modelled, and the plan

* The analyst and market structure agents are constructed by tests only; sentiment enters
  `DecisionChain` as a reading. Prompts and external models are arbitrary answers.
* The outage guard's failure counter and the drawdown guard's peak: no code reports a failure, a success
  or a real balance to them, so no behaviour of the system depends on them beyond the stop, which
  `SafetyLayer` has.
* Journal, reflection and coaching are reports that no trading step reads; nothing creates a journal when
  a trade closes, and `reflection_worker.py` imports a function that does not exist.
* Eviction of halts from a full Redis (`docker-compose.yml:91`): no code answers it.
* Authentication, CRUD endpoints, HTTP clients, alerts, metrics, frontend, deployment: nothing about
  them is about trading.
* Left out of modelled components: rounding to cents in most of them, the volume-dependent slippage,
  Sharpe, Sortino and CAGR, the portfolio's score and correlation warning, expiry of signals, order book
  and ticker feeds.

Next: an abstract specification of `Pipeline`, whose decision log and orders stand to each other as the
shadow engine's answers do to its table.
