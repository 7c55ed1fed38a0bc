----------------------------- MODULE ShadowTrades ------------------------------
(* Simulated trading: cycles of the pipeline read what is open, judge and insert *)
(* rows into shadow_trades inside one long database transaction each, while      *)
(* monitors, started by the timer whether or not the last one has ended, compare *)
(* the open rows with prices and close them.  PostgreSQL at READ COMMITTED: a    *)
(* statement sees what is committed and what its own transaction wrote; an       *)
(* UPDATE waits for whoever holds the row and then looks at its status again.    *)
(*                                                                               *)
(* One user, one symbol.  A run of the pipeline is known by its signal id; risk  *)
(* is actual_max_loss_usdt in small numbers, and what the cycle has judged       *)
(* before its last step only decides whether there is a signal.                  *)
EXTENDS Integers, FiniteSets, Functions

CONSTANTS
    Signals,      \* bound: the runs that get as far as execution
    Workers,      \* how many of them may overlap (worker processes)
    Monitors,     \* the monitor tasks that may overlap
    Legacy,       \* the signal of a row older than the risk columns
    Risks,        \* worst losses a trade can be given
    Budget,       \* equity * risk_per_trade_pct
    Limit,        \* equity * max_portfolio_risk_pct
    FastExit,     \* SHADOW_FAST_EXIT_V2_ENABLED
    RiskSizing,   \* SHADOW_RISK_SIZING_V2_ENABLED
    MaxFaults     \* bound: failures of any kind

ASSUME SignalsAssumption == IsFiniteSet(Signals) /\ Legacy \notin Signals
ASSUME RisksAssumption   == Risks \subseteq Nat \ {0}
ASSUME LimitsAssumption  == Budget \in Nat /\ Limit \in Nat
ASSUME FlagsAssumption   == FastExit \in BOOLEAN /\ RiskSizing \in BOOLEAN
ASSUME BoundsAssumption  == Workers \in Nat \ {0} /\ MaxFaults \in Nat

Active == FastExit \/ RiskSizing

Versions  == {"baseline_v1", "fast_exit_v2"}
LegacyKey == <<Legacy, "legacy_unknown">>
Keys      == Signals \X Versions \cup {LegacyKey}

\* Risk 0 stands for a missing actual_max_loss_usdt.
Closed == {"TP_HIT", "SL_HIT", "MAX_HOLD"}
Row    == [status : {"none", "OPEN", "REJECTED"} \cup Closed, risk : Nat]
NoRow  == [status |-> "none", risk |-> 0]
Open(risk) == [status |-> "OPEN", risk |-> risk]
Rejected   == [status |-> "REJECTED", risk |-> 0]
NoRows == [v \in Versions |-> NoRow]

VARIABLES
    rows,     \* shadow_trades, what is committed of it
    due,      \* open fast_exit_v2 rows past max_hold_seconds
    run,      \* the run behind each signal
    mon,      \* the monitors
    faults    \* failures so far

vars == <<rows, due, run, mon, faults>>

\* A run stands before the next command to the database.
Places == {"waiting", "judge", "save", "plan", "variant", "log", "commit", "done"}
Run == [at : Places, kind : {"cycle", "single"}, tx : {"open", "aborted", "invalid"},
        risk : Nat, fast : Row, mine : [Versions -> Row],
        report : {"none", "executed", "rejected", "error"},
        hit : SUBSET {"baseline", "variant", "log", "commit", "timeout", "killed"}]
NewRun == [at |-> "waiting", kind |-> "cycle", tx |-> "open", risk |-> 0,
           fast |-> NoRow, mine |-> NoRows, report |-> "none", hit |-> {}]

\* What a monitor's transaction has made of each row: "none" is a row it has not
\* touched, any other one it has locked.  Once it has queued for a row, behind
\* says who comes first.
NoKey == <<Legacy, "none">>
Mon  == [todo : SUBSET Keys, next : Keys \cup {NoKey}, priced : BOOLEAN,
         queued : BOOLEAN, behind : SUBSET Monitors,
         draft : [Keys -> {"none", "OPEN"} \cup Closed]]
Idle == [todo |-> {}, next |-> NoKey, priced |-> TRUE, queued |-> FALSE,
         behind |-> {}, draft |-> [k \in Keys |-> "none"]]

TypeOK ==
    /\ rows   \in [Keys -> Row]
    /\ due    \subseteq Signals \X {"fast_exit_v2"}
    /\ run    \in [Signals -> Run]
    /\ mon    \in [Monitors -> Mon]
    /\ faults \in 0 .. MaxFaults

Init ==
    /\ rows \in {[k \in Keys |-> NoRow],
                 [k \in Keys |-> IF k = LegacyKey THEN Open(0) ELSE NoRow]}
    /\ due    = {}
    /\ run    = [s \in Signals |-> NewRun]
    /\ mon    = [m \in Monitors |-> Idle]
    /\ faults = 0

(******************************* a run's statements *****************************)

\* The table as run s sees it.
View(s) == [k \in Keys |-> IF k[1] = s /\ run[s].mine[k[2]] # NoRow
                           THEN run[s].mine[k[2]] ELSE rows[k]]

\* get_open_risk_usdt, of any strategy; it raises if a risk is missing.
OpenIn(view)         == {k \in Keys : view[k].status = "OPEN"}
Resolved(view)       == \A k \in OpenIn(view) : view[k].risk > 0
AtStake(row)         == IF row.status = "OPEN" THEN row.risk ELSE 0
RiskOf(view)         == SumFunction([k \in Keys |-> AtStake(view[k])])

\* Variant: a trade is judged by itself.
FitsAlone(s, risk) == risk <= Budget

\* evaluate_fixed_quantity_risk and size_from_risk_budget: within the budget of a
\* trade, and with everything that is open, of any strategy, within the limit.
Fits(s, risk) ==
    risk <= Budget /\ RiskOf(View(s)) + risk <= Limit

At(s, place)    == run[s].at = place
Goes(s, r)      == run' = [run EXCEPT ![s] = r]
Running         == {s \in Signals : ~At(s, "waiting") /\ ~At(s, "done")}
Executed(r)     == [r EXCEPT !.at = "log", !.report = "executed"]
Refused(r)      == [r EXCEPT !.at = "log", !.report = "rejected"]
StoreRests      == UNCHANGED <<rows, due, mon>>

\* A run reaches the execution step.  The scheduled one has read the open
\* positions when it began, which fails if a risk is missing.
Begin(s, kind, risk) ==
    /\ At(s, "waiting") /\ Cardinality(Running) < Workers
    /\ kind = "cycle" => Resolved(rows)
    /\ Goes(s, [run[s] EXCEPT !.at = "judge", !.kind = kind, !.risk = risk])
    /\ StoreRests /\ UNCHANGED faults

\* _baseline_risk: the trade is judged by what is open now, unless no experiment is
\* active.
BaselineRisk(s) == Active => Resolved(View(s)) /\ Fits(s, run[s].risk)

\* A session whose connection is gone raises, which execute() turns into a refusal.
Judge(s) ==
    /\ At(s, "judge")
    /\ Goes(s, IF run[s].tx = "open" /\ BaselineRisk(s) THEN [run[s] EXCEPT !.at = "save"]
               ELSE Refused(run[s]))
    /\ StoreRests /\ UNCHANGED faults

\* The row is inserted, unless the signal has one; execute() does not ask which.
SaveBaseline(s) ==
    /\ At(s, "save")
    /\ LET saved == IF View(s)[<<s, "baseline_v1">>] = NoRow
                    THEN [run[s] EXCEPT !.mine["baseline_v1"] = Open(run[s].risk)]
                    ELSE run[s]
       IN  Goes(s, IF FastExit THEN [saved EXCEPT !.at = "plan"] ELSE Executed(saved))
    /\ StoreRests /\ UNCHANGED faults

\* The experiment's copy is planned: sized and judged with the open risk read once
\* more, rejected by its exit policy or its loss limits, or its planning raises,
\* which is caught.
PlanFast(s) ==
    /\ At(s, "plan")
    /\ \/ /\ Resolved(View(s))
          /\ \E row \in {Open(risk) : risk \in {x \in Risks : Fits(s, x)}} \cup {Rejected} :
                Goes(s, [run[s] EXCEPT !.at = "variant", !.fast = row])
       \/ Goes(s, Executed(run[s]))
    /\ StoreRests /\ UNCHANGED faults

SaveFast(s) ==
    /\ At(s, "variant")
    /\ LET saved == IF View(s)[<<s, "fast_exit_v2">>] = NoRow
                    THEN [run[s] EXCEPT !.mine["fast_exit_v2"] = run[s].fast]
                    ELSE run[s]
       IN  Goes(s, Executed(saved))
    /\ StoreRests /\ UNCHANGED faults

\* The decision is logged, in the trade's session if the run is a scheduled one.
LogDecision(s) ==
    /\ At(s, "log")
    /\ Goes(s, [run[s] EXCEPT !.at = "commit"])
    /\ StoreRests /\ UNCHANGED faults

\* The table with what run s wrote.
Written(s) == [k \in Keys |-> IF k[1] = s /\ run[s].mine[k[2]] # NoRow
                              THEN run[s].mine[k[2]] ELSE rows[k]]

\* Ends the run; only the run for a single user passes a failed commit on.
Ends(s, failed) ==
    Goes(s, [run[s] EXCEPT !.at = "done", !.mine = NoRows, !.fast = NoRow,
                           !.report = IF failed /\ run[s].kind = "single"
                                      THEN "error" ELSE @])

\* Variant: the run ends without a commit.
CommitForgotten(s) ==
    /\ At(s, "commit")
    /\ Ends(s, run[s].tx = "invalid")
    /\ UNCHANGED <<rows, due, mon, faults>>

\* The session is committed after the pipeline has returned its result.  What an
\* aborted transaction wrote is rolled back without a word.
Commit(s) ==
    /\ At(s, "commit")
    /\ rows' = IF run[s].tx = "open" THEN Written(s) ELSE rows
    /\ Ends(s, run[s].tx = "invalid")
    /\ UNCHANGED <<due, mon, faults>>

(********************************** failures ************************************)

\* Something goes wrong in run s.
Hits(s, r, what) ==
    /\ faults < MaxFaults /\ faults' = faults + 1
    /\ Goes(s, [r EXCEPT !.hit = @ \cup {what}])

\* What a failed statement leaves: nothing that the transaction wrote survives.
Aborted(r) == [r EXCEPT !.tx = IF @ = "open" THEN "aborted" ELSE @, !.mine = NoRows]

\* Variant: a failure to save the baseline is taken for one of the experiment.
StatementFailsUnseen(s) ==
    /\ \/ At(s, "save") /\ Hits(s, [run[s] EXCEPT !.at = "plan"], "baseline")
       \/ At(s, "plan") /\ Hits(s, Executed(Aborted(run[s])), "variant")
    /\ StoreRests

\* A statement fails.  Before the baseline is saved the run is refused; after it
\* the failure is caught as the experiment's, or as the log's.
StatementFails(s) ==
    /\ run[s].tx = "open"
    /\ \/ /\ At(s, "judge") \/ At(s, "save")
          /\ Hits(s, Refused(Aborted(run[s])), "baseline")
       \/ /\ At(s, "plan") \/ At(s, "variant")
          /\ Hits(s, Executed(Aborted(run[s])), "variant")
       \/ /\ At(s, "log")
          /\ Hits(s, IF run[s].kind = "cycle"
                     THEN [Aborted(run[s]) EXCEPT !.at = "commit", !.tx = "invalid"]
                     ELSE [run[s] EXCEPT !.at = "commit"], "log")
    /\ StoreRests

\* The commit fails, or only its answer is lost.
CommitFails(s) ==
    /\ At(s, "commit") /\ run[s].tx = "open"
    /\ faults < MaxFaults /\ faults' = faults + 1
    /\ rows' \in {rows, Written(s)}
    /\ Goes(s, [run[s] EXCEPT !.at = "done", !.mine = NoRows, !.fast = NoRow,
                              !.hit = @ \cup {"commit"},
                              !.report = IF run[s].kind = "single" THEN "error" ELSE @])
    /\ UNCHANGED <<due, mon>>

\* Variant: the retry goes on in the transaction of the attempt that was cut off.
TimeoutKeepsSession(s) ==
    /\ \E place \in {"judge", "save", "plan", "variant"} : At(s, place)
    /\ run[s].tx = "open"
    /\ Hits(s, [run[s] EXCEPT !.at = "judge"], "timeout")
    /\ StoreRests

\* The runner's timeout cancels execute() in the middle of a statement, which
\* costs the session its connection, and calls it again with the same session.
Timeout(s) ==
    /\ \E place \in {"judge", "save", "plan", "variant"} : At(s, place)
    /\ run[s].tx = "open"
    /\ Hits(s, [run[s] EXCEPT !.at = "judge", !.tx = "invalid", !.mine = NoRows], "timeout")
    /\ StoreRests

\* The worker is killed and its connection closed.
Killed(s) ==
    /\ s \in Running
    /\ Hits(s, [run[s] EXCEPT !.at = "done", !.mine = NoRows, !.fast = NoRow,
                              !.report = "none"], "killed")
    /\ StoreRests

(********************************* the monitors *********************************)

\* A monitor turns to one of the rows it has still to visit.
Turns(mo, todo) ==
    LET free == [mo EXCEPT !.todo = {}, !.next = NoKey, !.queued = FALSE]
    IN  IF todo = {} THEN {free}
        ELSE {[free EXCEPT !.todo = todo \ {k}, !.next = k] : k \in todo}

Held(m)  == {k \in Keys : mon[m].draft[k] # "none"}
Busy(m)  == mon[m].next # NoKey \/ Held(m) # {}
RunsRest == UNCHANGED <<run, due>>

\* Who has locked the row that m turns to, or was there to wait for it before m.
Ahead(m) ==
    IF mon[m].queued THEN mon[m].behind
    ELSE {n \in Monitors \ {m} : \/ mon[m].next \in Held(n)
                                 \/ mon[n].queued /\ mon[n].next = mon[m].next}

\* The transaction of m is over and its locks go to those behind it.
Leaves(m) ==
    mon' = [n \in Monitors |-> IF n = m THEN Idle
                               ELSE [mon[n] EXCEPT !.behind = @ \ {m}]]

\* A monitor starts: it reads the cached prices, none if they have expired, and
\* then the open rows.
Look(m, priced) ==
    /\ ~Busy(m)
    /\ IF priced THEN UNCHANGED faults ELSE faults < MaxFaults /\ faults' = faults + 1
    /\ \E mo \in Turns([Idle EXCEPT !.priced = priced], OpenIn(rows)) :
          mon' = [mon EXCEPT ![m] = mo]
    /\ RunsRest /\ UNCHANGED rows

\* Variant: rows are not closed for their age.
OutcomesWithoutAge(k, priced) ==
    IF priced THEN {"TP_HIT", "SL_HIT", "OPEN"} ELSE {"OPEN"}

\* What a visit can make of an open row.  Without a price it is only marked.
Outcomes(k, priced) ==
    IF ~priced THEN {"OPEN"}
    ELSE {"TP_HIT", "SL_HIT", IF k \in due THEN "MAX_HOLD" ELSE "OPEN"}

\* The row is taken: m queues for it.
Queue(m) ==
    /\ mon[m].next # NoKey /\ ~mon[m].queued /\ Ahead(m) # {}
    /\ mon' = [mon EXCEPT ![m].queued = TRUE, ![m].behind = Ahead(m)]
    /\ RunsRest /\ UNCHANGED <<rows, faults>>

\* Variant: the row is updated whatever has become of it.
WrittenWhateverItIs(m, k) == Outcomes(k, mon[m].priced)

\* What m's update makes of row k: nothing, if it is open no more.
Updated(m, k) ==
    IF rows[k].status = "OPEN" THEN Outcomes(k, mon[m].priced) ELSE {"none"}

\* The row is locked, marked to market, and closed if it has come to that; one
\* that is open no more is left to who waits behind m.
Visit(m) ==
    LET k == mon[m].next
    IN  /\ k # NoKey /\ Ahead(m) = {}
        /\ \E end \in Updated(m, k), mo \in Turns(mon[m], mon[m].todo) :
              mon' = [n \in Monitors |->
                        IF n = m THEN [mo EXCEPT !.draft[k] = end]
                        ELSE IF end = "none" /\ mon[n].next = k
                        THEN [mon[n] EXCEPT !.behind = @ \ {m}]
                        ELSE mon[n]]
        /\ RunsRest /\ UNCHANGED <<rows, faults>>

\* The monitor has been through its list and commits.
Finish(m) ==
    /\ mon[m].next = NoKey /\ Held(m) # {}
    /\ rows' = [k \in Keys |-> IF k \in Held(m)
                               THEN [rows[k] EXCEPT !.status = mon[m].draft[k]]
                               ELSE rows[k]]
    /\ due' = {k \in due : rows'[k].status = "OPEN"}
    /\ Leaves(m)
    /\ UNCHANGED <<run, faults>>

\* Two monitors wait for each other: PostgreSQL rolls one back, and the task is
\* retried.
Deadlocked(m) ==
    /\ \E n \in mon[m].behind : m \in mon[n].behind
    /\ Leaves(m)
    /\ RunsRest /\ UNCHANGED <<rows, faults>>

\* A monitor fails or is killed; its transaction is rolled back.
MonitorFails(m) ==
    /\ Busy(m)
    /\ faults < MaxFaults /\ faults' = faults + 1
    /\ Leaves(m)
    /\ RunsRest /\ UNCHANGED rows

\* An open row of the experiment reaches its max_hold_seconds.
Expire(k) ==
    /\ k \in Signals \X {"fast_exit_v2"} /\ rows[k].status = "OPEN" /\ k \notin due
    /\ due' = due \cup {k}
    /\ UNCHANGED <<rows, run, mon, faults>>

Next ==
    \/ \E s \in Signals :
         \/ \E kind \in {"cycle", "single"}, risk \in Risks : Begin(s, kind, risk)
         \/ Judge(s) \/ SaveBaseline(s) \/ PlanFast(s) \/ SaveFast(s)
         \/ LogDecision(s) \/ Commit(s)
         \/ StatementFails(s) \/ CommitFails(s) \/ Timeout(s) \/ Killed(s)
    \/ \E m \in Monitors :
         \/ \E priced \in BOOLEAN : Look(m, priced)
         \/ Queue(m) \/ Visit(m) \/ Finish(m) \/ Deadlocked(m) \/ MonitorFails(m)
    \/ \E k \in Keys : Expire(k)

Spec == Init /\ [][Next]_vars

\* The timer keeps starting monitors, a monitor works through its list, and the
\* database resolves deadlocks.  Nothing is assumed of the runs.
FairSpec ==
    /\ Spec
    /\ \A m \in Monitors :
         /\ WF_vars(\E priced \in BOOLEAN : Look(m, priced))
         /\ WF_vars(Queue(m)) /\ WF_vars(Visit(m))
         /\ WF_vars(Finish(m)) /\ WF_vars(Deadlocked(m))

(********************************* properties ***********************************)

\* What the transaction of run r has opened, and what one could at most.
Inserted(r) == AtStake(r.mine["baseline_v1"]) + AtStake(r.mine["fast_exit_v2"])
Unseen      == IF FastExit THEN 2 * Budget ELSE Budget
RiskCeiling == Limit + (Workers - 1) * (IF Unseen < Limit THEN Unseen ELSE Limit)

\* What all runs together have open, committed or about to be, exceeds the limit
\* on the portfolio's risk by no more than what the overlapping ones could add
\* unseen by each other; with one worker it does not exceed it (sizing.py:216).
OpenRiskBounded ==
    Active => RiskOf(rows) + SumFunction([s \in Signals |-> Inserted(run[s])])
                <= RiskCeiling

\* A run that reported an executed trade has left one, unless the experiment's
\* statement, the decision log or the commit failed after the trade was saved:
\* no refusal, race or retry loses it (analysis_worker.py:286).
ExecutedHasTrade ==
    \A s \in Signals :
        At(s, "done") /\ run[s].report = "executed"
          /\ run[s].hit \cap {"variant", "log", "commit"} = {}
            => rows[<<s, "baseline_v1">>].status # "none"

\* A run that reported a refusal has left no row, even if an attempt before the
\* retry that was refused had inserted one.
RefusalLeavesNothing ==
    \A s \in Signals :
        At(s, "done") /\ run[s].report = "rejected"
            => \A v \in Versions : rows[<<s, v>>] = NoRow

\* A row of the experiment never stands without the baseline it is compared with
\* (SHADOW_FAST_EXIT_V2.md: both records share signal_id).
ExperimentHasControl ==
    \A s \in Signals :
        rows[<<s, "fast_exit_v2">>] # NoRow => rows[<<s, "baseline_v1">>] # NoRow

\* A closed or rejected trade is never touched again, and an open one keeps its
\* risk: of two monitors that saw the same trade open, the second changes nothing
\* (close_trade: no double close).
ClosedOnce ==
    [][\A k \in Keys : rows[k] # NoRow =>
          /\ rows'[k].risk = rows[k].risk
          /\ rows[k].status # "OPEN" => rows'[k] = rows[k]]_vars

\* What a run has answered.  When something failed after its trade was saved, its
\* answer leaves open whether the trade is there.
Claims(r) == r.report = "executed" /\ r.hit \cap {"variant", "log", "commit"} = {}
Answer(r) ==
    CASE r.at # "done" -> "pending"
      [] r.at = "done" /\ Claims(r) -> "executed"
      [] r.at = "done" /\ r.report = "rejected" -> "rejected"
      [] r.at = "done" /\ r.report = "none" -> "silent"
      [] OTHER -> "in doubt"

Ledger == INSTANCE ShadowLedger WITH
    Old <- LegacyKey, Limited <- Active, Experiment <- FastExit, Ceiling <- RiskCeiling,
    book <- rows, told <- [s \in Signals |-> Answer(run[s])], late <- due

\* The runs, with their transactions, timeouts, retries and failures, and the
\* monitors that wait for each other and lose their prices, come to no more than
\* entries made in one step and trades closed once.
RunsAreEntries == Ledger!Spec

\* A trade past its holding time is closed, however the monitors get into each
\* other's way, if prices are there and failures stop.
ExpiredTradeCloses ==
    \A k \in Keys : k \in due ~> k \notin due
================================================================================
