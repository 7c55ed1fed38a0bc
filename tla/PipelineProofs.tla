----------------------------- MODULE PipelineProofs ----------------------------
(* Proofs about Pipeline for any sets of coins and workers, any limit of positions *)
(* and any number of cycles, manual runs, failures and outside events.             *)
EXTENDS Pipeline, SumTheorems

(* The invariant of a run.                                                             *)

Names == {"market_data", "technical", "strategy", "decision", "ai_review", "risk",
          "final_decision", "portfolio", "position_manager", "execution"}
Late  == {"final_decision", "portfolio", "position_manager", "execution"}

\* What is recorded of the steps before an order: only the strategy and the reviewer may
\* have failed or been skipped, and the technical analysis while nothing is decided.
Good(steps) ==
    \A i \in DOMAIN steps :
        steps[i][2] = "success" \/ i \in {3, 5} \/ (i = 2 /\ Len(steps) < 4)

\* Every step is recorded in its turn.
InOrder(steps) == \A i \in DOMAIN steps : i \in 1 .. 10 /\ steps[i][1] = StepNames[i]

RowRight(r) ==
    /\ (r.row = "EXECUTED") <=> (r.trade = "open")
    /\ (r.row = "EXECUTION_EMERGENCY_CLOSED") <=> (r.trade = "closed")
    /\ r.row \in {"EXECUTED", "EXECUTION_EMERGENCY_CLOSED"} =>
          \A i \in DOMAIN r.steps : r.steps[i][2] = "success" \/ i \in {3, 5}
    /\ r.opened > 0 /\ ~r.cut => r.row \in {"EXECUTED", "EXECUTION_FAILED"}

\* What a run has read leaves room for its position.
Free(r) == r.coin \notin r.seen /\ Cardinality(r.seen) < MaxOpen

Placed(r) ==
    /\ r.kind = "none" => r.step = "idle" /\ r.coins = {}
    /\ r.kind = "manual" /\ r.coins # {} => r.step = "idle" /\ \E c \in Coins : r.coins = {c}
    /\ r.step # "idle" => r.coin \in Coins
    /\ r.opened > 0 => r.step \in {"execution", "commit"}
    /\ r.kind = "cycle" /\ (r.step \in Late \/ r.opened > 0) => Free(r)

RunInv(r) ==
    /\ r \in Run /\ Placed(r) /\ InOrder(r.steps)
    /\ r.step \in Names  => Len(r.steps) = Place(r.step) - 1 /\ Good(r.steps)
    /\ r.step = "commit" => Len(r.steps) = 10 /\ RowRight(r)
    /\ r.step # "commit" => r.trade = "none" /\ (r.opened > 0 => r.cut)

--------------------------------------------------------------------------------
(* The table of the steps.                                                             *)

LEMMA StepTable ==
    /\ Range(StepNames) = Names
    /\ Len(StepNames) = 10 /\ DOMAIN StepNames = 1 .. 10
    /\ StepNames[1] = "market_data" /\ StepNames[2] = "technical" /\ StepNames[3] = "strategy"
    /\ StepNames[4] = "decision" /\ StepNames[5] = "ai_review" /\ StepNames[6] = "risk"
    /\ StepNames[7] = "final_decision" /\ StepNames[8] = "portfolio"
    /\ StepNames[9] = "position_manager" /\ StepNames[10] = "execution"
<1>1. /\ Len(StepNames) = 10 /\ DOMAIN StepNames = 1 .. 10
      /\ StepNames[1] = "market_data" /\ StepNames[2] = "technical" /\ StepNames[3] = "strategy"
      /\ StepNames[4] = "decision" /\ StepNames[5] = "ai_review" /\ StepNames[6] = "risk"
      /\ StepNames[7] = "final_decision" /\ StepNames[8] = "portfolio"
      /\ StepNames[9] = "position_manager" /\ StepNames[10] = "execution"
  BY DEF StepNames
<1>2. Range(StepNames) = Names
  <2>1. Range(StepNames) = {StepNames[i] : i \in 1 .. 10}
    BY <1>1 DEF Range
  <2>2. \A i \in 1 .. 10 : i = 1 \/ i = 2 \/ i = 3 \/ i = 4 \/ i = 5
                           \/ i = 6 \/ i = 7 \/ i = 8 \/ i = 9 \/ i = 10
    OBVIOUS
  <2>3. {StepNames[i] : i \in 1 .. 10} = Names
    BY <1>1, <2>2 DEF Names
  <2> QED
    BY <2>1, <2>3
<1> QED
  BY <1>1, <1>2

LEMMA Places ==
    /\ Place("market_data") = 1 /\ Place("technical") = 2 /\ Place("strategy") = 3
    /\ Place("decision") = 4 /\ Place("ai_review") = 5 /\ Place("risk") = 6
    /\ Place("final_decision") = 7 /\ Place("portfolio") = 8
    /\ Place("position_manager") = 9 /\ Place("execution") = 10
<1>1. \A i \in 1 .. 10 : Place(StepNames[i]) = i
  <2> SUFFICES ASSUME NEW i \in 1 .. 10 PROVE Place(StepNames[i]) = i
    OBVIOUS
  <2>1. \A j \in 1 .. 10 : StepNames[j] = StepNames[i] => j = i
    BY StepTable
  <2>2. Place(StepNames[i]) \in DOMAIN StepNames /\ StepNames[Place(StepNames[i])] = StepNames[i]
    BY StepTable DEF Place
  <2> QED
    BY <2>1, <2>2, StepTable
<1> QED
  BY <1>1, StepTable

LEMMA PlaceOfName ==
    ASSUME NEW name \in Names
    PROVE  /\ Place(name) \in 1 .. 10 /\ StepNames[Place(name)] = name
           /\ name # "execution" => Place(name) + 1 \in 1 .. 10 /\ StepNames[Place(name) + 1] \in Names
           /\ name # "execution" => Place(StepNames[Place(name) + 1]) = Place(name) + 1
BY StepTable, Places DEF Names

(* A run stays one when its fields take other values of their kind.                    *)
LEMMA RunRecords ==
    ASSUME NEW r \in Run, NEW steps \in Steps, NEW n \in 1 .. 4
    PROVE  [r EXCEPT !.steps = steps, !.attempt = n] \in Run
BY DEF Run

LEMMA RunSkips ==
    ASSUME NEW r \in Run, NEW steps \in Steps
    PROVE  [r EXCEPT !.steps = steps] \in Run
BY DEF Run

LEMMA RunEnds ==
    ASSUME NEW r \in Run, NEW status \in Statuses, NEW row \in Rows
    PROVE  [r EXCEPT !.step = "commit", !.status = status, !.row = row] \in Run
BY DEF Run

LEMMA RunGoes ==
    ASSUME NEW r \in Run, NEW step \in Names
    PROVE  [r EXCEPT !.step = step] \in Run
BY StepTable DEF Run

LEMMA RunSkipsTo ==
    ASSUME NEW r \in Run, NEW steps \in Steps, NEW step \in Names
    PROVE  [r EXCEPT !.steps = steps, !.step = step] \in Run
BY StepTable DEF Run

LEMMA RunTries ==
    ASSUME NEW r \in Run, NEW n \in 1 .. 4
    PROVE  [r EXCEPT !.attempt = n] \in Run
BY DEF Run

LEMMA RunTrades ==
    ASSUME NEW r \in Run, NEW trade \in Trades
    PROVE  [r EXCEPT !.trade = trade] \in Run
BY DEF Run

LEMMA RunOpens ==
    ASSUME NEW r \in Run, NEW cut \in BOOLEAN, NEW opened \in Nat
    PROVE  /\ [r EXCEPT !.opened = opened, !.cut = cut] \in Run
           /\ [r EXCEPT !.cut = cut, !.opened = opened] \in Run
           /\ [r EXCEPT !.opened = opened] \in Run
BY DEF Run

LEMMA RunFinal ==
    ASSUME NEW r \in Run, NEW final \in {"HOLD", "LONG"}
    PROVE  [r EXCEPT !.final = final] \in Run
BY DEF Run

--------------------------------------------------------------------------------
(* Recording.                                                                          *)

\* s is the run r but for what is recorded of its steps.
Same(r, s) ==
    /\ s.coins = r.coins /\ s.coin = r.coin /\ s.kind = r.kind /\ s.active = r.active
    /\ s.seen = r.seen /\ s.trade = r.trade /\ s.cut = r.cut /\ s.opened = r.opened

\* s is r further on: the run of the same coin, reading the same snapshot.
Alike(r, s) == s.coins = r.coins /\ s.coin = r.coin /\ s.kind = r.kind /\ s.seen = r.seen

LEMMA RecordedRun ==
    ASSUME NEW r \in Run, r.step \in Names, Len(r.steps) = Place(r.step) - 1, InOrder(r.steps),
           NEW result \in Answer
    PROVE  LET s == Recorded(r, result)
               k == Place(r.step)
           IN  /\ s \in Run /\ Same(r, s) /\ s.step = r.step /\ s.final = r.final
               /\ s.status = r.status /\ s.row = r.row /\ s.attempt = 1
               /\ Len(s.steps) = k /\ s.steps[k] = <<r.step, result>> /\ InOrder(s.steps)
               /\ \A i \in 1 .. k - 1 : s.steps[i] = r.steps[i]
<1> DEFINE s == Recorded(r, result)
           k == Place(r.step)
           T == Range(StepNames) \X Answer
<1>1. k \in 1 .. 10 /\ StepNames[k] = r.step
  BY PlaceOfName
<1>2. <<r.step, result>> \in T /\ r.steps \in Seq(T)
  BY StepTable DEF Run, Steps
<1>3. Append(r.steps, <<r.step, result>>) \in Seq(T)
  BY <1>2
<1>4. s = [r EXCEPT !.steps = Append(r.steps, <<r.step, result>>), !.attempt = 1]
  BY DEF Recorded
<1>5. Append(r.steps, <<r.step, result>>) \in Steps
  BY <1>3 DEF Steps
<1>6. 1 \in 1 .. 4
  OBVIOUS
<1>7. s \in Run
  BY <1>5, <1>6, <1>4, RunRecords
<1> HIDE DEF T
<1>8. /\ s \in Run /\ Same(r, s) /\ s.step = r.step /\ s.final = r.final
      /\ s.status = r.status /\ s.row = r.row /\ s.attempt = 1
      /\ s.steps = Append(r.steps, <<r.step, result>>)
  BY <1>4, <1>7 DEF Run, Same
<1> HIDE DEF s, k
<1>9. /\ Len(s.steps) = k /\ s.steps[k] = <<r.step, result>>
      /\ \A i \in 1 .. k - 1 : s.steps[i] = r.steps[i]
  BY <1>1, <1>2, <1>8 DEF k
<1>10. InOrder(s.steps)
  <2> SUFFICES ASSUME NEW i \in DOMAIN s.steps
               PROVE  i \in 1 .. 10 /\ s.steps[i][1] = StepNames[i]
    BY DEF InOrder
  <2>1. i \in 1 .. k
    BY <1>2, <1>3, <1>8, <1>9 DEF T
  <2>2. CASE i = k
    BY <1>1, <1>9, <2>2
  <2>3. CASE i # k
    <3>1. i \in 1 .. k - 1
      BY <1>1, <2>1, <2>3
    <3>2. i \in DOMAIN r.steps
      BY <1>2, <3>1 DEF k
    <3> QED
      BY <1>1, <1>9, <3>1, <3>2 DEF InOrder
  <2> QED
    BY <2>2, <2>3
<1> QED
  BY <1>8, <1>9, <1>10 DEF s, k

(* Skipping records the steps up to a place that are not recorded yet.                 *)
LEMMA SkippedSteps ==
    ASSUME NEW steps \in Steps, InOrder(steps),
           NEW upto \in 0 .. 10, Len(steps) <= upto
    PROVE  LET t == Skipped(steps, upto)
           IN  /\ t \in Steps /\ InOrder(t) /\ Len(t) = upto
               /\ \A i \in 1 .. Len(steps) : t[i] = steps[i]
               /\ \A i \in Len(steps) + 1 .. upto : t[i] = <<StepNames[i], "skipped">>
<1> DEFINE T == Range(StepNames) \X Answer
           n == upto - Len(steps)
           f == [i \in 1 .. n |-> <<StepNames[Len(steps) + i], "skipped">>]
           t == Skipped(steps, upto)
<1>1. steps \in Seq(T) /\ Len(steps) \in Nat /\ n \in Nat
  BY DEF Steps
<1>2. \A i \in 1 .. n : Len(steps) + i \in 1 .. 10
  BY <1>1
<1>3. \A i \in 1 .. n : StepNames[Len(steps) + i] \in Names
  BY <1>2, StepTable DEF Names
<1>4. f \in [1 .. n -> T]
  BY <1>3, StepTable DEF Answer
<1>5. f \in Seq(T) /\ Len(f) = n
  <2> HIDE DEF f, T, n
  <2> QED
    BY <1>1, <1>4
<1>6. t = steps \o f
  BY DEF Skipped
<1>7. \A i \in 1 .. n : f[i] = <<StepNames[Len(steps) + i], "skipped">>
  OBVIOUS
<1> HIDE DEF T, f, t
<1>8. /\ t \in Seq(T) /\ Len(t) = upto
      /\ \A i \in 1 .. Len(steps) : t[i] = steps[i]
      /\ \A i \in Len(steps) + 1 .. upto : t[i] = f[i - Len(steps)]
  BY <1>1, <1>5, <1>6
<1> HIDE DEF n
<1>9. \A i \in Len(steps) + 1 .. upto : t[i] = <<StepNames[i], "skipped">>
  <2> SUFFICES ASSUME NEW i \in Len(steps) + 1 .. upto
               PROVE  t[i] = <<StepNames[i], "skipped">>
    OBVIOUS
  <2>1. i - Len(steps) \in 1 .. n /\ Len(steps) + (i - Len(steps)) = i
    BY <1>1 DEF n
  <2> QED
    BY <1>7, <1>8, <2>1
<1>10. InOrder(t)
  <2> SUFFICES ASSUME NEW i \in DOMAIN t
               PROVE  i \in 1 .. 10 /\ t[i][1] = StepNames[i]
    BY DEF InOrder
  <2>1. i \in 1 .. upto
    BY <1>8
  <2>2. CASE i <= Len(steps)
    BY <1>1, <1>8, <2>1, <2>2 DEF InOrder
  <2>3. CASE ~(i <= Len(steps))
    <3>1. i \in Len(steps) + 1 .. upto
      BY <1>1, <2>1, <2>3
    <3> QED
      BY <1>1, <1>9, <2>1, <3>1
  <2> QED
    BY <2>2, <2>3
<1> QED
  BY <1>8, <1>9, <1>10 DEF t, T, Steps

--------------------------------------------------------------------------------
(* What a run becomes.                                                                 *)

\* A run at one of the steps, whatever became of its order.
Under(r) ==
    /\ r \in Run /\ Placed(r) /\ InOrder(r.steps) /\ r.step \in Names
    /\ Len(r.steps) = Place(r.step) - 1 /\ Good(r.steps)

LEMMA OutcomeIsRow ==
    ASSUME NEW r \in Run, NEW stage
    PROVE  /\ Outcome(r, stage) \in Rows
           /\ (Outcome(r, stage) = "EXECUTED") <=> (r.trade = "open")
           /\ (Outcome(r, stage) = "EXECUTION_EMERGENCY_CLOSED") <=> (r.trade = "closed")
           /\ r.trade = "stuck" => Outcome(r, stage) = "EXECUTION_FAILED"
<1>1. r.final \in {"HOLD", "LONG"}
  BY DEF Run
<1>2. CASE r.trade \in {"stuck", "closed", "open"}
  <2>1. Outcome(r, stage) = OfTrade[r.trade]
    BY <1>2 DEF Outcome, OfTrade
  <2> QED
    BY <1>2, <2>1 DEF OfTrade, Rows
<1>3. CASE r.trade \notin {"stuck", "closed", "open"}
  <2>1. Outcome(r, stage) = OfStage(stage, r.final)
    BY <1>3 DEF Outcome, OfTrade
  <2>2. OfStage(stage, r.final) \in {"AI_REJECT", "RISK_REJECT", "PORTFOLIO_REJECT",
                                     "EXECUTION_FAILED", "HOLD", "LONG"}
    BY <1>1 DEF OfStage
  <2> QED
    BY <1>3, <2>1, <2>2 DEF Rows
<1> QED
  BY <1>2, <1>3

(* A recorded run ends: about to commit, with the row of its order.                    *)
LEMMA EndsRun ==
    ASSUME NEW r \in Run, NEW status \in Statuses, NEW stage
    PROVE  LET s == Ends(r, status, stage)
           IN  /\ s \in Run /\ Same(r, s) /\ s.step = "commit" /\ s.steps = r.steps
               /\ s.row = Outcome(r, stage)
<1> DEFINE row == Outcome(r, stage)
<1>1. row \in Rows
  BY OutcomeIsRow
<1>2. Ends(r, status, stage) = [r EXCEPT !.step = "commit", !.status = status, !.row = row]
  BY DEF Ends
<1> HIDE DEF row
<1>3. Ends(r, status, stage) \in Run
  BY <1>1, <1>2, RunEnds
<1> QED
  BY <1>2, <1>3 DEF Run, Same, row

(* A run that stops at its step has all ten steps recorded, the ones before its own as *)
(* they were.                                                                          *)
LEMMA StopsMade ==
    ASSUME NEW r, Under(r), NEW result \in Answer, NEW status \in Statuses
    PROVE  LET s == Stops(r, result, status)
           IN  /\ s \in Run /\ Same(r, s) /\ s.step = "commit" /\ InOrder(s.steps)
               /\ Len(s.steps) = 10
               /\ \E t \in Run : t.trade = r.trade /\ s.row = Outcome(t, r.step)
               /\ \A i \in 1 .. Len(r.steps) : s.steps[i] = r.steps[i]
               /\ s.steps[Place(r.step)] = <<r.step, result>>
<1> DEFINE t == Recorded(r, result)
           e == Ends(t, status, r.step)
           k == Place(r.step)
           s == Stops(r, result, status)
<1>1. /\ t \in Run /\ Same(r, t) /\ Len(t.steps) = k /\ InOrder(t.steps)
      /\ t.steps[k] = <<r.step, result>> /\ \A i \in 1 .. k - 1 : t.steps[i] = r.steps[i]
  BY RecordedRun DEF Under
<1>2. k \in 1 .. 10 /\ Len(r.steps) = k - 1
  BY PlaceOfName DEF Under
<1> HIDE DEF t
<1>3. e \in Run /\ Same(t, e) /\ e.step = "commit" /\ e.steps = t.steps /\ e.row = Outcome(t, r.step)
  BY <1>1, EndsRun
<1>4. s = [e EXCEPT !.steps = Skipped(e.steps, 10)]
  BY StepTable DEF Stops, t
<1> HIDE DEF e, s
<1>5. e.steps \in Steps
  BY <1>3 DEF Run
<1> DEFINE z == Skipped(e.steps, 10)
<1>6. /\ z \in Steps /\ InOrder(z) /\ Len(z) = 10
      /\ \A i \in 1 .. k : z[i] = t.steps[i]
  <2>1. Len(e.steps) = k /\ Len(e.steps) <= 10 /\ InOrder(e.steps)
    BY <1>1, <1>2, <1>3
  <2>2. 10 \in 0 .. 10
    OBVIOUS
  <2> HIDE DEF k
  <2> QED
    BY <1>3, <1>5, <2>1, <2>2, SkippedSteps
<1> HIDE DEF z
<1>7. s \in Run
  BY <1>3, <1>4, <1>6, RunSkips DEF z
<1>8. Same(e, s) /\ s.step = "commit" /\ s.steps = z /\ s.row = e.row
  BY <1>3, <1>4 DEF Run, Same, z
<1>9. Same(r, s)
  BY <1>1, <1>3, <1>8 DEF Same
<1>10. \A i \in 1 .. k - 1 : z[i] = r.steps[i]
  <2>1. \A i \in 1 .. k - 1 : i \in 1 .. k
    BY <1>2
  <2> QED
    BY <1>1, <1>6, <2>1
<1>11. z[k] = <<r.step, result>>
  BY <1>1, <1>2, <1>6
<1>12. t.trade = r.trade
  BY <1>1 DEF Same
<1> HIDE DEF k
<1> QED
  BY <1>1, <1>2, <1>3, <1>6, <1>7, <1>8, <1>9, <1>10, <1>11, <1>12 DEF s, k

(* A run that stops without an order keeps the invariant ...                           *)
LEMMA StopsRun ==
    ASSUME NEW r, RunInv(r), r.step \in Names, NEW result \in Answer, NEW status \in Statuses
    PROVE  LET s == Stops(r, result, status)
           IN  RunInv(s) /\ Same(r, s) /\ s.step = "commit"
<1> DEFINE s == Stops(r, result, status)
<1>1. Under(r) /\ r.trade = "none" /\ (r.opened > 0 => r.cut)
  BY PlaceOfName DEF RunInv, Under, Names
<1>2. /\ s \in Run /\ Same(r, s) /\ s.step = "commit" /\ InOrder(s.steps) /\ Len(s.steps) = 10
      /\ \E t \in Run : t.trade = r.trade /\ s.row = Outcome(t, r.step)
  BY <1>1, StopsMade
<1> HIDE DEF s
<1>3. s.row # "EXECUTED" /\ s.row # "EXECUTION_EMERGENCY_CLOSED" /\ s.trade = "none"
  BY <1>1, <1>2, OutcomeIsRow DEF Same
<1>4. RowRight(s)
  BY <1>1, <1>2, <1>3 DEF RowRight, Same
<1>5. Placed(s)
  BY <1>1, <1>2 DEF Placed, Same, Under, Names, Late, Free
<1> QED
  BY <1>2, <1>4, <1>5 DEF RunInv, Names, s

(* ... and so does one that passes to the next step, if the risk step has seen to it   *)
(* that there is room, and the decision to the analysis.                               *)
LEMMA PassesRun ==
    ASSUME NEW r, RunInv(r), r.step \in Names \ {"execution"}, NEW result \in Answer,
           result = "success" \/ r.step \in {"technical", "strategy"},
           r.step = "decision" => r.steps[2][2] = "success",
           r.step = "risk" /\ r.kind = "cycle" => Free(r)
    PROVE  LET s == Passes(r, result)
           IN  /\ RunInv(s) /\ Same(r, s) /\ s.step = StepNames[Place(r.step) + 1]
<1> DEFINE t == Recorded(r, result)
           k == Place(r.step)
           s == Passes(r, result)
<1>1. Under(r) /\ r.trade = "none" /\ (r.opened > 0 => r.cut)
  BY PlaceOfName DEF RunInv, Under, Names
<1>2. /\ t \in Run /\ Same(r, t) /\ Len(t.steps) = k /\ InOrder(t.steps)
      /\ t.steps[k] = <<r.step, result>> /\ \A i \in 1 .. k - 1 : t.steps[i] = r.steps[i]
  BY <1>1, RecordedRun DEF Under
<1>3. k \in 1 .. 10 /\ Len(r.steps) = k - 1 /\ StepNames[k] = r.step
      /\ StepNames[k + 1] \in Names /\ Place(StepNames[k + 1]) = k + 1
  BY <1>1, PlaceOfName DEF Under
<1>4. s = [t EXCEPT !.step = StepNames[k + 1]]
  BY DEF Passes
<1> HIDE DEF t, s
<1>5. s \in Run
  BY <1>2, <1>3, <1>4, RunGoes
<1>6. Same(t, s) /\ s.step = StepNames[k + 1] /\ s.steps = t.steps
  BY <1>2, <1>4 DEF Run, Same
<1>7. Same(r, s)
  BY <1>2, <1>6 DEF Same
<1>8. k = 2 <=> r.step = "technical"
  BY StepTable, Places, <1>3 DEF Names
<1>9. (k = 3 <=> r.step = "strategy") /\ (k = 4 <=> r.step = "decision")
  BY StepTable, Places, <1>3 DEF Names
<1>10. Good(s.steps)
  <2> SUFFICES ASSUME NEW i \in DOMAIN t.steps
               PROVE  t.steps[i][2] = "success" \/ i \in {3, 5} \/ (i = 2 /\ Len(t.steps) < 4)
    BY <1>6 DEF Good
  <2>1. i \in 1 .. k
    BY <1>2 DEF Run, Steps
  <2>2. CASE i = k
    BY <1>2, <1>8, <1>9, <2>2
  <2>3. CASE i # k
    <3>1. i \in 1 .. k - 1 /\ i \in DOMAIN r.steps
      BY <1>1, <1>3, <2>1, <2>3 DEF Under, Run, Steps
    <3>2. r.steps[i][2] = "success" \/ i \in {3, 5} \/ (i = 2 /\ k - 1 < 4)
      BY <1>1, <1>3, <3>1 DEF Under, Good
    <3>3. CASE i = 2 /\ k - 1 < 4
      <4>1. k = 3 \/ k = 4
        BY <1>3, <2>1, <2>3, <3>3
      <4> QED
        BY <1>2, <1>9, <3>1, <3>3, <4>1
    <3> QED
      BY <1>2, <3>1, <3>2, <3>3
  <2> QED
    BY <2>2, <2>3
<1>11. Placed(s)
  <2>1. r.opened = 0
    BY <1>1 DEF Under, Placed, Run, Names
  <2>2. s.step \in Names /\ (s.step \in Late => r.step \in Late \cup {"risk"})
    BY <1>3, <1>6, StepTable, Places DEF Names, Late
  <2>3. r.kind = "cycle" /\ r.step \in Late => Free(r)
    BY <1>1 DEF Under, Placed
  <2>4. r.kind # "none" /\ (r.kind = "manual" => r.coins = {}) /\ r.coin \in Coins
    BY <1>1 DEF Under, Placed, Names
  <2>5. Free(r) => Free(s)
    BY <1>7 DEF Same, Free
  <2>6. s.opened = 0 /\ s.kind = r.kind /\ s.coins = r.coins /\ s.coin = r.coin
    BY <1>7, <2>1 DEF Same
  <2> QED
    BY <2>2, <2>3, <2>4, <2>5, <2>6 DEF Placed
<1>12. s.step # "commit" /\ s.step # "idle"
  BY <1>3, <1>6 DEF Names
<1>13. s.trade = "none" /\ s.opened = r.opened /\ s.cut = r.cut
  BY <1>1, <1>7 DEF Same
<1>14. InOrder(s.steps) /\ Len(s.steps) = Place(s.step) - 1
  BY <1>2, <1>3, <1>6
<1> HIDE DEF k
<1> QED
  BY <1>1, <1>5, <1>6, <1>7, <1>10, <1>11, <1>12, <1>13, <1>14 DEF RunInv, s, k

(* A step that has failed for good, and one attempt that has.                          *)
LEMMA FailsRun ==
    ASSUME NEW r, RunInv(r), r.step \in Names
    PROVE  RunInv(Fails(r)) /\ Same(r, Fails(r))
           /\ (Fails(r).step = "commit" \/ r.step \in {"technical", "strategy"})
<1>1. "failed" \in Answer /\ "FAILED" \in Statuses /\ "REJECTED" \in Statuses /\ "HOLD" \in Statuses
  BY DEF Answer, Statuses
<1>2. CASE r.step \in {"technical", "strategy"}
  <2>1. Fails(r) = Passes(r, "failed")
    BY <1>2 DEF Fails
  <2>2. r.step \in Names \ {"execution"} /\ r.step # "decision" /\ r.step # "risk"
    BY <1>2 DEF Names
  <2> QED
    BY <1>1, <1>2, <2>1, <2>2, PassesRun
<1>3. CASE r.step \in {"market_data", "position_manager", "execution"}
  <2>1. Fails(r) = Stops(r, "failed", "FAILED")
    BY <1>3 DEF Fails
  <2> QED
    BY <1>1, <2>1, StopsRun
<1>4. CASE r.step = "portfolio"
  <2>1. Fails(r) = Stops(r, "failed", "REJECTED")
    BY <1>4 DEF Fails
  <2> QED
    BY <1>1, <2>1, StopsRun
<1>5. CASE r.step \notin {"technical", "strategy", "market_data", "position_manager", "execution",
                           "portfolio"}
  <2>1. Fails(r) = Stops(r, "failed", "HOLD")
    BY <1>5 DEF Fails
  <2> QED
    BY <1>1, <2>1, StopsRun
<1> QED
  BY <1>2, <1>3, <1>4, <1>5

LEMMA AttemptsRun ==
    ASSUME NEW r, RunInv(r), r.step \in Names
    PROVE  RunInv(Attempts(r)) /\ Same(r, Attempts(r)) /\ Attempts(r).step # "idle"
<1>1. CASE r.attempt <= Retries[r.step]
  <2> DEFINE s == [r EXCEPT !.attempt = r.attempt + 1]
  <2>1. Retries[r.step] \in 0 .. 3
    BY DEF Retries, Names
  <2>2. r \in Run /\ r.attempt \in 1 .. 4
    BY DEF RunInv, Run
  <2>3. r.attempt + 1 \in 1 .. 4
    BY <1>1, <2>1, <2>2
  <2>4. s \in Run
    BY <2>2, <2>3, RunTries
  <2>5. Same(r, s) /\ s.step = r.step /\ s.steps = r.steps /\ s.row = r.row
    BY <2>2 DEF Run, Same
  <2>6. Attempts(r) = s
    BY <1>1 DEF Attempts
  <2> HIDE DEF s
  <2>7. Placed(s)
    BY <2>5 DEF RunInv, Placed, Same, Free
  <2> QED
    BY <2>4, <2>5, <2>6, <2>7 DEF RunInv, Same, Names
<1>2. CASE ~(r.attempt <= Retries[r.step])
  <2>1. Attempts(r) = Fails(r)
    BY <1>2 DEF Attempts
  <2>2. RunInv(Fails(r)) /\ Same(r, Fails(r)) /\ (Fails(r).step # "idle")
    <3>1. CASE r.step \in {"technical", "strategy"}
      <4>1. Fails(r) = Passes(r, "failed")
        BY <3>1 DEF Fails
      <4>2. Passes(r, "failed").step \in Names
        <5>1. "failed" \in Answer /\ r.step \in Names \ {"execution", "decision", "risk"}
          BY <3>1 DEF Answer, Names
        <5>2. Passes(r, "failed").step = StepNames[Place(r.step) + 1]
          BY <3>1, <5>1, PassesRun
        <5> QED
          BY <5>1, <5>2, PlaceOfName
      <4> QED
        BY <4>1, <4>2, FailsRun DEF Names
    <3>2. CASE r.step \notin {"technical", "strategy"}
      BY <3>2, FailsRun
    <3> QED
      BY <3>1, <3>2
  <2> QED
    BY <2>1, <2>2
<1> QED
  BY <1>1, <1>2

(* The engine answers: the row of a completed run is that of its order.                *)
LEMMA CompletedRun ==
    ASSUME NEW r, RunInv(r), r.step = "execution",
           NEW trade \in {"refused", "open", "closed", "stuck"}, NEW c, c = Completed(r, trade)
    PROVE  /\ c \in Run /\ Alike(r, c) /\ c.step = "commit" /\ c.trade = trade
           /\ c.opened = r.opened /\ c.cut = r.cut /\ InOrder(c.steps) /\ Len(c.steps) = 10
           /\ c.row = "EXECUTED" <=> trade = "open"
           /\ c.row = "EXECUTION_EMERGENCY_CLOSED" <=> trade = "closed"
           /\ trade = "stuck" => c.row = "EXECUTION_FAILED"
           /\ \A i \in DOMAIN c.steps : c.steps[i][2] = "success" \/ i \in {3, 5}
<1> DEFINE d == [r EXCEPT !.trade = trade]
<1>1. r \in Run /\ trade \in Trades
  BY DEF RunInv, Trades
<1>2. d \in Run
  BY <1>1, RunTrades
<1>3. /\ d.step = "execution" /\ d.trade = trade /\ d.steps = r.steps /\ d.coin = r.coin
      /\ d.coins = r.coins /\ d.kind = r.kind /\ d.seen = r.seen /\ d.opened = r.opened
      /\ d.cut = r.cut /\ d.active = r.active
  BY <1>1 DEF Run
<1>4. d.step \in Names /\ Place(d.step) = 10 /\ "success" \in Answer
      /\ "FAILED" \in Statuses /\ "EMERGENCY_CLOSED" \in Statuses /\ "COMPLETED" \in Statuses
  BY <1>3, Places DEF Names, Answer, Statuses
<1> HIDE DEF d
<1>5. Placed(d)
  BY <1>3 DEF Placed, RunInv, Free
<1>6. Under(d)
  BY <1>2, <1>3, <1>4, <1>5 DEF Under, RunInv
<1>7. Len(r.steps) = 9 /\ InOrder(r.steps) /\ Good(r.steps) /\ r.steps \in Steps
  <2>1. r.step \in Names /\ Place(r.step) = 10 /\ 10 - 1 = 9
    BY <1>3, <1>4
  <2>2. Len(r.steps) = Place(r.step) - 1 /\ Good(r.steps) /\ InOrder(r.steps)
    BY <2>1 DEF RunInv
  <2>3. r.steps \in Steps
    BY <1>1 DEF Run
  <2> QED
    BY <2>1, <2>2, <2>3
<1>8. /\ c \in Run /\ Same(d, c) /\ c.step = "commit" /\ InOrder(c.steps) /\ Len(c.steps) = 10
      /\ \A i \in 1 .. 9 : c.steps[i] = r.steps[i]
      /\ c.steps[10] = <<"execution", "success">>
      /\ c.row = "EXECUTED" <=> trade = "open"
      /\ c.row = "EXECUTION_EMERGENCY_CLOSED" <=> trade = "closed"
      /\ trade = "stuck" => c.row = "EXECUTION_FAILED"
  <2>1. ASSUME NEW status \in Statuses, c = Stops(d, "success", status)
        PROVE  /\ c \in Run /\ Same(d, c) /\ c.step = "commit" /\ InOrder(c.steps) /\ Len(c.steps) = 10
               /\ \A i \in 1 .. 9 : c.steps[i] = r.steps[i]
               /\ c.steps[10] = <<"execution", "success">>
               /\ c.row = "EXECUTED" <=> trade = "open"
               /\ c.row = "EXECUTION_EMERGENCY_CLOSED" <=> trade = "closed"
               /\ trade = "stuck" => c.row = "EXECUTION_FAILED"
    <3>1. /\ c \in Run /\ Same(d, c) /\ c.step = "commit" /\ InOrder(c.steps) /\ Len(c.steps) = 10
          /\ \E t \in Run : t.trade = d.trade /\ c.row = Outcome(t, d.step)
          /\ \A i \in 1 .. Len(d.steps) : c.steps[i] = d.steps[i]
          /\ c.steps[Place(d.step)] = <<d.step, "success">>
      <4> DEFINE z == Stops(d, "success", status)
      <4>1. /\ z \in Run /\ Same(d, z) /\ z.step = "commit" /\ InOrder(z.steps) /\ Len(z.steps) = 10
            /\ \E t \in Run : t.trade = d.trade /\ z.row = Outcome(t, d.step)
            /\ \A i \in 1 .. Len(d.steps) : z.steps[i] = d.steps[i]
            /\ z.steps[Place(d.step)] = <<d.step, "success">>
        BY <1>4, <1>6, StopsMade
      <4>2. c = z
        BY <2>1
      <4> HIDE DEF z
      <4> QED
        BY <4>1, <4>2
    <3>2. /\ c.row = "EXECUTED" <=> trade = "open"
          /\ c.row = "EXECUTION_EMERGENCY_CLOSED" <=> trade = "closed"
          /\ trade = "stuck" => c.row = "EXECUTION_FAILED"
      BY <1>3, <3>1, OutcomeIsRow
    <3> QED
      BY <1>3, <1>4, <1>7, <3>1, <3>2
  <2>2. CASE trade = "stuck"
    <3>1. c = Stops(d, "success", "FAILED")
      BY <2>2 DEF Completed, d
    <3> QED
      BY <1>4, <2>1, <3>1
  <2>3. CASE trade = "closed"
    <3>1. c = Stops(d, "success", "EMERGENCY_CLOSED")
      BY <2>3 DEF Completed, d
    <3> QED
      BY <1>4, <2>1, <3>1
  <2>4. CASE trade \in {"open", "refused"}
    <3> DEFINE t == Recorded(d, "success")
    <3>1. /\ t \in Run /\ Same(d, t) /\ Len(t.steps) = 10 /\ InOrder(t.steps)
          /\ t.steps[10] = <<"execution", "success">> /\ \A i \in 1 .. 9 : t.steps[i] = r.steps[i]
      <4>1. /\ t \in Run /\ Same(d, t) /\ Len(t.steps) = Place(d.step) /\ InOrder(t.steps)
            /\ t.steps[Place(d.step)] = <<d.step, "success">>
            /\ \A i \in 1 .. Place(d.step) - 1 : t.steps[i] = d.steps[i]
        BY <1>2, <1>4, <1>6, RecordedRun DEF Under
      <4>2. 10 - 1 = 9
        OBVIOUS
      <4> HIDE DEF t
      <4> QED
        BY <1>3, <1>4, <4>1, <4>2
    <3>2. c = Ends(t, "COMPLETED", "none")
      BY <2>4 DEF Completed, d
    <3> HIDE DEF t
    <3>3. c \in Run /\ Same(t, c) /\ c.step = "commit" /\ c.steps = t.steps /\ c.row = Outcome(t, "none")
      BY <1>4, <3>1, <3>2, EndsRun
    <3>4. t.trade = trade
      BY <1>3, <3>1 DEF Same
    <3>5. /\ c.row = "EXECUTED" <=> trade = "open"
          /\ c.row = "EXECUTION_EMERGENCY_CLOSED" <=> trade = "closed"
          /\ trade = "stuck" => c.row = "EXECUTION_FAILED"
      BY <3>1, <3>3, <3>4, OutcomeIsRow
    <3>6. Same(d, c)
      BY <3>1, <3>3 DEF Same
    <3> QED
      BY <3>1, <3>3, <3>5, <3>6
  <2> QED
    BY <2>2, <2>3, <2>4
<1>9. \A i \in DOMAIN c.steps : c.steps[i][2] = "success" \/ i \in {3, 5}
  <2> SUFFICES ASSUME NEW i \in DOMAIN c.steps PROVE c.steps[i][2] = "success" \/ i \in {3, 5}
    OBVIOUS
  <2>1. i \in 1 .. 10
    BY <1>8 DEF Run, Steps
  <2>2. CASE i = 10
    BY <1>8, <2>2
  <2>3. CASE i # 10
    <3>1. i \in 1 .. 9 /\ i \in DOMAIN r.steps
      BY <1>7, <2>1, <2>3 DEF Steps
    <3> QED
      BY <1>7, <1>8, <3>1 DEF Good
  <2> QED
    BY <2>2, <2>3
<1>10. Alike(r, c) /\ c.trade = trade /\ c.opened = r.opened /\ c.cut = r.cut
  BY <1>3, <1>8 DEF Same, Alike
<1> QED
  BY <1>8, <1>9, <1>10

(* With what it has ordered and what answers were lost, the completed run is right.    *)
But(c, s) ==
    /\ s.step = c.step /\ s.steps = c.steps /\ s.trade = c.trade /\ s.row = c.row
    /\ Alike(c, s)

LEMMA ClosesRun ==
    ASSUME NEW r, RunInv(r), r.step = "execution",
           NEW trade \in {"refused", "open", "closed", "stuck"},
           NEW s \in Run, But(Completed(r, trade), s),
           s.opened > 0 /\ ~s.cut => trade \in {"open", "stuck"}
    PROVE  RunInv(s) /\ s.step = "commit" /\ Alike(r, s)
<1> DEFINE c == Completed(r, trade)
<1>1. /\ c \in Run /\ Alike(r, c) /\ c.step = "commit" /\ c.trade = trade
      /\ InOrder(c.steps) /\ Len(c.steps) = 10
      /\ c.row = "EXECUTED" <=> trade = "open"
      /\ c.row = "EXECUTION_EMERGENCY_CLOSED" <=> trade = "closed"
      /\ trade = "stuck" => c.row = "EXECUTION_FAILED"
      /\ \A i \in DOMAIN c.steps : c.steps[i][2] = "success" \/ i \in {3, 5}
  BY CompletedRun
<1>2. But(c, s)
  OBVIOUS
<1> HIDE DEF c
<1>3. /\ s.step = "commit" /\ s.trade = trade /\ s.steps = c.steps /\ s.row = c.row
      /\ Alike(r, s)
  BY <1>1, <1>2 DEF But, Alike
<1>4. RowRight(s)
  BY <1>1, <1>3 DEF RowRight
<1>5. Placed(s)
  <2>1. /\ r.kind # "none" /\ (r.kind = "manual" => r.coins = {}) /\ r.coin \in Coins
        /\ r.kind = "cycle" => Free(r)
    BY DEF RunInv, Placed, Late
  <2>2. Free(r) => Free(s)
    BY <1>3 DEF Free, Alike
  <2> QED
    BY <1>3, <2>1, <2>2 DEF Placed, Late, Alike
<1> QED
  BY <1>1, <1>3, <1>4, <1>5 DEF RunInv, Names

--------------------------------------------------------------------------------
(* The steps of a worker, and the invariant of its run.                                *)

\* Worker w works at its run.
Works(w) ==
    /\ run[w].step \in Names
    /\ \E s : Goes(w, s) /\ RunInv(s) /\ Alike(run[w], s) /\ s.step # "idle"

RunsInv == run \in [Workers -> Run] /\ \A w \in Workers : RunInv(run[w])

LEMMA OnlyPasses ==
    ASSUME NEW r, RunInv(r), r.step \in Names \ {"execution"}, NEW result \in Answer,
           result = "success" \/ r.step \in {"technical", "strategy"},
           r.step = "decision" => r.steps[2][2] = "success",
           r.step = "risk" /\ r.kind = "cycle" => Free(r)
    PROVE  /\ RunInv(Passes(r, result)) /\ Alike(r, Passes(r, result))
           /\ Passes(r, result).step # "idle"
<1>1. /\ RunInv(Passes(r, result)) /\ Same(r, Passes(r, result))
      /\ Passes(r, result).step = StepNames[Place(r.step) + 1]
  BY PassesRun
<1>2. StepNames[Place(r.step) + 1] \in Names
  BY PlaceOfName
<1> QED
  BY <1>1, <1>2 DEF Same, Alike, Names

LEMMA OnlyStops ==
    ASSUME NEW r, RunInv(r), r.step \in Names, NEW result \in Answer, NEW status \in Statuses
    PROVE  /\ RunInv(Stops(r, result, status)) /\ Alike(r, Stops(r, result, status))
           /\ Stops(r, result, status).step # "idle"
BY StopsRun DEF Same, Alike

LEMMA Words ==
    /\ "success" \in Answer /\ "skipped" \in Answer /\ "HOLD" \in Statuses
    /\ "REJECTED" \in Statuses
BY DEF Answer, Statuses

LEMMA AnswerWorks ==
    ASSUME NEW w \in Workers, run[w].step \in Names, NEW s, Answered(w, s),
           RunInv(s), Alike(run[w], s), s.step # "idle"
    PROVE  Works(w)
BY DEF Works, Answered

LEMMA GatherWorks == ASSUME RunsInv, NEW w \in Workers, Gather(w) PROVE Works(w)
<1>1. RunInv(run[w]) /\ Answered(w, Passes(run[w], "success"))
      /\ run[w].step \in {"market_data", "technical", "strategy", "portfolio", "position_manager"}
  BY DEF RunsInv, Gather, At
<1>2. run[w].step \in Names \ {"execution"} /\ run[w].step # "decision" /\ run[w].step # "risk"
  BY <1>1 DEF Names
<1> QED
  BY <1>1, <1>2, Words, OnlyPasses, AnswerWorks

(* Without a reviewer the run goes on to the risk step, with the reviewer's skipped.   *)
LEMMA UnreviewedRun ==
    ASSUME NEW r, RunInv(r), r.step = "decision", r.steps[2][2] = "success"
    PROVE  LET s == [Recorded(r, "success") EXCEPT
                        !.steps = Skipped(@, Place("ai_review")), !.step = "risk"]
           IN  RunInv(s) /\ Alike(r, s) /\ s.step = "risk"
<1> DEFINE t == Recorded(r, "success")
           z == Skipped(t.steps, 5)
           s == [t EXCEPT !.steps = z, !.step = "risk"]
<1>1. /\ Under(r) /\ r.trade = "none" /\ Place(r.step) = 4 /\ Len(r.steps) = 3
      /\ (r.opened > 0 => r.cut)
  <2>1. r.step \in Names /\ Place(r.step) = 4 /\ 4 - 1 = 3
    BY Places DEF Names
  <2> QED
    BY <2>1 DEF RunInv, Under
<1>2. /\ t \in Run /\ Same(r, t) /\ Len(t.steps) = 4 /\ InOrder(t.steps)
      /\ t.steps[4] = <<"decision", "success">>
      /\ \A i \in 1 .. 3 : t.steps[i] = r.steps[i]
  <2>1. /\ t \in Run /\ Same(r, t) /\ Len(t.steps) = Place(r.step) /\ InOrder(t.steps)
        /\ t.steps[Place(r.step)] = <<r.step, "success">>
        /\ \A i \in 1 .. Place(r.step) - 1 : t.steps[i] = r.steps[i]
    BY <1>1, Words, RecordedRun DEF Under
  <2>2. 4 - 1 = 3
    OBVIOUS
  <2> HIDE DEF t
  <2> QED
    BY <1>1, <2>1, <2>2
<1> HIDE DEF t
<1>3. /\ z \in Steps /\ InOrder(z) /\ Len(z) = 5 /\ z[5] = <<"ai_review", "skipped">>
      /\ \A i \in 1 .. 4 : z[i] = t.steps[i]
  <2>1. t.steps \in Steps /\ 5 \in 0 .. 10 /\ 4 <= 5 /\ 4 + 1 = 5
    BY <1>2 DEF Run
  <2>2. /\ z \in Steps /\ InOrder(z) /\ Len(z) = 5
        /\ \A i \in 1 .. Len(t.steps) : z[i] = t.steps[i]
        /\ \A i \in Len(t.steps) + 1 .. 5 : z[i] = <<StepNames[i], "skipped">>
    BY <1>2, <2>1, SkippedSteps
  <2>3. 5 \in Len(t.steps) + 1 .. 5
    BY <1>2
  <2> HIDE DEF z
  <2> QED
    BY <1>2, <2>2, <2>3, StepTable
<1> HIDE DEF z
<1>4. s \in Run
  <2>1. "risk" \in Names
    BY DEF Names
  <2> QED
    BY <1>2, <1>3, <2>1, RunSkipsTo
<1>5. Same(t, s) /\ s.step = "risk" /\ s.steps = z
  BY <1>2 DEF Run, Same
<1>6. Same(r, s)
  BY <1>2, <1>5 DEF Same
<1> HIDE DEF s
<1>7. Good(z)
  <2> SUFFICES ASSUME NEW i \in DOMAIN z
               PROVE  z[i][2] = "success" \/ i \in {3, 5} \/ (i = 2 /\ Len(z) < 4)
    BY DEF Good
  <2>1. i \in 1 .. 5
    BY <1>3 DEF Steps
  <2>2. CASE i = 4
    BY <1>2, <1>3, <2>2
  <2>3. CASE i = 1 \/ i = 2
    <3>1. i \in 1 .. 4 /\ i \in 1 .. 3 /\ i \in DOMAIN r.steps
      BY <1>1, <2>3 DEF Under, Run, Steps
    <3>2. z[i] = r.steps[i]
      BY <1>2, <1>3, <3>1
    <3>3. r.steps[i][2] = "success" \/ i = 2
      BY <1>1, <2>3, <3>1 DEF Under, Good
    <3> QED
      BY <2>3, <3>2, <3>3
  <2> QED
    BY <2>1, <2>2, <2>3
<1>8. Placed(s)
  <2>1. r.opened = 0
    BY <1>1 DEF Under, Placed, Run
  <2>2. r.kind # "none" /\ (r.kind = "manual" => r.coins = {}) /\ r.coin \in Coins
    BY <1>1 DEF Under, Placed
  <2> QED
    BY <1>5, <1>6, <2>1, <2>2 DEF Placed, Same, Late
<1>9. InOrder(s.steps) /\ Good(s.steps) /\ Len(s.steps) = 5 /\ Place("risk") - 1 = 5
  BY <1>3, <1>5, <1>7, Places
<1>10. RunInv(s)
  BY <1>1, <1>4, <1>5, <1>6, <1>8, <1>9 DEF RunInv, Same
<1>11. [Recorded(r, "success") EXCEPT !.steps = Skipped(@, Place("ai_review")), !.step = "risk"] = s
  BY Places DEF s, t, z
<1> QED
  BY <1>5, <1>6, <1>10, <1>11 DEF Same, Alike

LEMMA DecideWorks == ASSUME RunsInv, NEW w \in Workers, Decide(w) PROVE Works(w)
<1>1. RunInv(run[w]) /\ run[w].step = "decision"
  BY DEF RunsInv, Decide, At
<1>2. run[w].step \in Names \ {"execution"} /\ run[w].step # "risk"
  BY <1>1 DEF Names
<1>3. CASE Answered(w, Stops(run[w], "success", "HOLD"))
  BY <1>1, <1>2, <1>3, Words, OnlyStops, AnswerWorks
<1>4. CASE run[w].steps[2][2] = "success" /\ Answered(w, Passes(run[w], "success"))
  BY <1>1, <1>2, <1>4, Words, OnlyPasses, AnswerWorks
<1>5. CASE /\ run[w].steps[2][2] = "success"
           /\ Answered(w, [Recorded(run[w], "success") EXCEPT
                               !.steps = Skipped(@, Place("ai_review")), !.step = "risk"])
  <2> DEFINE s == [Recorded(run[w], "success") EXCEPT
                      !.steps = Skipped(@, Place("ai_review")), !.step = "risk"]
  <2>1. RunInv(s) /\ Alike(run[w], s) /\ s.step = "risk" /\ Answered(w, s)
    BY <1>1, <1>5, UnreviewedRun
  <2> HIDE DEF s
  <2> QED
    BY <1>2, <2>1, AnswerWorks
<1> QED
  BY <1>3, <1>4, <1>5 DEF Decide

LEMMA ReviewWorks == ASSUME RunsInv, NEW w \in Workers, Review(w) PROVE Works(w)
<1>1. RunInv(run[w]) /\ run[w].step = "ai_review"
  BY DEF RunsInv, Review, At
<1>2. run[w].step \in Names \ {"execution"}
  BY <1>1 DEF Names
<1>3. CASE Answered(w, Stops(run[w], "success", "HOLD"))
  BY <1>1, <1>2, <1>3, Words, OnlyStops, AnswerWorks
<1>4. CASE Answered(w, Passes(run[w], "success"))
  BY <1>1, <1>2, <1>4, Words, OnlyPasses, AnswerWorks
<1> QED
  BY <1>3, <1>4 DEF Review

LEMMA RiskWorks == ASSUME RunsInv, NEW w \in Workers, Risk(w) PROVE Works(w)
<1>1. RunInv(run[w]) /\ run[w].step = "risk"
  BY DEF RunsInv, Risk, At
<1>2. run[w].step \in Names \ {"execution"} /\ run[w].step # "decision"
  BY <1>1 DEF Names
<1>3. CASE Permits(run[w]) /\ Answered(w, Passes(run[w], "success"))
  <2>1. Free(run[w])
    BY <1>3 DEF Permits, Free
  <2> QED
    BY <1>1, <1>2, <1>3, <2>1, Words, OnlyPasses, AnswerWorks
<1>4. CASE Answered(w, Stops(run[w], "success", "HOLD"))
  BY <1>1, <1>2, <1>4, Words, OnlyStops, AnswerWorks
<1>5. CASE Goes(w, Stops(run[w], "success", "HOLD"))
  BY <1>1, <1>2, <1>5, Words, OnlyStops DEF Works
<1> QED
  BY <1>3, <1>4, <1>5 DEF Risk

LEMMA FinalRun ==
    ASSUME NEW r, RunInv(r), r.step # "commit", NEW final \in {"HOLD", "LONG"}
    PROVE  LET s == [r EXCEPT !.final = final]
           IN  RunInv(s) /\ Alike(r, s) /\ s.step = r.step
<1> DEFINE s == [r EXCEPT !.final = final]
<1>1. s \in Run
  BY RunFinal DEF RunInv
<1>2. Same(r, s) /\ s.step = r.step /\ s.steps = r.steps
  BY DEF RunInv, Run, Same
<1> HIDE DEF s
<1>3. Placed(s)
  BY <1>2 DEF RunInv, Placed, Same, Free
<1> QED
  BY <1>1, <1>2, <1>3 DEF RunInv, Same, Alike, s

LEMMA FinalDecisionWorks == ASSUME RunsInv, NEW w \in Workers, FinalDecision(w) PROVE Works(w)
<1>1. RunInv(run[w]) /\ run[w].step = "final_decision"
  BY DEF RunsInv, FinalDecision, At
<1>2. run[w].step \in Names \ {"execution"}
  BY <1>1 DEF Names
<1>3. CASE Answered(w, Stops(run[w], "success", "HOLD"))
  BY <1>1, <1>2, <1>3, Words, OnlyStops, AnswerWorks
<1>4. CASE Answered(w, [Passes(run[w], "success") EXCEPT !.final = "LONG"])
  <2> DEFINE p == Passes(run[w], "success")
             s == [p EXCEPT !.final = "LONG"]
  <2>1. RunInv(p) /\ Same(run[w], p) /\ p.step = StepNames[Place(run[w].step) + 1]
    BY <1>1, <1>2, Words, PassesRun
  <2>2. p.step = "portfolio"
    BY <1>1, <2>1, StepTable, Places
  <2>3. Answered(w, s)
    BY <1>4
  <2> HIDE DEF p
  <2>4. RunInv(s) /\ Alike(p, s) /\ s.step = "portfolio"
    BY <2>1, <2>2, FinalRun
  <2> HIDE DEF s
  <2>5. Alike(run[w], s)
    BY <2>1, <2>4 DEF Same, Alike
  <2> QED
    BY <1>2, <2>3, <2>4, <2>5, AnswerWorks
<1> QED
  BY <1>3, <1>4 DEF FinalDecision

LEMMA PortfolioRefusesWorks ==
    ASSUME RunsInv, NEW w \in Workers, PortfolioRefuses(w) PROVE Works(w)
<1>1. RunInv(run[w]) /\ run[w].step = "portfolio"
  BY DEF RunsInv, PortfolioRefuses, At
<1>2. run[w].step \in Names
  BY <1>1 DEF Names
<1> QED
  BY <1>1, <1>2, Words, OnlyStops, AnswerWorks DEF PortfolioRefuses

--------------------------------------------------------------------------------
(* Execution.                                                                          *)

(* At execution: a run that completes with the given trade.                            *)
LEMMA Executed ==
    ASSUME RunsInv, NEW w \in Workers, At(w, "execution"),
           NEW trade \in {"refused", "open", "closed", "stuck"},
           NEW s \in Run, But(Completed(run[w], trade), s),
           s.opened > 0 /\ ~s.cut => trade \in {"open", "stuck"}, Goes(w, s)
    PROVE  Works(w)
<1>1. RunInv(run[w]) /\ run[w].step = "execution"
  BY DEF RunsInv, At
<1>2. RunInv(s) /\ s.step = "commit" /\ Alike(run[w], s)
  BY <1>1, ClosesRun
<1>3. run[w].step \in Names
  BY <1>1 DEF Names
<1> QED
  BY <1>2, <1>3 DEF Works

LEMMA ExecutionWorks ==
    ASSUME RunsInv, NEW w \in Workers,
           Refused(w) \/ ShadowFills(w) \/ LiveFills(w) \/ EmergencyCloses(w)
    PROVE  Works(w)
<1>1. At(w, "execution") /\ RunInv(run[w]) /\ run[w].step = "execution" /\ run[w] \in Run
  BY DEF RunsInv, RunInv, Refused, ShadowFills, LiveFills, EmergencyCloses, At
<1>2. run[w].kind = "cycle" => Free(run[w])
  BY <1>1 DEF RunInv, Placed, Late
<1>3. \A trade \in {"refused", "open", "closed", "stuck"} :
         /\ Completed(run[w], trade) \in Run
         /\ Completed(run[w], trade).opened = run[w].opened
         /\ Completed(run[w], trade).cut = run[w].cut
  <2> SUFFICES ASSUME NEW trade \in {"refused", "open", "closed", "stuck"}
               PROVE  /\ Completed(run[w], trade) \in Run
                      /\ Completed(run[w], trade).opened = run[w].opened
                      /\ Completed(run[w], trade).cut = run[w].cut
    OBVIOUS
  <2> QED
    BY <1>1, CompletedRun
<1>4. run[w].opened \in Nat /\ run[w].cut \in BOOLEAN /\ (run[w].opened > 0 => run[w].cut)
  BY <1>1 DEF RunInv, Run
<1>5. ASSUME NEW trade \in {"refused", "closed"}, Goes(w, Completed(run[w], trade)) PROVE Works(w)
  <2>1. But(Completed(run[w], trade), Completed(run[w], trade))
    BY DEF But, Alike
  <2> QED
    BY <1>1, <1>3, <1>4, <1>5, <2>1, Executed
<1>6. CASE Refused(w)
  BY <1>5, <1>6 DEF Refused, Answered
<1>7. CASE EmergencyCloses(w)
  BY <1>5, <1>7 DEF EmergencyCloses
<1>8. CASE ShadowFills(w)
  <2> DEFINE c == Completed(run[w], "open")
             s == [c EXCEPT !.opened = 1]
  <2>1. Goes(w, s) /\ c \in Run
    BY <1>3, <1>8 DEF ShadowFills, Answered
  <2> HIDE DEF c
  <2>2. s \in Run
    <3>1. 1 \in Nat
      OBVIOUS
    <3> QED
      BY <2>1, <3>1, RunOpens
  <2>3. But(c, s)
    BY <2>1 DEF Run, But, Alike
  <2> HIDE DEF s
  <2> QED
    BY <1>1, <2>1, <2>2, <2>3, Executed DEF c
<1>9. CASE LiveFills(w)
  <2>1. PICK trade \in {"open", "stuck", "refused"} :
          Goes(w, [Completed(run[w], trade) EXCEPT !.opened = @ + 1, !.cut = @ \/ trade = "refused"])
    BY <1>9 DEF LiveFills
  <2> DEFINE c == Completed(run[w], trade)
             s == [c EXCEPT !.opened = @ + 1, !.cut = @ \/ trade = "refused"]
  <2>2. Goes(w, s) /\ c \in Run /\ c.opened \in Nat /\ c.cut \in BOOLEAN
    BY <1>3, <1>4, <2>1
  <2> HIDE DEF c
  <2>3. s \in Run
    <3> DEFINE n == c.opened + 1
               cut == c.cut \/ trade = "refused"
    <3>1. n \in Nat /\ cut \in BOOLEAN
      BY <2>2
    <3>2. s = [c EXCEPT !.opened = n, !.cut = cut]
      OBVIOUS
    <3> HIDE DEF n, cut, s
    <3> QED
      BY <2>2, <3>1, <3>2, RunOpens
  <2>4. But(c, s) /\ (trade = "refused" => s.cut)
    BY <2>2 DEF Run, But, Alike
  <2> HIDE DEF s
  <2> QED
    BY <1>1, <2>2, <2>3, <2>4, Executed DEF c
<1> QED
  BY <1>6, <1>7, <1>8, <1>9

(* An attempt that fails, also one that had ordered.                                   *)
LEMMA AttemptFailsWorks == ASSUME RunsInv, NEW w \in Workers, AttemptFails(w) PROVE Works(w)
<1>1. RunInv(run[w]) /\ run[w].step \in Names
  BY StepTable DEF RunsInv, AttemptFails
<1>2. CASE Goes(w, Attempts(run[w]))
  <2>1. RunInv(Attempts(run[w])) /\ Same(run[w], Attempts(run[w])) /\ Attempts(run[w]).step # "idle"
    BY <1>1, AttemptsRun
  <2> QED
    BY <1>1, <1>2, <2>1 DEF Works, Same, Alike
<1>3. CASE At(w, "execution") /\ Goes(w, Attempts([run[w] EXCEPT !.cut = TRUE, !.opened = @ + 1]))
  <2> DEFINE r == [run[w] EXCEPT !.cut = TRUE, !.opened = run[w].opened + 1]
  <2>1. run[w] \in Run /\ run[w].opened + 1 \in Nat /\ TRUE \in BOOLEAN
    BY <1>1 DEF RunInv, Run
  <2>2. r \in Run
    BY <2>1, RunOpens
  <2>3. /\ Alike(run[w], r) /\ r.step = "execution" /\ r.steps = run[w].steps
        /\ r.trade = run[w].trade /\ r.cut = TRUE
    BY <1>3, <2>1 DEF Run, Alike, At
  <2>4. Goes(w, Attempts(r)) /\ run[w].step = "execution"
    BY <1>3 DEF At
  <2> HIDE DEF r
  <2>5. Placed(r)
    BY <1>1, <2>3, <2>4 DEF RunInv, Placed, Alike, Free, Late
  <2>6. RunInv(r) /\ r.step \in Names
    BY <1>1, <2>2, <2>3, <2>4, <2>5 DEF RunInv
  <2>7. RunInv(Attempts(r)) /\ Same(r, Attempts(r)) /\ Attempts(r).step # "idle"
    BY <2>6, AttemptsRun
  <2>8. Alike(run[w], Attempts(r))
    BY <2>3, <2>7 DEF Same, Alike
  <2> QED
    BY <1>1, <2>4, <2>7, <2>8 DEF Works
<1> QED
  BY <1>2, <1>3 DEF AttemptFails

--------------------------------------------------------------------------------
(* The beginning and the end of a run.                                                 *)

LEMMA NoRunIsRun ==
    /\ NoRun \in Run
    /\ NoRun.coins = {} /\ NoRun.step = "idle" /\ NoRun.coin = "none" /\ NoRun.kind = "none"
    /\ NoRun.steps = <<>> /\ NoRun.seen = {} /\ NoRun.trade = "none" /\ NoRun.opened = 0
<1>1. <<>> \in Steps
  BY DEF Steps
<1>2. {} \in SUBSET Coins /\ 1 \in 1 .. 4 /\ 0 \in Nat
  OBVIOUS
<1>3. NoRun \in Run
  BY <1>1, <1>2, StepTable DEF NoRun, Run, Trades, Statuses, Rows
<1> QED
  BY <1>3 DEF NoRun

\* A worker between two runs.
LEMMA RestingRun ==
    ASSUME NEW coins \in SUBSET Coins, NEW kind \in {"none", "cycle", "manual"},
           NEW r, r \in Run, r.coins = coins, r.kind = kind, r.step = "idle", r.steps = <<>>,
           r.trade = "none", r.opened = 0,
           kind = "none" => coins = {},
           kind = "manual" /\ coins # {} => \E c \in Coins : coins = {c}
    PROVE  RunInv(r)
BY DEF RunInv, Placed, InOrder, Names, Late

LEMMA StartRuns ==
    ASSUME TypeOK, RunsInv, NEW w \in Workers, StartCycle(w) \/ StartManual(w)
    PROVE  \E s : /\ Goes(w, s) /\ RunInv(s) /\ s.step = "idle"
                  /\ StartCycle(w) => s.kind = "cycle"
<1>1. CASE StartCycle(w)
  <2> DEFINE s == [NoRun EXCEPT !.coins = Coins, !.kind = "cycle"]
  <2>1. s \in Run
    BY NoRunIsRun DEF Run
  <2>2. /\ s.coins = Coins /\ s.kind = "cycle" /\ s.step = "idle" /\ s.steps = <<>>
        /\ s.trade = "none" /\ s.opened = 0
    BY NoRunIsRun DEF Run
  <2>3. Goes(w, s)
    BY <1>1 DEF StartCycle, Goes
  <2> HIDE DEF s
  <2>4. RunInv(s)
    BY <2>1, <2>2, RestingRun
  <2> QED
    BY <2>2, <2>3, <2>4
<1>2. CASE StartManual(w)
  <2>1. PICK c \in Coins : run' = [run EXCEPT ![w] = [NoRun EXCEPT !.coins = {c}, !.kind = "manual",
                                                                !.active = active]]
    BY <1>2 DEF StartManual
  <2> DEFINE s == [NoRun EXCEPT !.coins = {c}, !.kind = "manual", !.active = active]
  <2>2. s \in Run
    BY NoRunIsRun DEF Run, TypeOK
  <2>3. /\ s.coins = {c} /\ s.kind = "manual" /\ s.step = "idle" /\ s.steps = <<>>
        /\ s.trade = "none" /\ s.opened = 0
    BY NoRunIsRun DEF Run
  <2>4. Goes(w, s)
    BY <2>1 DEF Goes
  <2> HIDE DEF s
  <2>5. RunInv(s)
    BY <2>2, <2>3, RestingRun
  <2> QED
    <3>1. ~StartCycle(w) \/ Goes(w, s)
      BY <2>4
    <3>2. CASE StartCycle(w)
      BY <1>1, <3>2
    <3> QED
      BY <2>3, <2>4, <2>5, <3>2
<1> QED
  BY <1>1, <1>2

LEMMA BeginRuns ==
    ASSUME TypeOK, RunsInv, NEW w \in Workers, Begin(w)
    PROVE  \E s : /\ Goes(w, s) /\ RunInv(s) /\ s.kind = run[w].kind /\ s.kind # "none"
                  /\ s.coin \in Coins /\ s.seen = Seen(run[w].kind)
                  /\ run[w].step = "idle" /\ run[w].coins # {}
<1>1. PICK c \in run[w].coins :
          run' = [run EXCEPT ![w] = [NoRun EXCEPT
                     !.coins = run[w].coins \ {c}, !.coin = c, !.kind = run[w].kind,
                     !.step = "market_data", !.active = run[w].active,
                     !.seen = Seen(run[w].kind)]]
  BY DEF Begin
<1> DEFINE coins == run[w].coins \ {c}
           kind == run[w].kind
           seen == Seen(kind)
           s == [NoRun EXCEPT !.coins = coins, !.coin = c, !.kind = kind,
                              !.step = "market_data", !.active = run[w].active, !.seen = seen]
<1>2. RunInv(run[w]) /\ run[w] \in Run /\ run[w].step = "idle"
  BY DEF RunsInv, RunInv, Begin
<1>3. /\ coins \in SUBSET Coins /\ c \in Coins /\ kind \in {"none", "cycle", "manual"}
      /\ run[w].active \in BOOLEAN
  BY <1>2 DEF Run
<1>4. seen \in SUBSET Coins
  BY DEF Seen, Held
<1>5. kind # "none" /\ (kind = "manual" => coins = {})
  BY <1>1, <1>2 DEF RunInv, Placed
<1>6. Goes(w, s)
  BY <1>1 DEF Goes
<1> HIDE DEF coins, kind, seen
<1>7. s \in Run
  BY <1>3, <1>4, NoRunIsRun, StepTable DEF Run, Names
<1>8. /\ s.coins = coins /\ s.coin = c /\ s.kind = kind /\ s.step = "market_data"
      /\ s.seen = seen /\ s.steps = <<>> /\ s.trade = "none" /\ s.opened = 0
  BY NoRunIsRun DEF Run
<1> HIDE DEF s
<1>9. Placed(s)
  BY <1>3, <1>5, <1>8 DEF Placed, Late
<1>10. InOrder(s.steps) /\ Good(s.steps) /\ Len(s.steps) = Place(s.step) - 1
  BY <1>8, Places DEF InOrder, Good
<1>11. RunInv(s)
  BY <1>7, <1>8, <1>9, <1>10 DEF RunInv
<1>12. s.kind = run[w].kind /\ s.seen = Seen(run[w].kind)
  BY <1>8 DEF kind, seen
<1> QED
  BY <1>1, <1>2, <1>3, <1>5, <1>6, <1>8, <1>11, <1>12

LEMMA FinishRuns ==
    ASSUME RunsInv, NEW w \in Workers, Finish(w)
    PROVE  \E s : /\ Goes(w, s) /\ RunInv(s) /\ s.step = "idle"
                  /\ s.kind = run[w].kind /\ s.coins = run[w].coins
<1> DEFINE s == [NoRun EXCEPT !.coins = run[w].coins, !.kind = run[w].kind,
                              !.active = run[w].active]
<1>1. RunInv(run[w]) /\ run[w] \in Run /\ run[w].step = "commit"
  BY DEF RunsInv, RunInv, Finish, At
<1>2. /\ run[w].coins \in SUBSET Coins /\ run[w].kind \in {"none", "cycle", "manual"}
      /\ run[w].active \in BOOLEAN
  BY <1>1 DEF Run
<1>3. s \in Run
  BY <1>2, NoRunIsRun DEF Run
<1>4. /\ s.coins = run[w].coins /\ s.kind = run[w].kind /\ s.step = "idle" /\ s.steps = <<>>
      /\ s.trade = "none" /\ s.opened = 0
  BY NoRunIsRun DEF Run
<1>5. Goes(w, s)
  BY DEF Finish
<1> HIDE DEF s
<1>6. run[w].kind # "none" /\ (run[w].kind = "manual" => run[w].coins = {})
  BY <1>1 DEF RunInv, Placed
<1>7. RunInv(s)
  BY <1>2, <1>3, <1>4, <1>6, RestingRun
<1> QED
  BY <1>4, <1>5, <1>7

LEMMA KilledRuns ==
    ASSUME NEW w \in Workers, Killed(w)
    PROVE  Goes(w, NoRun) /\ RunInv(NoRun)
<1>1. {} \in SUBSET Coins
  OBVIOUS
<1> QED
  BY <1>1, NoRunIsRun, RestingRun DEF Killed

--------------------------------------------------------------------------------
(* The whole state.                                                                    *)

LEMMA MovesRuns ==
    ASSUME RunsInv, NEW w \in Workers, NEW s, RunInv(s), Goes(w, s)
    PROVE  RunsInv'
<1>1. run' = [run EXCEPT ![w] = s] /\ run \in [Workers -> Run] /\ s \in Run
  BY DEF RunsInv, Goes, RunInv
<1>2. run' \in [Workers -> Run]
  BY <1>1
<1>3. ASSUME NEW v \in Workers PROVE RunInv(run'[v])
  BY <1>1 DEF RunsInv
<1> QED
  BY <1>2, <1>3 DEF RunsInv, RunInv, Placed, InOrder, Good, RowRight, Free

LEMMA StepWorks ==
    ASSUME RunsInv, NEW w \in Workers,
           \/ Gather(w) \/ Decide(w) \/ Review(w) \/ Risk(w) \/ FinalDecision(w)
           \/ PortfolioRefuses(w) \/ Refused(w) \/ ShadowFills(w) \/ LiveFills(w)
           \/ EmergencyCloses(w) \/ AttemptFails(w)
    PROVE  Works(w)
BY GatherWorks, DecideWorks, ReviewWorks, RiskWorks, FinalDecisionWorks, PortfolioRefusesWorks,
   ExecutionWorks, AttemptFailsWorks

LEMMA StepRuns == ASSUME TypeOK, RunsInv, NEW w \in Workers, Step(w) PROVE RunsInv'
<1>1. CASE StartCycle(w) \/ StartManual(w)
  BY <1>1, StartRuns, MovesRuns
<1>2. CASE Begin(w)
  BY <1>2, BeginRuns, MovesRuns
<1>3. CASE Finish(w)
  BY <1>3, FinishRuns, MovesRuns
<1>4. CASE Killed(w)
  BY <1>4, KilledRuns, MovesRuns
<1>5. CASE \/ Gather(w) \/ Decide(w) \/ Review(w) \/ Risk(w) \/ FinalDecision(w)
           \/ PortfolioRefuses(w) \/ Refused(w) \/ ShadowFills(w) \/ LiveFills(w)
           \/ EmergencyCloses(w) \/ AttemptFails(w)
  <2>1. Works(w)
    BY <1>5, StepWorks
  <2> QED
    BY <2>1, MovesRuns DEF Works
<1> QED
  BY <1>1, <1>2, <1>3, <1>4, <1>5 DEF Step

(* Everything but the runs.                                                            *)
WorldOK ==
    /\ mode \in [live : BOOLEAN, shadow : BOOLEAN, review : BOOLEAN]
    /\ active \in BOOLEAN /\ halted \in {"none", "switch", "risk"}
    /\ shut \subseteq Workers /\ open \in [Coins -> Nat] /\ losses \in Nat
    /\ faults \in 0 .. MaxFaults /\ cycles \in 0 .. MaxCycles
    /\ manual \in 0 .. MaxManual /\ events \in 0 .. MaxEvents

LEMMA TypesOfWorld == TypeOK <=> WorldOK /\ run \in [Workers -> Run]
BY DEF TypeOK, WorldOK

LEMMA BoughtOK ==
    ASSUME WorldOK, RunsInv, NEW w \in Workers, run[w].step # "idle", Bought(w)
    PROVE  open' \in [Coins -> Nat]
<1>1. run[w].coin \in Coins
  BY DEF RunsInv, RunInv, Placed
<1> QED
  BY <1>1 DEF Bought, WorldOK

LEMMA AnsweredOK ==
    ASSUME WorldOK, NEW w, NEW s, Answered(w, s) PROVE WorldOK'
BY DEF Answered, WorldRests, WorldOK

LEMMA TakenOK ==
    ASSUME NEW max \in Nat, NEW n \in 0 .. max, n < max PROVE n + 1 \in 0 .. max
OBVIOUS

LEMMA StepWorld == ASSUME WorldOK, RunsInv, NEW w \in Workers, Step(w) PROVE WorldOK'
<1>1. /\ faults < MaxFaults => faults + 1 \in 0 .. MaxFaults
      /\ cycles < MaxCycles => cycles + 1 \in 0 .. MaxCycles
      /\ manual < MaxManual => manual + 1 \in 0 .. MaxManual
      /\ events < MaxEvents => events + 1 \in 0 .. MaxEvents
      /\ losses + 1 \in Nat
  BY BoundsAssumption, TakenOK DEF WorldOK
<1>2. CASE StartCycle(w)
  BY <1>1, <1>2 DEF StartCycle, WorldOK
<1>3. CASE StartManual(w)
  BY <1>1, <1>3 DEF StartManual, WorldOK
<1>4. CASE Begin(w)
  BY <1>4 DEF Begin, WorldOK
<1>5. CASE Gather(w)
  BY <1>5, AnsweredOK DEF Gather
<1>6. CASE Decide(w)
  BY <1>6, AnsweredOK DEF Decide
<1>7. CASE Review(w)
  BY <1>7, AnsweredOK DEF Review
<1>8. CASE Risk(w)
  <2>1. CASE Answered(w, Passes(run[w], "success")) \/ Answered(w, Stops(run[w], "success", "HOLD"))
    BY <2>1, AnsweredOK
  <2>2. CASE /\ events < MaxEvents /\ halted' \in {"switch", "risk"} /\ events' = events + 1
             /\ UNCHANGED <<mode, active, shut, open, losses, faults, manual, cycles>>
    BY <1>1, <2>2 DEF WorldOK
  <2> QED
    BY <1>8, <2>1, <2>2 DEF Risk
<1>9. CASE FinalDecision(w)
  BY <1>9, AnsweredOK DEF FinalDecision
<1>10. CASE PortfolioRefuses(w)
  BY <1>10, AnsweredOK DEF PortfolioRefuses
<1>11. CASE Refused(w)
  BY <1>11, AnsweredOK DEF Refused
<1>12. CASE ShadowFills(w)
  BY <1>12, AnsweredOK DEF ShadowFills
<1>13. CASE LiveFills(w)
  <2>1. run[w].step # "idle" /\ Bought(w)
    BY <1>13 DEF LiveFills, At
  <2>2. open' \in [Coins -> Nat]
    BY <2>1, BoughtOK
  <2>3. faults' \in 0 .. MaxFaults
    BY <1>1, <1>13 DEF LiveFills, WorldOK
  <2>4. UNCHANGED <<mode, active, halted, shut, losses, manual, events, cycles>>
    BY <1>13 DEF LiveFills
  <2> QED
    BY <2>2, <2>3, <2>4 DEF WorldOK
<1>14. CASE EmergencyCloses(w)
  <2>1. halted' \in {"switch", halted} /\ active' \in BOOLEAN /\ losses' = losses + 1
        /\ faults < MaxFaults /\ faults' = faults + 1
        /\ UNCHANGED <<mode, shut, open, manual, events, cycles>>
    BY <1>14 DEF EmergencyCloses
  <2> QED
    BY <1>1, <2>1 DEF WorldOK
<1>15. CASE AttemptFails(w)
  <2>1. open' \in [Coins -> Nat]
    <3>1. CASE UNCHANGED open
      BY <3>1 DEF WorldOK
    <3>2. CASE At(w, "execution") /\ Bought(w)
      BY <3>2, BoughtOK DEF At
    <3> QED
      BY <1>15, <3>1, <3>2 DEF AttemptFails
  <2>2. faults' \in 0 .. MaxFaults
    BY <1>1, <1>15 DEF AttemptFails, WorldOK
  <2>3. UNCHANGED <<mode, active, halted, shut, losses, manual, events, cycles>>
    BY <1>15 DEF AttemptFails
  <2> QED
    BY <2>1, <2>2, <2>3 DEF WorldOK
<1>16. CASE Finish(w)
  <2>1. open' \in [Coins -> Nat]
    <3>1. CASE UNCHANGED open
      BY <3>1 DEF WorldOK
    <3>2. CASE At(w, "commit") /\ Bought(w)
      BY <3>2, BoughtOK DEF At
    <3> QED
      BY <1>16, <3>1, <3>2 DEF Finish
  <2>2. faults' \in 0 .. MaxFaults
    BY <1>1, <1>16 DEF Finish, WorldOK
  <2>3. UNCHANGED <<mode, active, halted, shut, losses, manual, events, cycles>>
    BY <1>16 DEF Finish
  <2> QED
    BY <2>1, <2>2, <2>3 DEF WorldOK
<1>17. CASE Killed(w)
  BY <1>1, <1>17 DEF Killed, WorldOK
<1> QED
  BY <1>2, <1>3, <1>4, <1>5, <1>6, <1>7, <1>8, <1>9, <1>10, <1>11, <1>12, <1>13, <1>14, <1>15, <1>16,
     <1>17 DEF Step

LEMMA OutsideWorld == ASSUME WorldOK, Outside PROVE WorldOK'
<1>1. events' \in 0 .. MaxEvents
  BY BoundsAssumption, TakenOK DEF WorldOK, Outside
<1>2. UNCHANGED <<mode, losses, faults, manual, cycles>>
  BY DEF Outside
<1>3. CASE active' = ~active /\ UNCHANGED <<halted, shut, open>>
  BY <1>1, <1>2, <1>3 DEF WorldOK
<1>4. CASE halted' = "none" /\ shut' = {} /\ UNCHANGED <<active, open>>
  BY <1>1, <1>2, <1>4 DEF WorldOK
<1>5. CASE \E c \in Held : open' = [open EXCEPT ![c] = @ - 1] /\ UNCHANGED <<active, halted, shut>>
  <2>1. PICK c \in Held : open' = [open EXCEPT ![c] = @ - 1] /\ UNCHANGED <<active, halted, shut>>
    BY <1>5
  <2>2. c \in Coins /\ open[c] \in Nat /\ open[c] - 1 \in Nat
    BY DEF Held, WorldOK
  <2>3. open' \in [Coins -> Nat]
    BY <2>1, <2>2 DEF WorldOK
  <2> QED
    BY <1>1, <1>2, <2>1, <2>3 DEF WorldOK
<1> QED
  BY <1>3, <1>4, <1>5 DEF Outside

RunsRight == WorldOK /\ RunsInv

LEMMA RunsStart == ASSUME Init PROVE RunsRight
<1>1. WorldOK
  BY BoundsAssumption DEF Init, WorldOK
<1>2. RunInv(NoRun)
  <2>1. {} \in SUBSET Coins
    OBVIOUS
  <2> QED
    BY <2>1, NoRunIsRun, RestingRun
<1>3. RunsInv
  BY <1>2, NoRunIsRun DEF Init, RunsInv
<1> QED
  BY <1>1, <1>3 DEF RunsRight

LEMMA RunsKept == ASSUME RunsRight, [Next]_vars PROVE RunsRight'
<1>1. WorldOK /\ RunsInv /\ TypeOK
  BY TypesOfWorld DEF RunsRight, RunsInv
<1>2. ASSUME NEW w \in Workers, Step(w) PROVE RunsRight'
  BY <1>1, <1>2, StepRuns, StepWorld DEF RunsRight
<1>3. CASE Outside
  <2>1. run' = run
    BY <1>3 DEF Outside
  <2>2. RunsInv'
    BY <1>1, <2>1 DEF RunsInv, RunInv, Placed, InOrder, Good, RowRight, Free
  <2> QED
    BY <1>1, <1>3, <2>2, OutsideWorld DEF RunsRight
<1>4. CASE UNCHANGED vars
  BY <1>1, <1>4 DEF vars, RunsRight, WorldOK, RunsInv, RunInv, Placed, InOrder, Good, RowRight, Free
<1> QED
  BY <1>2, <1>3, <1>4 DEF Next

(* Every worker's run is as far as its recorded steps say, has a snapshot with room for *)
(* its coin once it is past the risk step, and has an order only at the end.            *)
THEOREM RunsInvariance == Spec => []RunsRight
<1>1. Init => RunsRight
  BY RunsStart
<1>2. RunsRight /\ [Next]_vars => RunsRight'
  BY RunsKept
<1> QED
  BY <1>1, <1>2, PTL DEF Spec

(* The types of what _log_decision and the agents' runner keep of a run.                *)
THEOREM PipelineTypes == Spec => []TypeOK
<1>1. RunsRight => TypeOK
  BY TypesOfWorld DEF RunsRight, RunsInv
<1> QED
  BY <1>1, RunsInvariance, PTL

(* The row that is written tells what became of the order, whichever step ended the     *)
(* run: _decision_outcome looks at the order before the stage.                          *)
THEOREM RowTells == Spec => []RowTellsTheTrade
<1>1. ASSUME RunsRight PROVE RowTellsTheTrade
  <2> SUFFICES ASSUME NEW w \in Workers, run[w].step = "commit" PROVE RowRight(run[w])
    BY DEF RowTellsTheTrade, RowRight
  <2> QED
    BY <1>1 DEF RunsRight, RunsInv, RunInv
<1> QED
  BY <1>1, RunsInvariance, PTL

--------------------------------------------------------------------------------
(* The limit of open positions: who may still open one, and who has bought.  A          *)
(* scheduled run that has read a snapshot with room for its coin may open one; a manual *)
(* run may, whatever there is.                                                          *)

Scheduled(r) == r.kind = "cycle" /\ r.step # "idle" /\ Free(r)
Asked(r)     == r.kind = "manual" /\ (r.step # "idle" \/ r.coins # {})

N == Cardinality(Workers)

DueOf(r, c) == IF Scheduled(r) /\ r.coin = c THEN 1 ELSE 0
AnyOf(r)    == IF Scheduled(r) THEN 1 ELSE 0
AskedOf(r)  == IF Asked(r) THEN 1 ELSE 0

DueBy(R, c) == [w \in Workers |-> DueOf(R[w], c)]
AnyBy(R)    == [w \in Workers |-> AnyOf(R[w])]
AskedBy(R)  == [w \in Workers |-> AskedOf(R[w])]

Due(R, c)   == SumFunctionOnSet(DueBy(R, c), Workers)
AllDue(R)   == SumFunctionOnSet(AnyBy(R), Workers)
AllAsked(R) == SumFunctionOnSet(AskedBy(R), Workers)

\* m: how many positions of each coin manual runs have opened.  Those the scheduled    *
\* runs opened and may still open are at most one for each worker and coin; and with    *
\* what they and the manual runs may still open the positions are within the bound.
Room(R, positions, asked, m) ==
    /\ \A c \in Coins : positions[c] + Due(R, c) <= N + m[c]
    /\ SumFunctionOnSet(m, Coins) + AllAsked(R) <= asked
    /\ SumFunctionOnSet(positions, Coins) + AllDue(R) + AllAsked(R) <= MaxOpen * N + asked

HasRoom(R, positions, asked) == \E m \in [Coins -> Nat] : Room(R, positions, asked, m)

\* The run of w becomes s.
Becomes(R, Q, w, s) == Q[w] = s /\ \A v \in Workers \ {w} : Q[v] = R[v]

LEMMA Counted ==
    ASSUME NEW R
    PROVE  /\ N \in Nat /\ AllDue(R) \in Nat /\ AllDue(R) <= N /\ AllAsked(R) \in Nat
           /\ \A c : Due(R, c) \in Nat /\ Due(R, c) <= N
<1>1. IsFiniteSet(Workers) /\ N \in Nat
  BY CoinsAssumption, FS_CardinalityType DEF N
<1>2. 1 * N = N /\ 1 \in Int
  BY <1>1
<1>3. \A w \in Workers : AnyBy(R)[w] \in 0 .. 1
  BY DEF AnyBy, AnyOf
<1>4. \A w \in Workers : AskedBy(R)[w] \in 0 .. 1
  BY DEF AskedBy, AskedOf
<1>5. AllAsked(R) \in Nat
  <2> DEFINE f == AskedBy(R)
  <2>1. \A w \in Workers : f[w] \in Nat
    BY <1>4
  <2> HIDE DEF f
  <2>2. SumFunctionOnSet(f, Workers) \in Nat
    BY <1>1, <2>1, SumIsNatural
  <2> QED
    BY <2>2 DEF AllAsked, f
<1>6. AllDue(R) \in Nat /\ AllDue(R) <= N
  <2> DEFINE f == AnyBy(R)
  <2>1. \A w \in Workers : f[w] \in Nat /\ f[w] \in Int /\ f[w] <= 1
    BY <1>3
  <2> HIDE DEF f
  <2>2. SumFunctionOnSet(f, Workers) \in Nat
    BY <1>1, <2>1, SumIsNatural
  <2>3. SumFunctionOnSet(f, Workers) <= 1 * N
    BY <1>1, <1>2, <2>1, SumOfAtMost DEF N
  <2> QED
    BY <1>2, <2>2, <2>3 DEF AllDue, f
<1>7. ASSUME NEW c PROVE Due(R, c) \in Nat /\ Due(R, c) <= N
  <2> DEFINE f == DueBy(R, c)
  <2>1. \A w \in Workers : f[w] \in Nat /\ f[w] \in Int /\ f[w] <= 1
    BY DEF DueBy, DueOf
  <2> HIDE DEF f
  <2>2. SumFunctionOnSet(f, Workers) \in Nat
    BY <1>1, <2>1, SumIsNatural
  <2>3. SumFunctionOnSet(f, Workers) <= 1 * N
    BY <1>1, <1>2, <2>1, SumOfAtMost DEF N
  <2> QED
    BY <1>2, <2>2, <2>3 DEF Due, f
<1> QED
  BY <1>1, <1>5, <1>6, <1>7

(* One run moves: the counts change by what it counts for.                              *)
LEMMA Recounted ==
    ASSUME NEW R, NEW Q, NEW w \in Workers, NEW s, Becomes(R, Q, w, s)
    PROVE  /\ \A c : Due(Q, c) = Due(R, c) - DueBy(R, c)[w] + DueBy(Q, c)[w]
           /\ AllDue(Q) = AllDue(R) - AnyBy(R)[w] + AnyBy(Q)[w]
           /\ AllAsked(Q) = AllAsked(R) - AskedBy(R)[w] + AskedBy(Q)[w]
<1>1. IsFiniteSet(Workers)
  BY CoinsAssumption
<1>2. \A v \in Workers \ {w} : Q[v] = R[v]
  BY DEF Becomes
<1>3. ASSUME NEW c PROVE Due(Q, c) = Due(R, c) - DueBy(R, c)[w] + DueBy(Q, c)[w]
  <2> DEFINE f == DueBy(Q, c)
             g == DueBy(R, c)
  <2>1. \A v \in Workers : f[v] \in Int /\ g[v] \in Int
    BY DEF DueBy, DueOf
  <2>2. \A v \in Workers \ {w} : f[v] = g[v]
    BY <1>2 DEF DueBy
  <2> HIDE DEF f, g
  <2>3. SumFunctionOnSet(f, Workers) = SumFunctionOnSet(g, Workers) - g[w] + f[w]
    BY <1>1, <2>1, <2>2, SumOfChanged
  <2> QED
    BY <2>3 DEF Due, f, g
<1>4. AllDue(Q) = AllDue(R) - AnyBy(R)[w] + AnyBy(Q)[w]
  <2> DEFINE f == AnyBy(Q)
             g == AnyBy(R)
  <2>1. \A v \in Workers : f[v] \in Int /\ g[v] \in Int
    BY DEF AnyBy, AnyOf
  <2>2. \A v \in Workers \ {w} : f[v] = g[v]
    BY <1>2 DEF AnyBy
  <2> HIDE DEF f, g
  <2>3. SumFunctionOnSet(f, Workers) = SumFunctionOnSet(g, Workers) - g[w] + f[w]
    BY <1>1, <2>1, <2>2, SumOfChanged
  <2> QED
    BY <2>3 DEF AllDue, f, g
<1>5. AllAsked(Q) = AllAsked(R) - AskedBy(R)[w] + AskedBy(Q)[w]
  <2> DEFINE f == AskedBy(Q)
             g == AskedBy(R)
  <2>1. \A v \in Workers : f[v] \in Int /\ g[v] \in Int
    BY DEF AskedBy, AskedOf
  <2>2. \A v \in Workers \ {w} : f[v] = g[v]
    BY <1>2 DEF AskedBy
  <2> HIDE DEF f, g
  <2>3. SumFunctionOnSet(f, Workers) = SumFunctionOnSet(g, Workers) - g[w] + f[w]
    BY <1>1, <2>1, <2>2, SumOfChanged
  <2> QED
    BY <2>3 DEF AllAsked, f, g
<1> QED
  BY <1>3, <1>4, <1>5

(* What that comes to: the worker's own part is taken out and put in again.             *)
LEMMA Moved ==
    ASSUME NEW R, NEW Q, NEW w \in Workers, NEW s, Becomes(R, Q, w, s)
    PROVE  /\ \A c : Due(Q, c) = Due(R, c) - DueOf(R[w], c) + DueOf(s, c)
           /\ AllDue(Q) = AllDue(R) - AnyOf(R[w]) + AnyOf(s)
           /\ AllAsked(Q) = AllAsked(R) - AskedOf(R[w]) + AskedOf(s)
<1>1. Q[w] = s
  BY DEF Becomes
<1>2. \A c : DueBy(R, c)[w] = DueOf(R[w], c) /\ DueBy(Q, c)[w] = DueOf(s, c)
  BY <1>1 DEF DueBy
<1>3. AnyBy(R)[w] = AnyOf(R[w]) /\ AnyBy(Q)[w] = AnyOf(s)
  BY <1>1 DEF AnyBy
<1>4. AskedBy(R)[w] = AskedOf(R[w]) /\ AskedBy(Q)[w] = AskedOf(s)
  BY <1>1 DEF AskedBy
<1> QED
  BY <1>2, <1>3, <1>4, Recounted

LEMMA MovedDue ==
    ASSUME NEW R, NEW Q, NEW w \in Workers, NEW s, Becomes(R, Q, w, s)
    PROVE  \A c : Due(Q, c) = Due(R, c) - DueOf(R[w], c) + DueOf(s, c)
BY Moved

LEMMA Totals ==
    ASSUME NEW f, f \in [Coins -> Nat]
    PROVE  SumFunctionOnSet(f, Coins) \in Nat
<1>1. \A c \in Coins : f[c] \in Nat
  OBVIOUS
<1> QED
  BY <1>1, CoinsAssumption, SumIsNatural

LEMMA CalmIsDue ==
    ASSUME NEW R, NEW Q, NEW w \in Workers, NEW s, Becomes(R, Q, w, s),
           Scheduled(s) => Scheduled(R[w]) /\ s.coin = R[w].coin
    PROVE  \A c : Due(Q, c) <= Due(R, c)
<1> SUFFICES ASSUME NEW c PROVE Due(Q, c) <= Due(R, c)
  OBVIOUS
<1>1. Due(R, c) \in Nat /\ Due(Q, c) \in Nat
  BY Counted
<1>2. Due(Q, c) = Due(R, c) - DueOf(R[w], c) + DueOf(s, c)
  BY Moved
<1> QED
  BY <1>1, <1>2 DEF DueOf

(* A run that may not open more than before leaves the room there was.                  *)
LEMMA CalmKeepsRoom ==
    ASSUME NEW R, NEW Q, NEW w \in Workers, NEW s, Becomes(R, Q, w, s),
           Scheduled(s) => Scheduled(R[w]) /\ s.coin = R[w].coin,
           Asked(s) => Asked(R[w]),
           NEW positions \in [Coins -> Nat], NEW asked \in Nat, HasRoom(R, positions, asked)
    PROVE  HasRoom(Q, positions, asked)
<1>1. PICK m \in [Coins -> Nat] : Room(R, positions, asked, m)
  BY DEF HasRoom
<1>2. /\ AllDue(Q) \in Nat /\ AllDue(R) \in Nat /\ AllAsked(Q) \in Nat /\ AllAsked(R) \in Nat
      /\ N \in Nat /\ \A c : Due(Q, c) \in Nat /\ Due(R, c) \in Nat
  BY Counted
<1>3. AllDue(Q) <= AllDue(R)
  <2>1. AllDue(Q) = AllDue(R) - AnyOf(R[w]) + AnyOf(s)
    BY Moved
  <2> QED
    BY <1>2, <2>1 DEF AnyOf
<1>4. AllAsked(Q) <= AllAsked(R)
  <2>1. AllAsked(Q) = AllAsked(R) - AskedOf(R[w]) + AskedOf(s)
    BY Moved
  <2> QED
    BY <1>2, <2>1 DEF AskedOf
<1>5. \A c : Due(Q, c) <= Due(R, c)
  BY CalmIsDue
<1>6. SumFunctionOnSet(m, Coins) \in Nat /\ SumFunctionOnSet(positions, Coins) \in Nat
  BY Totals
<1>7. MaxOpen * N \in Int
  BY <1>2, BoundsAssumption
<1> DEFINE bound == MaxOpen * N
<1>8. bound \in Int
  BY <1>7
<1> HIDE DEF bound
<1>9. \A c \in Coins : positions[c] + Due(Q, c) <= N + m[c]
  <2> SUFFICES ASSUME NEW c \in Coins PROVE positions[c] + Due(Q, c) <= N + m[c]
    OBVIOUS
  <2>1. positions[c] + Due(R, c) <= N + m[c] /\ positions[c] \in Nat /\ m[c] \in Nat
    BY <1>1 DEF Room
  <2>2. Due(Q, c) <= Due(R, c) /\ Due(Q, c) \in Nat /\ Due(R, c) \in Nat /\ N \in Nat
    BY <1>2, <1>5
  <2> QED
    BY <2>1, <2>2
<1>10. SumFunctionOnSet(m, Coins) + AllAsked(Q) <= asked
  <2>1. SumFunctionOnSet(m, Coins) + AllAsked(R) <= asked
    BY <1>1 DEF Room
  <2> QED
    BY <1>2, <1>6, <1>4, <2>1
<1>11. SumFunctionOnSet(positions, Coins) + AllDue(Q) + AllAsked(Q) <= bound + asked
  <2>1. SumFunctionOnSet(positions, Coins) + AllDue(R) + AllAsked(R) <= bound + asked
    BY <1>1 DEF Room, bound
  <2> QED
    BY <1>3, <1>2, <1>6, <1>8, <1>4, <2>1
<1> QED
  BY <1>9, <1>10, <1>11 DEF HasRoom, Room, bound

(* Positions that are closed leave more of it.                                          *)
LEMMA CloseKeepsRoom ==
    ASSUME NEW R, NEW positions \in [Coins -> Nat], NEW fewer \in [Coins -> Nat],
           \A c \in Coins : fewer[c] <= positions[c],
           NEW asked \in Nat, HasRoom(R, positions, asked)
    PROVE  HasRoom(R, fewer, asked)
<1>1. PICK m \in [Coins -> Nat] : Room(R, positions, asked, m)
  BY DEF HasRoom
<1>2. AllDue(R) \in Nat /\ AllAsked(R) \in Nat /\ N \in Nat /\ \A c : Due(R, c) \in Nat
  BY Counted
<1>3. SumFunctionOnSet(fewer, Coins) \in Nat /\ SumFunctionOnSet(positions, Coins) \in Nat
  BY Totals
<1>4. SumFunctionOnSet(fewer, Coins) <= SumFunctionOnSet(positions, Coins)
  <2>1. \A c \in Coins : fewer[c] \in Int /\ positions[c] \in Int /\ fewer[c] <= positions[c]
    OBVIOUS
  <2> QED
    BY <2>1, CoinsAssumption, SumOfLess
<1>5. \A c \in Coins : fewer[c] + Due(R, c) <= N + m[c]
  <2> SUFFICES ASSUME NEW c \in Coins PROVE fewer[c] + Due(R, c) <= N + m[c]
    OBVIOUS
  <2>1. positions[c] + Due(R, c) <= N + m[c] /\ Due(R, c) \in Nat
    BY <1>1, <1>2 DEF Room
  <2>2. fewer[c] \in Nat /\ positions[c] \in Nat /\ m[c] \in Nat /\ fewer[c] <= positions[c]
    OBVIOUS
  <2> QED
    BY <1>2, <2>1, <2>2
<1> DEFINE bound == MaxOpen * N
<1>6. bound \in Int
  BY <1>2, BoundsAssumption
<1>7. SumFunctionOnSet(fewer, Coins) + AllDue(R) + AllAsked(R) <= bound + asked
  <2>1. SumFunctionOnSet(positions, Coins) + AllDue(R) + AllAsked(R) <= bound + asked
    BY <1>1 DEF Room
  <2> HIDE DEF bound
  <2> QED
    BY <1>2, <1>3, <1>4, <1>6, <2>1
<1> QED
  BY <1>1, <1>5, <1>7 DEF HasRoom, Room

(* A manual run is allowed one more.                                                    *)
LEMMA AskingMakesRoom ==
    ASSUME NEW R, NEW Q, NEW w \in Workers, NEW s, Becomes(R, Q, w, s), ~Scheduled(s),
           NEW positions \in [Coins -> Nat], NEW asked \in Nat, HasRoom(R, positions, asked)
    PROVE  HasRoom(Q, positions, asked + 1)
<1>1. PICK m \in [Coins -> Nat] : Room(R, positions, asked, m)
  BY DEF HasRoom
<1>2. /\ AllDue(Q) \in Nat /\ AllDue(R) \in Nat /\ AllAsked(Q) \in Nat /\ AllAsked(R) \in Nat
      /\ N \in Nat /\ \A c : Due(Q, c) \in Nat /\ Due(R, c) \in Nat
  BY Counted
<1>3. AllDue(Q) <= AllDue(R)
  <2>1. AllDue(Q) = AllDue(R) - AnyOf(R[w]) + AnyOf(s)
    BY Moved
  <2> QED
    BY <1>2, <2>1 DEF AnyOf
<1>4. \A c : Due(Q, c) <= Due(R, c)
  BY CalmIsDue
<1>5. AllAsked(Q) <= AllAsked(R) + 1
  <2>1. AllAsked(Q) = AllAsked(R) - AskedOf(R[w]) + AskedOf(s)
    BY Moved
  <2> QED
    BY <1>2, <2>1 DEF AskedOf
<1>6. \A c \in Coins : positions[c] + Due(Q, c) <= N + m[c]
  <2> SUFFICES ASSUME NEW c \in Coins PROVE positions[c] + Due(Q, c) <= N + m[c]
    OBVIOUS
  <2>1. Due(R, c) \in Nat /\ Due(Q, c) \in Nat /\ Due(Q, c) <= Due(R, c)
    BY <1>2, <1>4
  <2>2. positions[c] + Due(R, c) <= N + m[c] /\ positions[c] \in Nat /\ m[c] \in Nat
    BY <1>1 DEF Room
  <2> QED
    BY <1>2, <2>1, <2>2
<1>7. SumFunctionOnSet(m, Coins) \in Nat /\ SumFunctionOnSet(positions, Coins) \in Nat
  BY Totals
<1> DEFINE bound == MaxOpen * N
<1>8. bound \in Int
  BY <1>2, BoundsAssumption
<1>9. /\ SumFunctionOnSet(m, Coins) + AllAsked(R) <= asked
      /\ SumFunctionOnSet(positions, Coins) + AllDue(R) + AllAsked(R) <= bound + asked
  BY <1>1 DEF Room
<1> HIDE DEF bound
<1>10. /\ SumFunctionOnSet(m, Coins) + AllAsked(Q) <= asked + 1
      /\ SumFunctionOnSet(positions, Coins) + AllDue(Q) + AllAsked(Q) <= bound + (asked + 1)
  BY <1>2, <1>3, <1>5, <1>7, <1>8, <1>9
<1> QED
  BY <1>6, <1>10 DEF HasRoom, Room, bound

\* The total of g is by one that of f.
Grows(f, g, c) == g[c] = f[c] + 1 /\ \A d \in Coins \ {c} : g[d] = f[d]

LEMMA Incremented ==
    ASSUME NEW f \in [Coins -> Nat], NEW c \in Coins,
           NEW g \in [Coins -> Nat], Grows(f, g, c)
    PROVE  SumFunctionOnSet(g, Coins) = SumFunctionOnSet(f, Coins) + 1
<1>1. \A d \in Coins : g[d] \in Int /\ f[d] \in Int
  OBVIOUS
<1>2. \A d \in Coins \ {c} : g[d] = f[d]
  BY DEF Grows
<1>3. SumFunctionOnSet(g, Coins) = SumFunctionOnSet(f, Coins) - f[c] + g[c]
  BY <1>1, <1>2, CoinsAssumption, SumOfChanged
<1>4. SumFunctionOnSet(f, Coins) \in Nat /\ SumFunctionOnSet(g, Coins) \in Nat
  BY Totals
<1>5. f[c] \in Nat /\ g[c] \in Nat /\ g[c] = f[c] + 1
  BY DEF Grows
<1> HIDE DEF Grows
<1> QED
  BY <1>3, <1>4, <1>5

(* The position of a run that counted for one is there now.                             *)
LEMMA BuyingKeepsRoom ==
    ASSUME NEW R, NEW Q, NEW w \in Workers, NEW s, Becomes(R, Q, w, s),
           ~Scheduled(s), ~Asked(s), Scheduled(R[w]) \/ Asked(R[w]),
           NEW positions \in [Coins -> Nat], NEW more \in [Coins -> Nat], R[w].coin \in Coins,
           Grows(positions, more, R[w].coin),
           NEW asked \in Nat, HasRoom(R, positions, asked)
    PROVE  HasRoom(Q, more, asked)
<1> DEFINE b == R[w].coin
           bound == MaxOpen * N
<1>1. PICK m \in [Coins -> Nat] : Room(R, positions, asked, m)
  BY DEF HasRoom
<1>2. /\ AllDue(Q) \in Nat /\ AllDue(R) \in Nat /\ AllAsked(Q) \in Nat /\ AllAsked(R) \in Nat
      /\ N \in Nat /\ \A c : Due(Q, c) \in Nat /\ Due(R, c) \in Nat
  BY Counted
<1>3. /\ SumFunctionOnSet(m, Coins) \in Nat /\ SumFunctionOnSet(positions, Coins) \in Nat
      /\ SumFunctionOnSet(more, Coins) = SumFunctionOnSet(positions, Coins) + 1
  <2>1. SumFunctionOnSet(m, Coins) \in Nat /\ SumFunctionOnSet(positions, Coins) \in Nat
    BY Totals
  <2>2. b \in Coins /\ Grows(positions, more, b)
    OBVIOUS
  <2> HIDE DEF b
  <2>3. SumFunctionOnSet(more, Coins) = SumFunctionOnSet(positions, Coins) + 1
    BY <2>2, Incremented
  <2> QED
    BY <2>1, <2>3
<1>4. bound \in Int
  BY <1>2, BoundsAssumption
<1>5. /\ SumFunctionOnSet(m, Coins) + AllAsked(R) <= asked
      /\ SumFunctionOnSet(positions, Coins) + AllDue(R) + AllAsked(R) <= bound + asked
  BY <1>1 DEF Room
<1> HIDE DEF bound
<1>6. AllDue(Q) = AllDue(R) - (IF Scheduled(R[w]) THEN 1 ELSE 0)
  <2>1. AllDue(Q) = AllDue(R) - AnyOf(R[w]) + AnyOf(s)
    BY Moved
  <2> QED
    BY <1>2, <2>1 DEF AnyOf
<1>7. AllAsked(Q) = AllAsked(R) - (IF Asked(R[w]) THEN 1 ELSE 0)
  <2>1. AllAsked(Q) = AllAsked(R) - AskedOf(R[w]) + AskedOf(s)
    BY Moved
  <2> QED
    BY <1>2, <2>1 DEF AskedOf
<1>8. \A c : Due(Q, c) = Due(R, c) - DueOf(R[w], c) + DueOf(s, c)
  BY MovedDue
<1>9. ASSUME NEW c \in Coins
      PROVE  /\ Due(Q, c) = Due(R, c) - (IF Scheduled(R[w]) /\ b = c THEN 1 ELSE 0)
             /\ positions[c] + Due(R, c) <= N + m[c]
             /\ Due(R, c) \in Nat /\ Due(Q, c) \in Nat /\ m[c] \in Nat /\ positions[c] \in Nat
             /\ more[c] = positions[c] + (IF b = c THEN 1 ELSE 0)
  <2>1. Due(Q, c) = Due(R, c) - DueOf(R[w], c) + DueOf(s, c)
    BY <1>8
  <2>2. Due(R, c) \in Nat /\ Due(Q, c) \in Nat
    BY <1>2
  <2>3. Due(Q, c) = Due(R, c) - (IF Scheduled(R[w]) /\ b = c THEN 1 ELSE 0)
    BY <2>1, <2>2 DEF DueOf
  <2>4. positions[c] + Due(R, c) <= N + m[c]
    BY <1>1 DEF Room
  <2>5. m[c] \in Nat /\ positions[c] \in Nat
    OBVIOUS
  <2>6. more[c] = positions[c] + (IF b = c THEN 1 ELSE 0)
    <3>1. CASE b = c
      BY <3>1 DEF Grows
    <3>2. CASE b # c
      BY <2>5, <3>2 DEF Grows
    <3> QED
      BY <3>1, <3>2
  <2> QED
    BY <2>2, <2>3, <2>4, <2>5, <2>6
<1>10. CASE Scheduled(R[w]) /\ ~Asked(R[w])
  <2>1. ASSUME NEW c \in Coins PROVE more[c] + Due(Q, c) <= N + m[c]
    <3> HIDE DEF b
    <3>1. CASE b = c
      BY <1>2, <1>9, <1>10, <3>1
    <3>2. CASE b # c
      BY <1>2, <1>9, <1>10, <3>2
    <3> QED
      BY <3>1, <3>2
  <2>2. /\ SumFunctionOnSet(m, Coins) + AllAsked(Q) <= asked
        /\ SumFunctionOnSet(more, Coins) + AllDue(Q) + AllAsked(Q) <= bound + asked
    BY <1>2, <1>3, <1>4, <1>5, <1>6, <1>7, <1>10
  <2> QED
    BY <2>1, <2>2 DEF HasRoom, Room, bound
<1>11. CASE Asked(R[w])
  <2> DEFINE n == [m EXCEPT ![b] = m[b] + 1]
  <2>1. ~Scheduled(R[w])
    BY <1>11 DEF Scheduled, Asked
  <2>2. n \in [Coins -> Nat] /\ n[b] = m[b] + 1 /\ \A d \in Coins \ {b} : n[d] = m[d]
    OBVIOUS
  <2>3. Grows(m, n, b)
    BY <2>2 DEF Grows
  <2>4. b \in Coins
    OBVIOUS
  <2> HIDE DEF n, b
  <2>5. SumFunctionOnSet(n, Coins) = SumFunctionOnSet(m, Coins) + 1
    BY <2>2, <2>4, <2>3, Incremented
  <2>6. ASSUME NEW c \in Coins PROVE more[c] + Due(Q, c) <= N + n[c]
    <3> HIDE DEF b
    <3>1. CASE b = c
      BY <1>2, <1>9, <2>1, <2>2, <3>1
    <3>2. CASE b # c
      BY <1>2, <1>9, <2>1, <2>2, <3>2
    <3> QED
      BY <3>1, <3>2
  <2>7. /\ SumFunctionOnSet(n, Coins) + AllAsked(Q) <= asked
        /\ SumFunctionOnSet(more, Coins) + AllDue(Q) + AllAsked(Q) <= bound + asked
    BY <1>2, <1>3, <1>4, <1>5, <1>6, <1>7, <1>11, <2>1, <2>5
  <2> QED
    BY <2>2, <2>6, <2>7 DEF HasRoom, Room, bound
<1> QED
  BY <1>10, <1>11

LEMMA FewerThan ==
    ASSUME NEW n \in Nat, NEW max \in Nat, NEW h \in Nat, h < max
    PROVE  n * h + n <= max * n /\ n * h \in Nat /\ max * n \in Nat
<1>1. n * h + n = n * (h + 1)
  OBVIOUS
<1>2. n * (h + 1) <= n * max
  OBVIOUS
<1>3. n * max = max * n /\ n * h \in Nat /\ max * n \in Nat
  OBVIOUS
<1> QED
  BY <1>1, <1>2, <1>3

(* The positions, when their coins are fewer than the limit.                            *)
LEMMA FewCoins ==
    ASSUME NEW positions \in [Coins -> Nat], NEW m \in [Coins -> Nat],
           \A c \in Coins : positions[c] <= N + m[c],
           Cardinality({c \in Coins : positions[c] > 0}) < MaxOpen
    PROVE  SumFunctionOnSet(positions, Coins) + N <= MaxOpen * N + SumFunctionOnSet(m, Coins)
<1> DEFINE H == {c \in Coins : positions[c] > 0}
           n == [c \in Coins |-> N]
           t == [c \in Coins |-> N + m[c]]
<1>1. /\ IsFiniteSet(Coins) /\ IsFiniteSet(H) /\ H \in SUBSET Coins /\ N \in Nat
      /\ Cardinality(H) \in Nat /\ Cardinality(H) < MaxOpen /\ MaxOpen \in Nat /\ N \in Int
  BY CoinsAssumption, BoundsAssumption, FS_Subset, FS_CardinalityType DEF N
<1>2. SumFunctionOnSet(positions, H) = SumFunctionOnSet(positions, Coins)
  <2>1. \A c \in Coins \ H : positions[c] = 0
    OBVIOUS
  <2>2. \A c \in Coins : positions[c] \in Nat
    OBVIOUS
  <2> HIDE DEF H
  <2> QED
    BY <1>1, <2>1, <2>2, SumOfPart
<1>3. \A c \in H : /\ positions[c] \in Int /\ t[c] \in Int /\ positions[c] <= t[c]
                   /\ n[c] \in Int /\ n[c] <= N /\ m[c] \in Int /\ t[c] = n[c] + m[c]
  BY <1>1
<1>4. \A c \in Coins : m[c] \in Nat
  OBVIOUS
<1> HIDE DEF H, n, t
<1>5. SumFunctionOnSet(positions, H) <= SumFunctionOnSet(t, H)
  BY <1>1, <1>3, SumOfLess
<1>6. SumFunctionOnSet(t, H) = SumFunctionOnSet(n, H) + SumFunctionOnSet(m, H)
  BY <1>1, <1>3, SumOfSums
<1>7. SumFunctionOnSet(n, H) <= N * Cardinality(H)
  BY <1>1, <1>3, SumOfAtMost
<1>8. SumFunctionOnSet(m, H) <= SumFunctionOnSet(m, Coins)
  BY <1>1, <1>4, SumOfPart
<1>9. /\ SumFunctionOnSet(positions, H) \in Int /\ SumFunctionOnSet(t, H) \in Int
      /\ SumFunctionOnSet(n, H) \in Int /\ SumFunctionOnSet(m, H) \in Int
      /\ SumFunctionOnSet(m, Coins) \in Int
  BY <1>1, <1>3, <1>4, SumIsInteger
<1>10. N * Cardinality(H) + N <= MaxOpen * N /\ N * Cardinality(H) \in Nat /\ MaxOpen * N \in Nat
  BY <1>1, FewerThan
<1> DEFINE nh == N * Cardinality(H)
           mn == MaxOpen * N
<1>11. nh + N <= mn /\ nh \in Nat /\ mn \in Nat /\ SumFunctionOnSet(n, H) <= nh
  BY <1>7, <1>10
<1> HIDE DEF nh, mn
<1>12. SumFunctionOnSet(positions, Coins) + N <= mn + SumFunctionOnSet(m, Coins)
  BY <1>1, <1>2, <1>5, <1>6, <1>8, <1>9, <1>11
<1> QED
  BY <1>12 DEF mn

(* A scheduled run that begins has read the positions there are, so a coin without one, *)
(* and fewer coins with one than the limit.                                             *)
LEMMA BeginKeepsRoom ==
    ASSUME NEW R, NEW Q, NEW w \in Workers, NEW s, Becomes(R, Q, w, s),
           ~Scheduled(R[w]), Asked(s) => Asked(R[w]),
           NEW positions \in [Coins -> Nat], NEW asked \in Nat,
           Scheduled(s) => /\ positions[s.coin] = 0 /\ s.coin \in Coins
                           /\ Cardinality({c \in Coins : positions[c] > 0}) < MaxOpen,
           HasRoom(R, positions, asked)
    PROVE  HasRoom(Q, positions, asked)
<1>1. CASE ~Scheduled(s)
  BY <1>1, CalmKeepsRoom
<1>2. CASE Scheduled(s)
  <2>1. PICK m \in [Coins -> Nat] : Room(R, positions, asked, m)
    BY DEF HasRoom
  <2> DEFINE bound == MaxOpen * N
  <2>2. /\ AllDue(Q) \in Nat /\ AllDue(Q) <= N /\ AllAsked(Q) \in Nat /\ AllAsked(R) \in Nat
        /\ N \in Nat
        /\ \A c : Due(Q, c) \in Nat /\ Due(R, c) \in Nat /\ Due(Q, c) <= N
    BY Counted
  <2>3. AllAsked(Q) <= AllAsked(R)
    <3>1. AllAsked(Q) = AllAsked(R) - AskedOf(R[w]) + AskedOf(s)
      BY Moved
    <3> QED
      BY <2>2, <3>1 DEF AskedOf
  <2>4. \A c : Due(Q, c) = Due(R, c) - DueOf(R[w], c) + DueOf(s, c)
    BY MovedDue
  <2>5. ASSUME NEW c \in Coins PROVE positions[c] + Due(Q, c) <= N + m[c]
    <3>1. /\ positions[c] + Due(R, c) <= N + m[c] /\ positions[c] \in Nat /\ m[c] \in Nat
          /\ Due(R, c) \in Nat /\ Due(Q, c) \in Nat /\ Due(Q, c) <= N
      BY <2>1, <2>2 DEF Room
    <3>2. CASE c = s.coin
      BY <1>2, <2>2, <3>1, <3>2
    <3>3. CASE c # s.coin
      <4>1. Due(Q, c) = Due(R, c) - DueOf(R[w], c) + DueOf(s, c)
        BY <2>4
      <4>2. Due(Q, c) = Due(R, c)
        BY <2>2, <3>3, <4>1 DEF DueOf
      <4> QED
        BY <3>1, <4>2
    <3> QED
      BY <3>2, <3>3
  <2>6. SumFunctionOnSet(m, Coins) \in Nat /\ SumFunctionOnSet(positions, Coins) \in Nat
    BY Totals
  <2>7. bound \in Int
    BY <2>2, BoundsAssumption
  <2>8. SumFunctionOnSet(m, Coins) + AllAsked(R) <= asked
    BY <2>1 DEF Room
  <2>9. \A c \in Coins : positions[c] <= N + m[c]
    <3> SUFFICES ASSUME NEW c \in Coins PROVE positions[c] <= N + m[c]
      OBVIOUS
    <3>1. /\ positions[c] + Due(R, c) <= N + m[c] /\ positions[c] \in Nat /\ m[c] \in Nat
          /\ Due(R, c) \in Nat
      BY <2>1, <2>2 DEF Room
    <3> QED
      BY <2>2, <3>1
  <2>10. SumFunctionOnSet(positions, Coins) + N <= bound + SumFunctionOnSet(m, Coins)
    BY <1>2, <2>9, FewCoins
  <2> HIDE DEF bound
  <2>11. /\ SumFunctionOnSet(m, Coins) + AllAsked(Q) <= asked
         /\ SumFunctionOnSet(positions, Coins) + AllDue(Q) + AllAsked(Q) <= bound + asked
    BY <2>2, <2>3, <2>6, <2>7, <2>8, <2>10
  <2> QED
    BY <2>5, <2>11 DEF HasRoom, Room, bound
<1> QED
  BY <1>1, <1>2

--------------------------------------------------------------------------------
(* The whole state.                                                                    *)

RoomInv == Shadow => HasRoom(run, open, manual)

LEMMA GoesBecomes ==
    ASSUME RunsInv, NEW w \in Workers, NEW s, Goes(w, s)
    PROVE  Becomes(run, run', w, s)
BY DEF RunsInv, Goes, Becomes

(* A run that works on may open what it might have opened before.                       *)
LEMMA AlikeIsCalm ==
    ASSUME NEW r, NEW s, Alike(r, s), r.step # "idle"
    PROVE  /\ Scheduled(s) => Scheduled(r) /\ s.coin = r.coin
           /\ Asked(s) => Asked(r)
BY DEF Alike, Scheduled, Asked, Free

LEMMA WorksKeepsRoom ==
    ASSUME RunsRight, NEW w \in Workers, Works(w), HasRoom(run, open, manual)
    PROVE  HasRoom(run', open, manual)
<1>1. PICK s : Goes(w, s) /\ Alike(run[w], s)
  BY DEF Works
<1>2. Becomes(run, run', w, s)
  BY <1>1, GoesBecomes DEF RunsRight
<1>3. run[w].step # "idle"
  BY DEF Works, Names
<1>4. /\ Scheduled(s) => Scheduled(run[w]) /\ s.coin = run[w].coin
      /\ Asked(s) => Asked(run[w])
  BY <1>1, <1>3, AlikeIsCalm
<1>5. open \in [Coins -> Nat] /\ manual \in Nat
  BY BoundsAssumption DEF RunsRight, WorldOK
<1> QED
  BY <1>2, <1>4, <1>5, CalmKeepsRoom

LEMMA BuyingGrows ==
    ASSUME NEW w, run[w].coin \in Coins, open \in [Coins -> Nat], Bought(w)
    PROVE  open' \in [Coins -> Nat] /\ Grows(open, open', run[w].coin)
BY DEF Bought, Grows

LEMMA StepRoom ==
    ASSUME RunsRight, NEW w \in Workers, Step(w), Shadow, HasRoom(run, open, manual)
    PROVE  mode' = mode /\ HasRoom(run', open', manual')
<1>1. /\ TypeOK /\ WorldOK /\ RunsInv /\ RunInv(run[w])
      /\ open \in [Coins -> Nat] /\ manual \in Nat
  BY BoundsAssumption, TypesOfWorld DEF RunsRight, RunsInv, WorldOK
<1>2. CASE \/ Gather(w) \/ Decide(w) \/ Review(w) \/ Risk(w) \/ FinalDecision(w)
           \/ PortfolioRefuses(w) \/ Refused(w) \/ ShadowFills(w) \/ LiveFills(w)
           \/ EmergencyCloses(w) \/ AttemptFails(w)
  <2>1. Works(w)
    BY <1>1, <1>2, StepWorks
  <2>2. ~LiveFills(w) /\ ~EmergencyCloses(w)
    BY DEF Shadow, LiveFills, EmergencyCloses
  <2>3. ASSUME NEW s, Answered(w, s) PROVE UNCHANGED <<mode, open, manual>>
    BY <2>3 DEF Answered, WorldRests
  <2>4. UNCHANGED <<mode, open, manual>>
    <3>1. CASE Gather(w) \/ Decide(w) \/ Review(w) \/ FinalDecision(w) \/ PortfolioRefuses(w)
               \/ Refused(w) \/ ShadowFills(w)
      BY <2>3, <3>1 DEF Gather, Decide, Review, FinalDecision, PortfolioRefuses, Refused, ShadowFills
    <3>2. CASE Risk(w)
      BY <2>3, <3>2 DEF Risk
    <3>3. CASE AttemptFails(w)
      BY <3>3 DEF AttemptFails, Shadow
    <3> QED
      BY <1>2, <2>2, <3>1, <3>2, <3>3
  <2> QED
    BY <2>1, <2>4, WorksKeepsRoom
<1>3. CASE StartCycle(w)
  <2>1. /\ run' = [run EXCEPT ![w] = [NoRun EXCEPT !.coins = Coins, !.kind = "cycle"]]
        /\ UNCHANGED <<mode, open, manual>>
    BY <1>3 DEF StartCycle
  <2> DEFINE s == [NoRun EXCEPT !.coins = Coins, !.kind = "cycle"]
  <2>2. Goes(w, s)
    BY <2>1 DEF Goes
  <2>3. s.step = "idle" /\ s.kind = "cycle"
    BY DEF NoRun
  <2> HIDE DEF s
  <2>4. Becomes(run, run', w, s)
    BY <1>1, <2>2, GoesBecomes
  <2>5. ~Scheduled(s) /\ ~Asked(s)
    BY <2>3 DEF Scheduled, Asked
  <2> QED
    BY <1>1, <2>1, <2>4, <2>5, CalmKeepsRoom
<1>4. CASE StartManual(w)
  <2>1. PICK c \in Coins : run' = [run EXCEPT ![w] = [NoRun EXCEPT !.coins = {c}, !.kind = "manual",
                                                                !.active = active]]
    BY <1>4 DEF StartManual
  <2>2. manual' = manual + 1 /\ UNCHANGED <<mode, open>>
    BY <1>4 DEF StartManual
  <2> DEFINE s == [NoRun EXCEPT !.coins = {c}, !.kind = "manual", !.active = active]
  <2>3. Goes(w, s)
    BY <2>1 DEF Goes
  <2>4. s.step = "idle"
    BY DEF NoRun
  <2> HIDE DEF s
  <2>5. Becomes(run, run', w, s)
    BY <1>1, <2>3, GoesBecomes
  <2>6. ~Scheduled(s)
    BY <2>4 DEF Scheduled
  <2> QED
    BY <1>1, <2>2, <2>5, <2>6, AskingMakesRoom
<1>5. CASE Begin(w)
  <2>1. PICK s : /\ Goes(w, s) /\ s.kind = run[w].kind /\ s.coin \in Coins
                 /\ s.seen = Seen(run[w].kind) /\ run[w].step = "idle" /\ run[w].coins # {}
    BY <1>1, <1>5, BeginRuns
  <2>2. Becomes(run, run', w, s)
    BY <1>1, <2>1, GoesBecomes
  <2>3. ~Scheduled(run[w]) /\ (Asked(s) => Asked(run[w]))
    BY <2>1 DEF Scheduled, Asked
  <2>4. Scheduled(s) => /\ open[s.coin] = 0 /\ s.coin \in Coins
                        /\ Cardinality({c \in Coins : open[c] > 0}) < MaxOpen
    <3> HAVE Scheduled(s)
    <3>1. s.seen = {c \in Coins : open[c] > 0}
      BY <2>1 DEF Scheduled, Seen, Held
    <3>2. s.coin \notin s.seen /\ Cardinality(s.seen) < MaxOpen
      BY DEF Scheduled, Free
    <3>3. open[s.coin] \in Nat
      BY <1>1, <2>1
    <3>4. open[s.coin] = 0
      BY <2>1, <3>1, <3>2, <3>3
    <3> QED
      BY <2>1, <3>1, <3>2, <3>4
  <2>5. UNCHANGED <<mode, open, manual>>
    BY <1>5 DEF Begin
  <2> QED
    BY <1>1, <2>2, <2>3, <2>4, <2>5, BeginKeepsRoom
<1>6. CASE Finish(w)
  <2>1. PICK s : /\ Goes(w, s) /\ s.step = "idle" /\ s.kind = run[w].kind /\ s.coins = run[w].coins
    BY <1>1, <1>6, FinishRuns
  <2>2. Becomes(run, run', w, s)
    BY <1>1, <2>1, GoesBecomes
  <2>3. run[w].step = "commit" /\ UNCHANGED <<mode, manual>>
    BY <1>6 DEF Finish, At
  <2>4. /\ run[w].coin \in Coins
        /\ run[w].kind = "manual" => run[w].coins = {}
        /\ run[w].kind = "cycle" /\ run[w].opened = 1 => Free(run[w])
        /\ run[w].kind \in {"cycle", "manual"}
    BY <1>1, <2>3 DEF RunInv, Placed, Run
  <2>5. ~Scheduled(s) /\ ~Asked(s)
    BY <2>1, <2>4 DEF Scheduled, Asked
  <2>6. CASE UNCHANGED open
    BY <1>1, <2>2, <2>3, <2>5, <2>6, CalmKeepsRoom
  <2>7. CASE run[w].opened = 1 /\ Bought(w)
    <3>1. open' \in [Coins -> Nat] /\ Grows(open, open', run[w].coin)
      BY <1>1, <2>4, <2>7, BuyingGrows
    <3>2. Scheduled(run[w]) \/ Asked(run[w])
      BY <2>3, <2>4, <2>7 DEF Scheduled, Asked
    <3>3. HasRoom(run', open', manual)
      BY <1>1, <2>2, <2>4, <2>5, <3>1, <3>2, BuyingKeepsRoom
    <3> QED
      BY <2>3, <3>3
  <2> QED
    BY <1>6, <2>6, <2>7 DEF Finish
<1>7. CASE Killed(w)
  <2>1. Goes(w, NoRun) /\ UNCHANGED <<mode, open, manual>>
    BY <1>7 DEF Killed
  <2>2. Becomes(run, run', w, NoRun)
    BY <1>1, <2>1, GoesBecomes
  <2>3. ~Scheduled(NoRun) /\ ~Asked(NoRun)
    BY DEF NoRun, Scheduled, Asked
  <2> HIDE DEF NoRun
  <2> QED
    BY <1>1, <2>1, <2>2, <2>3, CalmKeepsRoom
<1> QED
  BY <1>2, <1>3, <1>4, <1>5, <1>6, <1>7 DEF Step

LEMMA OutsideRoom ==
    ASSUME RunsRight, Outside, HasRoom(run, open, manual)
    PROVE  mode' = mode /\ HasRoom(run', open', manual')
<1>1. open \in [Coins -> Nat] /\ manual \in Nat /\ UNCHANGED <<mode, run, manual>>
  BY BoundsAssumption DEF RunsRight, WorldOK, Outside
<1>2. CASE UNCHANGED open
  BY <1>1, <1>2
<1>3. CASE \E c \in Held : open' = [open EXCEPT ![c] = @ - 1]
  <2>1. PICK c \in Held : open' = [open EXCEPT ![c] = open[c] - 1]
    BY <1>3
  <2>2. c \in Coins /\ open[c] \in Nat /\ open[c] - 1 \in Nat
    BY <1>1 DEF Held
  <2>3. open' \in [Coins -> Nat] /\ \A d \in Coins : open'[d] <= open[d]
    BY <1>1, <2>1, <2>2
  <2>4. HasRoom(run, open', manual)
    BY <1>1, <2>3, CloseKeepsRoom
  <2> QED
    BY <1>1, <2>4
<1> QED
  BY <1>2, <1>3 DEF Outside

LEMMA RoomStarts == ASSUME Init PROVE HasRoom(run, open, manual)
<1> DEFINE m == [c \in Coins |-> 0]
<1>1. /\ \A w \in Workers : ~Scheduled(run[w]) /\ ~Asked(run[w])
      /\ open = m /\ manual = 0
  BY DEF Init, NoRun, Scheduled, Asked
<1>2. IsFiniteSet(Workers) /\ IsFiniteSet(Coins)
  BY CoinsAssumption
<1>3. m \in [Coins -> Nat]
  OBVIOUS
<1>4. \A c \in Coins : m[c] \in Int /\ m[c] <= 0
  OBVIOUS
<1>5. SumFunctionOnSet(m, Coins) = 0
  <2> HIDE DEF m
  <2>1. SumFunctionOnSet(m, Coins) <= 0 * Cardinality(Coins)
    BY <1>2, <1>4, SumOfAtMost
  <2>2. SumFunctionOnSet(m, Coins) \in Nat /\ Cardinality(Coins) \in Nat
    BY <1>2, <1>3, Totals, FS_CardinalityType
  <2> QED
    BY <2>1, <2>2
<1>6. Cardinality(Workers) \in Nat
  BY <1>2, FS_CardinalityType
<1>7. AllAsked(run) = 0
  <2> DEFINE f == AskedBy(run)
  <2>1. \A w \in Workers : f[w] \in Int /\ f[w] <= 0
    BY <1>1 DEF AskedBy, AskedOf
  <2> HIDE DEF f
  <2>2. SumFunctionOnSet(f, Workers) <= 0 * Cardinality(Workers)
    BY <1>2, <2>1, SumOfAtMost
  <2>3. AllAsked(run) \in Nat
    BY Counted
  <2> QED
    BY <1>6, <2>2, <2>3 DEF AllAsked, f
<1>8. /\ AllDue(run) \in Nat /\ AllDue(run) <= N /\ N \in Nat
      /\ \A c : Due(run, c) \in Nat /\ Due(run, c) <= N
  BY Counted
<1>9. \A c \in Coins : m[c] + Due(run, c) <= N + m[c]
  BY <1>8
<1>10. N <= MaxOpen * N /\ MaxOpen * N \in Nat
  <2>1. MaxOpen \in Nat /\ MaxOpen >= 1
    BY BoundsAssumption
  <2> QED
    BY <1>8, <2>1
<1> DEFINE bound == MaxOpen * N
<1>11. N <= bound /\ bound \in Nat
  BY <1>10
<1> HIDE DEF bound, m
<1>12. Room(run, m, 0, m)
  <2>1. SumFunctionOnSet(m, Coins) + AllAsked(run) <= 0
    BY <1>5, <1>7
  <2>2. SumFunctionOnSet(m, Coins) + AllDue(run) + AllAsked(run) <= bound + 0
    BY <1>5, <1>7, <1>8, <1>11
  <2> QED
    BY <1>9, <2>1, <2>2 DEF Room, bound
<1> QED
  BY <1>1, <1>3, <1>12 DEF HasRoom

LEMMA StepKeepsMode == ASSUME NEW w \in Workers, Step(w) PROVE mode' = mode
<1>1. ASSUME NEW s, Answered(w, s) PROVE mode' = mode
  BY <1>1 DEF Answered, WorldRests
<1>2. CASE StartCycle(w) \/ StartManual(w) \/ Begin(w) \/ Finish(w) \/ Killed(w)
  BY <1>2 DEF StartCycle, StartManual, Begin, Finish, Killed
<1>3. CASE \/ Gather(w) \/ Decide(w) \/ Review(w) \/ Risk(w) \/ FinalDecision(w)
           \/ PortfolioRefuses(w)
  BY <1>1, <1>3 DEF Gather, Decide, Review, Risk, FinalDecision, PortfolioRefuses
<1>4. CASE \/ Refused(w) \/ ShadowFills(w) \/ LiveFills(w) \/ EmergencyCloses(w) \/ AttemptFails(w)
  BY <1>1, <1>4 DEF Refused, ShadowFills, LiveFills, EmergencyCloses, AttemptFails
<1> QED
  BY <1>2, <1>3, <1>4 DEF Step

LEMMA RoomKept == ASSUME RunsRight, RoomInv, [Next]_vars PROVE RoomInv'
<1>1. mode' = mode /\ (Shadow => HasRoom(run', open', manual'))
  <2>1. CASE \E w \in Workers : Step(w)
    BY <2>1, StepKeepsMode, StepRoom DEF RoomInv
  <2>2. CASE Outside
    <3>1. mode' = mode
      BY <2>2 DEF Outside
    <3> QED
      BY <2>2, <3>1, OutsideRoom DEF RoomInv
  <2>3. CASE UNCHANGED vars
    BY <2>3 DEF vars, RoomInv
  <2> QED
    BY <2>1, <2>2, <2>3 DEF Next
<1>2. Shadow' => Shadow
  BY <1>1 DEF Shadow
<1> QED
  BY <1>1, <1>2 DEF RoomInv, HasRoom, Room, Due, AllDue, AllAsked, DueBy, AnyBy, AskedBy

LEMMA RoomBounds == ASSUME RunsRight, RoomInv PROVE PositionsBounded
<1> SUFFICES ASSUME Shadow PROVE SumFunctionOnSet(open, Coins) <= MaxOpen * N + manual
  BY DEF PositionsBounded, N
<1>1. PICK m \in [Coins -> Nat] : Room(run, open, manual, m)
  BY DEF RoomInv, HasRoom
<1>2. AllDue(run) \in Nat /\ AllAsked(run) \in Nat /\ N \in Nat
  BY Counted
<1>3. SumFunctionOnSet(open, Coins) \in Nat
  BY Totals DEF RunsRight, WorldOK
<1> DEFINE bound == MaxOpen * N
<1>4. bound \in Int /\ manual \in Nat
  BY <1>2, BoundsAssumption DEF RunsRight, WorldOK
<1>5. SumFunctionOnSet(open, Coins) + AllDue(run) + AllAsked(run) <= bound + manual
  BY <1>1 DEF Room
<1> HIDE DEF bound
<1>6. SumFunctionOnSet(open, Coins) <= bound + manual
  BY <1>2, <1>3, <1>4, <1>5
<1> QED
  BY <1>6 DEF bound

(* In shadow mode the open positions stay within what the workers and the user's own    *)
(* runs can add to the limit.                                                           *)
THEOREM PositionsStayBounded == Spec => []PositionsBounded
<1>1. Init => RoomInv
  BY RoomStarts DEF RoomInv
<1>2. RunsRight /\ RoomInv /\ [Next]_vars => RoomInv'
  BY RoomKept
<1>3. RunsRight /\ RoomInv => PositionsBounded
  BY RoomBounds
<1> QED
  BY <1>1, <1>2, <1>3, RunsInvariance, PTL DEF Spec
--------------------------------------------------------------------------------
(* The halts: what a run may have done that began under one.                         *)

(* The fields of a run, and the steps before an order can be placed: a run that is  *)
(* at none of the steps is idle or about to commit.                                 *)
Fields == {"coins", "step", "attempt", "coin", "kind", "steps", "active", "seen", "final",
           "trade", "cut", "opened", "status", "row"}
Early == {"idle", "market_data", "technical", "strategy", "decision", "ai_review", "risk", "commit"}

Shape == DOMAIN run = Workers /\ \A w \in Workers : DOMAIN run[w] = Fields

(* A run without an order: what has to hold of it while the halt stands.            *)
Harmless(r) == r.step \in Early /\ r.opened = 0 /\ r.trade # "closed"

QueueInv ==
    /\ Shape /\ shut \subseteq Workers
    /\ \A w \in shut : halted # "none" /\ Harmless(run[w])

--------------------------------------------------------------------------------
(* What follows a step.                                                              *)

LEMMA Successors ==
    /\ StepNames[Place("market_data") + 1] = "technical"
    /\ StepNames[Place("technical") + 1] = "strategy"
    /\ StepNames[Place("strategy") + 1] = "decision"
    /\ StepNames[Place("decision") + 1] = "ai_review"
    /\ StepNames[Place("ai_review") + 1] = "risk"
<1>1. /\ DOMAIN StepNames = 1 .. 10
      /\ StepNames[1] = "market_data" /\ StepNames[2] = "technical" /\ StepNames[3] = "strategy"
      /\ StepNames[4] = "decision" /\ StepNames[5] = "ai_review" /\ StepNames[6] = "risk"
      /\ StepNames[7] = "final_decision" /\ StepNames[8] = "portfolio"
      /\ StepNames[9] = "position_manager" /\ StepNames[10] = "execution"
  BY DEF StepNames
<1>2. Place("market_data") = 1
  BY <1>1 DEF Place
<1>3. Place("technical") = 2
  BY <1>1 DEF Place
<1>4. Place("strategy") = 3
  BY <1>1 DEF Place
<1>5. Place("decision") = 4
  BY <1>1 DEF Place
<1>6. Place("ai_review") = 5
  BY <1>1 DEF Place
<1> QED BY <1>1, <1>2, <1>3, <1>4, <1>5, <1>6

(* Recording, stopping and passing on change neither the order nor the fields; what  *)
(* stops is about to commit, and what passes on before the risk step stays before    *)
(* the order.                                                                        *)
LEMMA StopsShape ==
    ASSUME NEW r, DOMAIN r = Fields, NEW result, NEW status
    PROVE  /\ DOMAIN Stops(r, result, status) = Fields
           /\ Stops(r, result, status).step = "commit"
           /\ Stops(r, result, status).opened = r.opened
           /\ Stops(r, result, status).trade = r.trade
BY DEF Stops, Ends, Recorded, Fields

LEMMA PassesShape ==
    ASSUME NEW r, DOMAIN r = Fields, NEW result
    PROVE  /\ DOMAIN Passes(r, result) = Fields
           /\ Passes(r, result).step = StepNames[Place(r.step) + 1]
           /\ Passes(r, result).opened = r.opened
           /\ Passes(r, result).trade = r.trade
BY DEF Passes, Recorded, Fields

LEMMA EarlyPasses ==
    ASSUME NEW r, DOMAIN r = Fields, NEW result, Harmless(r),
           r.step \in {"market_data", "technical", "strategy", "decision", "ai_review"}
    PROVE  Harmless(Passes(r, result))
BY PassesShape, Successors DEF Harmless, Early

LEMMA HarmlessStops ==
    ASSUME NEW r, DOMAIN r = Fields, NEW result, NEW status, Harmless(r)
    PROVE  Harmless(Stops(r, result, status))
BY StopsShape DEF Harmless, Early

LEMMA FailsShape ==
    ASSUME NEW r, DOMAIN r = Fields
    PROVE  DOMAIN Fails(r) = Fields /\ (Harmless(r) => Harmless(Fails(r)))
<1>1. CASE r.step \in {"technical", "strategy"}
  <2>1. Fails(r) = Passes(r, "failed")
    BY <1>1 DEF Fails
  <2> QED BY <1>1, <2>1, PassesShape, EarlyPasses
<1>2. CASE r.step \in {"market_data", "position_manager", "execution"}
  <2>1. Fails(r) = Stops(r, "failed", "FAILED")
    BY <1>2 DEF Fails
  <2> QED BY <2>1, StopsShape, HarmlessStops
<1>3. CASE r.step = "portfolio"
  <2>1. Fails(r) = Stops(r, "failed", "REJECTED")
    BY <1>3 DEF Fails
  <2> QED BY <2>1, StopsShape, HarmlessStops
<1>4. CASE r.step \notin {"technical", "strategy", "market_data", "position_manager", "execution",
                           "portfolio"}
  <2>1. Fails(r) = Stops(r, "failed", "HOLD")
    BY <1>4 DEF Fails
  <2> QED BY <2>1, StopsShape, HarmlessStops
<1> QED BY <1>1, <1>2, <1>3, <1>4

LEMMA AttemptsShape ==
    ASSUME NEW r, DOMAIN r = Fields
    PROVE  DOMAIN Attempts(r) = Fields /\ (Harmless(r) => Harmless(Attempts(r)))
BY FailsShape DEF Attempts, Harmless, Fields
--------------------------------------------------------------------------------
(* One run moves: the invariant is kept if the run is harmless under a halt.         *)

LEMMA MoveKeeps ==
    ASSUME QueueInv, NEW w \in Workers, NEW r, Goes(w, r), DOMAIN r = Fields,
           shut' \subseteq shut \cup {w}, w \in shut' => Harmless(r),
           shut' # {} => halted' # "none"
    PROVE  QueueInv'
BY DEF QueueInv, Shape, Goes, Harmless

LEMMA AnsweredKeeps ==
    ASSUME QueueInv, NEW w \in Workers, NEW r, Answered(w, r), DOMAIN r = Fields,
           w \in shut => Harmless(r)
    PROVE  QueueInv'
<1>1. Goes(w, r) /\ shut' = shut /\ halted' = halted
  BY DEF Answered, WorldRests
<1> QED BY <1>1, MoveKeeps DEF QueueInv

LEMMA NoRunShape ==
    /\ DOMAIN NoRun = Fields
    /\ NoRun.step = "idle" /\ NoRun.opened = 0 /\ NoRun.trade = "none"
BY DEF NoRun, Fields

LEMMA StartStep ==
    ASSUME QueueInv, NEW w \in Workers, StartCycle(w) \/ StartManual(w) PROVE QueueInv'
<1>1. shut' = shut /\ halted' = halted
  BY DEF StartCycle, StartManual
<1>2. CASE StartCycle(w)
  <2> DEFINE r == [NoRun EXCEPT !.coins = Coins, !.kind = "cycle"]
  <2>1. DOMAIN r = Fields /\ Harmless(r) /\ Goes(w, r)
    BY <1>2, NoRunShape DEF StartCycle, Fields, Harmless, Early, Goes
  <2> HIDE DEF r
  <2> QED BY <1>1, <2>1, MoveKeeps DEF QueueInv
<1>3. CASE StartManual(w)
  <2>1. PICK c \in Coins : run' = [run EXCEPT ![w] = [NoRun EXCEPT !.coins = {c}, !.kind = "manual",
                                                                !.active = active]]
    BY <1>3 DEF StartManual
  <2> DEFINE r == [NoRun EXCEPT !.coins = {c}, !.kind = "manual", !.active = active]
  <2>2. DOMAIN r = Fields /\ Harmless(r) /\ Goes(w, r)
    BY <2>1, NoRunShape DEF Fields, Harmless, Early, Goes
  <2> HIDE DEF r
  <2> QED BY <1>1, <2>2, MoveKeeps DEF QueueInv
<1> QED BY <1>2, <1>3

LEMMA BeginStep == ASSUME QueueInv, NEW w \in Workers, Begin(w) PROVE QueueInv'
<1>1. PICK c \in run[w].coins :
          run' = [run EXCEPT ![w] = [NoRun EXCEPT
                     !.coins = run[w].coins \ {c}, !.coin = c, !.kind = run[w].kind,
                     !.step = "market_data", !.active = run[w].active,
                     !.seen = Seen(run[w].kind)]]
  BY DEF Begin
<1> DEFINE r == [NoRun EXCEPT
                     !.coins = run[w].coins \ {c}, !.coin = c, !.kind = run[w].kind,
                     !.step = "market_data", !.active = run[w].active,
                     !.seen = Seen(run[w].kind)]
<1>2. DOMAIN r = Fields /\ Harmless(r) /\ Goes(w, r)
  BY <1>1, NoRunShape DEF Fields, Harmless, Early, Goes
<1> HIDE DEF r
<1>3. /\ shut' \subseteq shut \cup {w} /\ halted' = halted
      /\ shut' # {} => halted # "none"
  BY DEF Begin, QueueInv
<1> QED BY <1>2, <1>3, MoveKeeps

LEMMA GatherStep == ASSUME QueueInv, NEW w \in Workers, Gather(w) PROVE QueueInv'
<1>1. DOMAIN run[w] = Fields /\ Answered(w, Passes(run[w], "success"))
  BY DEF QueueInv, Shape, Gather
<1>2. ASSUME w \in shut PROVE Harmless(Passes(run[w], "success"))
  <2>1. Harmless(run[w])
    BY <1>2 DEF QueueInv
  <2>2. run[w].step \in {"market_data", "technical", "strategy"}
    BY <2>1 DEF Gather, At, Harmless, Early
  <2> QED BY <1>1, <2>1, <2>2, EarlyPasses
<1> QED BY <1>1, <1>2, PassesShape, AnsweredKeeps

LEMMA DecideStep == ASSUME QueueInv, NEW w \in Workers, Decide(w) PROVE QueueInv'
<1>1. DOMAIN run[w] = Fields /\ run[w].step = "decision" /\ (w \in shut => Harmless(run[w]))
  BY DEF QueueInv, Shape, Decide, At
<1>2. CASE Answered(w, Stops(run[w], "success", "HOLD"))
  BY <1>1, <1>2, StopsShape, HarmlessStops, AnsweredKeeps
<1>3. CASE Answered(w, Passes(run[w], "success"))
  BY <1>1, <1>3, PassesShape, EarlyPasses, AnsweredKeeps
<1>4. CASE Answered(w, [Recorded(run[w], "success") EXCEPT
                            !.steps = Skipped(@, Place("ai_review")), !.step = "risk"])
  <2> DEFINE r == [Recorded(run[w], "success") EXCEPT
                       !.steps = Skipped(@, Place("ai_review")), !.step = "risk"]
  <2>1. DOMAIN r = Fields /\ r.step = "risk" /\ r.opened = run[w].opened /\ r.trade = run[w].trade
    BY <1>1 DEF Recorded, Fields
  <2>2. Answered(w, r)
    BY <1>4
  <2> HIDE DEF r
  <2>3. w \in shut => Harmless(r)
    BY <1>1, <2>1 DEF Harmless, Early
  <2> QED BY <2>1, <2>2, <2>3, AnsweredKeeps
<1> QED BY <1>2, <1>3, <1>4 DEF Decide

LEMMA ReviewStep == ASSUME QueueInv, NEW w \in Workers, Review(w) PROVE QueueInv'
<1>1. DOMAIN run[w] = Fields /\ run[w].step = "ai_review" /\ (w \in shut => Harmless(run[w]))
  BY DEF QueueInv, Shape, Review, At
<1>2. CASE Answered(w, Stops(run[w], "success", "HOLD"))
  BY <1>1, <1>2, StopsShape, HarmlessStops, AnsweredKeeps
<1>3. CASE Answered(w, Passes(run[w], "success"))
  BY <1>1, <1>3, PassesShape, EarlyPasses, AnsweredKeeps
<1> QED BY <1>2, <1>3 DEF Review

(* The risk step lets nothing pass under a halt, and writes one only when there is    *)
(* none: nobody has begun under it.                                                   *)
LEMMA RiskStep == ASSUME QueueInv, NEW w \in Workers, Risk(w) PROVE QueueInv'
<1>1. DOMAIN run[w] = Fields /\ (w \in shut => Harmless(run[w]))
  BY DEF QueueInv, Shape
<1>2. CASE Permits(run[w]) /\ Answered(w, Passes(run[w], "success"))
  <2>1. w \notin shut
    BY <1>2 DEF Permits, QueueInv
  <2> QED BY <1>1, <1>2, <2>1, PassesShape, AnsweredKeeps
<1>3. CASE Answered(w, Stops(run[w], "success", "HOLD"))
  BY <1>1, <1>3, StopsShape, HarmlessStops, AnsweredKeeps
<1>4. CASE /\ halted = "none" /\ halted' \in {"switch", "risk"} /\ shut' = shut
           /\ Goes(w, Stops(run[w], "success", "HOLD"))
  <2>1. shut = {}
    BY <1>4 DEF QueueInv
  <2> QED BY <1>1, <1>4, <2>1, StopsShape, MoveKeeps
<1> QED BY <1>2, <1>3, <1>4 DEF Risk

(* A worker that is at one of the steps after the risk step did not begin under the   *)
(* halt, if there is one.                                                             *)
LEMMA Beyond ==
    ASSUME QueueInv, NEW w \in Workers,
           run[w].step \in {"final_decision", "portfolio", "position_manager", "execution"}
    PROVE  w \notin shut /\ DOMAIN run[w] = Fields
BY DEF QueueInv, Shape, Harmless, Early

LEMMA FinalDecisionStep == ASSUME QueueInv, NEW w \in Workers, FinalDecision(w) PROVE QueueInv'
<1>1. w \notin shut /\ DOMAIN run[w] = Fields
  BY Beyond DEF FinalDecision, At
<1>2. CASE Answered(w, Stops(run[w], "success", "HOLD"))
  BY <1>1, <1>2, StopsShape, AnsweredKeeps
<1>3. CASE Answered(w, [Passes(run[w], "success") EXCEPT !.final = "LONG"])
  <2> DEFINE r == [Passes(run[w], "success") EXCEPT !.final = "LONG"]
  <2>1. DOMAIN r = Fields /\ Answered(w, r)
    BY <1>1, <1>3, PassesShape
  <2> HIDE DEF r
  <2> QED BY <1>1, <2>1, AnsweredKeeps
<1> QED BY <1>2, <1>3 DEF FinalDecision

LEMMA PortfolioRefusesStep ==
    ASSUME QueueInv, NEW w \in Workers, PortfolioRefuses(w) PROVE QueueInv'
<1>1. w \notin shut /\ DOMAIN run[w] = Fields
  BY Beyond DEF PortfolioRefuses, At
<1> QED BY <1>1, StopsShape, AnsweredKeeps DEF PortfolioRefuses

--------------------------------------------------------------------------------
(* Execution.                                                                        *)

LEMMA CompletedShape ==
    ASSUME NEW r, DOMAIN r = Fields, NEW trade
    PROVE  DOMAIN Completed(r, trade) = Fields
<1> DEFINE done == [r EXCEPT !.trade = trade]
<1>1. DOMAIN done = Fields
  OBVIOUS
<1>2. DOMAIN Ends(Recorded(done, "success"), "COMPLETED", "none") = Fields
  BY <1>1 DEF Ends, Recorded
<1> HIDE DEF done
<1>3. /\ DOMAIN Stops(done, "success", "FAILED") = Fields
      /\ DOMAIN Stops(done, "success", "EMERGENCY_CLOSED") = Fields
  BY <1>1, StopsShape
<1>4. Completed(r, trade) =
        IF trade = "stuck" THEN Stops(done, "success", "FAILED")
        ELSE IF trade = "closed" THEN Stops(done, "success", "EMERGENCY_CLOSED")
        ELSE Ends(Recorded(done, "success"), "COMPLETED", "none")
  BY DEF Completed, done
<1> QED BY <1>2, <1>3, <1>4

LEMMA ExecutionStep ==
    ASSUME QueueInv, NEW w \in Workers,
           Refused(w) \/ ShadowFills(w) \/ LiveFills(w) \/ EmergencyCloses(w)
    PROVE  QueueInv'
<1>1. w \notin shut /\ DOMAIN run[w] = Fields /\ shut' = shut
  BY Beyond DEF Refused, ShadowFills, LiveFills, EmergencyCloses, At, Answered, WorldRests
<1>2. \A trade : DOMAIN Completed(run[w], trade) = Fields
  BY <1>1, CompletedShape
<1>3. CASE Refused(w)
  BY <1>1, <1>2, <1>3, AnsweredKeeps DEF Refused
<1>4. CASE ShadowFills(w)
  <2> DEFINE r == [Completed(run[w], "open") EXCEPT !.opened = 1]
  <2>1. DOMAIN r = Fields /\ Answered(w, r)
    BY <1>2, <1>4 DEF ShadowFills
  <2> HIDE DEF r
  <2> QED BY <1>1, <2>1, AnsweredKeeps
<1>5. CASE LiveFills(w)
  <2>1. PICK trade \in {"open", "stuck", "refused"} :
          Goes(w, [Completed(run[w], trade) EXCEPT !.opened = @ + 1, !.cut = @ \/ trade = "refused"])
    BY <1>5 DEF LiveFills
  <2> DEFINE r == [Completed(run[w], trade) EXCEPT !.opened = @ + 1, !.cut = @ \/ trade = "refused"]
  <2>2. DOMAIN r = Fields /\ Goes(w, r)
    BY <1>2, <2>1
  <2> HIDE DEF r
  <2>3. halted' = halted
    BY <1>5 DEF LiveFills
  <2> QED BY <1>1, <2>2, <2>3, MoveKeeps DEF QueueInv
<1>6. CASE EmergencyCloses(w)
  <2>1. Goes(w, Completed(run[w], "closed")) /\ halted' \in {"switch", halted}
    BY <1>6 DEF EmergencyCloses
  <2>2. shut' # {} => halted' # "none"
    BY <1>1, <2>1 DEF QueueInv
  <2> QED BY <1>1, <1>2, <2>1, <2>2, MoveKeeps
<1> QED BY <1>3, <1>4, <1>5, <1>6

(* A failed attempt before the risk step is still before it; only one at execution     *)
(* may have ordered.                                                                   *)
LEMMA AttemptFailsStep == ASSUME QueueInv, NEW w \in Workers, AttemptFails(w) PROVE QueueInv'
<1>1. DOMAIN run[w] = Fields /\ shut' = shut /\ halted' = halted
  BY DEF QueueInv, Shape, AttemptFails
<1>2. CASE Goes(w, Attempts(run[w]))
  BY <1>1, <1>2, AttemptsShape, MoveKeeps DEF QueueInv
<1>3. CASE At(w, "execution") /\ Goes(w, Attempts([run[w] EXCEPT !.cut = TRUE, !.opened = @ + 1]))
  <2>1. w \notin shut
    BY <1>3, Beyond DEF At
  <2> DEFINE r == [run[w] EXCEPT !.cut = TRUE, !.opened = @ + 1]
  <2>2. DOMAIN r = Fields /\ Goes(w, Attempts(r))
    BY <1>1, <1>3
  <2> HIDE DEF r
  <2> QED BY <1>1, <2>1, <2>2, AttemptsShape, MoveKeeps DEF QueueInv
<1> QED BY <1>2, <1>3 DEF AttemptFails

LEMMA EndStep ==
    ASSUME QueueInv, NEW w \in Workers, Finish(w) \/ Killed(w) PROVE QueueInv'
<1>1. shut' = shut /\ halted' = halted
  BY DEF Finish, Killed
<1>2. CASE Finish(w)
  <2> DEFINE r == [NoRun EXCEPT !.coins = run[w].coins, !.kind = run[w].kind,
                                !.active = run[w].active]
  <2>1. DOMAIN r = Fields /\ Harmless(r) /\ Goes(w, r)
    BY <1>2, NoRunShape DEF Finish, Fields, Harmless, Early
  <2> HIDE DEF r
  <2> QED BY <1>1, <2>1, MoveKeeps DEF QueueInv
<1>3. CASE Killed(w)
  BY <1>1, <1>3, NoRunShape, MoveKeeps DEF Killed, QueueInv, Harmless, Early
<1> QED BY <1>2, <1>3

--------------------------------------------------------------------------------

LEMMA QueueStarts == ASSUME Init PROVE QueueInv
BY NoRunShape DEF Init, QueueInv, Shape

LEMMA OutsideStep == ASSUME QueueInv, Outside PROVE QueueInv'
<1>1. run' = run /\ \/ shut' = shut /\ halted' = halted
                    \/ shut' = {}
  BY DEF Outside
<1> QED BY <1>1 DEF QueueInv, Shape, Harmless

LEMMA QueueKept == ASSUME QueueInv, [Next]_vars PROVE QueueInv'
<1>1. ASSUME NEW w \in Workers, Step(w) PROVE QueueInv'
  BY <1>1, StartStep, BeginStep, GatherStep, DecideStep, ReviewStep, RiskStep, FinalDecisionStep,
     PortfolioRefusesStep, ExecutionStep, AttemptFailsStep, EndStep
  DEF Step
<1>2. CASE UNCHANGED vars
  BY <1>2 DEF vars, QueueInv, Shape, Harmless
<1> QED BY <1>1, <1>2, OutsideStep DEF Next

(* Whoever began under the standing halt is harmless.                                   *)
THEOREM QueueInvariance == Spec => []QueueInv
<1>1. Init => QueueInv
  BY QueueStarts
<1>2. QueueInv /\ [Next]_vars => QueueInv'
  BY QueueKept
<1> QED BY <1>1, <1>2, PTL DEF Spec

(* However runs overlap, fail and are tried again, one that began under a halt places  *)
(* no order while the halt stands.                                                     *)
THEOREM QueueStops == Spec => []HaltStopsTheQueue
<1>1. QueueInv => HaltStopsTheQueue
  BY DEF QueueInv, Harmless, HaltStopsTheQueue
<1> QED BY <1>1, QueueInvariance, PTL
================================================================================
