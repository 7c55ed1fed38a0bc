------------------------------ MODULE ShadowProofs -----------------------------
(* Proofs about the shadow mode, the stream that starts its runs, the candles that   *)
(* feed it, the windows its strategies are validated on and the report made of it.    *)
(*                                                                                   *)
(* ShadowTrades, for any finite set of signals, any sets of monitors and risks, any  *)
(* budget and limit, with or without the two experiments, any number of workers and  *)
(* of failures: its invariants, and that it implements ShadowLedger.                  *)
(*                                                                                   *)
(* CandleStream, for every size of a batch, any number of messages, failures and      *)
(* ends of the process.                                                               *)
(*                                                                                    *)
(* CandleFeed, for any length of a candle and any page of a backfill, any number of   *)
(* lost connections and failures; WalkForward, for any lengths of the windows and of  *)
(* the step, any path of prices and any days missing from it; ShadowReport, for any   *)
(* lines and any length of the log.                                                   *)
EXTENDS ShadowTrades, CandleStream, CandleFeed, WalkForward, ShadowReport, SumTheorems

(* A row is there or it is NoRow.                                                    *)
Real(row) == row.status = "none" => row = NoRow

RowsInv == \A k \in Keys : Real(rows[k])

Unwritten(s) == \A v \in Versions : rows[<<s, v>>] = NoRow

(* Run s, being r: what it has inserted and not committed, what of it is committed,  *)
(* and what it may report of it.                                                     *)
RunOk(s, r) ==
    /\ \A v \in Versions : Real(r.mine[v])
    /\ Real(r.fast)
    /\ r.at # "done" => Unwritten(s)
    /\ r.at \in {"waiting", "judge", "save", "done"} => r.mine = NoRows
    /\ r.at \in {"save", "plan", "variant"} => r.tx = "open"
    /\ r.at \in {"plan", "variant"} => r.mine["baseline_v1"] # NoRow
    /\ r.mine["fast_exit_v2"] # NoRow => r.mine["baseline_v1"] # NoRow
    /\ r.at \notin {"log", "commit", "done"} => r.report = "none"
    /\ r.report = "rejected" => r.mine = NoRows /\ Unwritten(s)
    /\ Claims(r) => /\ r.at # "done" => r.tx = "open" /\ r.mine["baseline_v1"] # NoRow
                    /\ r.at = "done" => rows[<<s, "baseline_v1">>] # NoRow

RunsInv == \A s \in Signals : RunOk(s, run[s])

(* Of the row locks: who holds one has found the row open and no other monitor has   *)
(* it; who waits for one knows who holds it, and of two that wait one is ahead.      *)
HeldInv ==
    \A m \in Monitors, k \in Keys :
        mon[m].draft[k] # "none" =>
            /\ rows[k].status = "OPEN"
            /\ \A n \in Monitors \ {m} : mon[n].draft[k] = "none"

TurnInv ==
    \A m \in Monitors :
        /\ mon[m].queued => mon[m].next \in Keys
        /\ mon[m].next \notin mon[m].todo
        /\ \A k \in Keys : mon[m].draft[k] # "none" => k \notin mon[m].todo \cup {mon[m].next}

QueueInv ==
    \A m \in Monitors, n \in Monitors :
        m # n /\ mon[m].queued =>
            /\ mon[n].draft[mon[m].next] # "none" => n \in mon[m].behind
            /\ mon[n].queued /\ mon[n].next = mon[m].next
                  => n \in mon[m].behind \/ m \in mon[n].behind

MonitorsInv == HeldInv /\ TurnInv /\ QueueInv

Inv == TypeOK /\ RowsInv /\ RunsInv /\ MonitorsInv /\ ExperimentHasControl

(* What a step may do to a row that is there.                                        *)
RowsKept ==
    \A k \in Keys : rows[k] # NoRow =>
        /\ rows'[k].risk = rows[k].risk
        /\ rows[k].status # "OPEN" => rows'[k] = rows[k]

--------------------------------------------------------------------------------
(* The keys.                                                                         *)

LEMMA KeyFacts ==
    /\ NoKey \notin Keys
    /\ \A s \in Signals, v \in Versions : <<s, v>> \in Keys
    /\ \A k \in Keys, s \in Signals : k[1] = s => k[2] \in Versions /\ k = <<s, k[2]>>
<1>1. NoKey \notin Keys
  BY SignalsAssumption DEF NoKey, Keys, LegacyKey, Versions
<1>2. \A s \in Signals, v \in Versions : <<s, v>> \in Keys
  BY DEF Keys
<1>3. \A k \in Keys, s \in Signals : k[1] = s => k[2] \in Versions /\ k = <<s, k[2]>>
  BY SignalsAssumption DEF Keys, LegacyKey
<1> QED BY <1>1, <1>2, <1>3

LEMMA NoRowsFacts ==
    /\ NoRow \in Row /\ NoRow.status = "none"
    /\ \A v \in Versions : NoRows[v] = NoRow
    /\ NoRows \in [Versions -> Row]
BY DEF NoRow, NoRows, Row

LEMMA InitInv == Init => Inv
<1> SUFFICES ASSUME Init PROVE Inv
  OBVIOUS
<1> USE DEF Init
<1>1. TypeOK
  <2>1. rows \in [Keys -> Row]
    BY NoRowsFacts DEF NoRow, Row, Open
  <2>2. NewRun \in Run
    BY NoRowsFacts DEF NewRun, Run, Places
  <2>3. Idle \in Mon
    BY DEF Idle, Mon
  <2> QED BY <2>1, <2>2, <2>3, BoundsAssumption DEF TypeOK
<1>2. \A s \in Signals : Unwritten(s)
  <2>1. \A s \in Signals, v \in Versions : <<s, v>> \in Keys /\ <<s, v>> # LegacyKey
    BY SignalsAssumption DEF Keys, LegacyKey
  <2> QED BY <2>1 DEF Unwritten
<1>3. RowsInv
  BY DEF RowsInv, Real, Open, NoRow
<1>4. RunsInv
  BY <1>2, NoRowsFacts DEF RunsInv, RunOk, NewRun, Real, Claims, Versions
<1>5. MonitorsInv
  BY KeyFacts DEF MonitorsInv, HeldInv, TurnInv, QueueInv, Idle
<1>6. ExperimentHasControl
  BY <1>2 DEF ExperimentHasControl, Unwritten, Versions
<1> QED BY <1>1, <1>3, <1>4, <1>5, <1>6 DEF Inv
--------------------------------------------------------------------------------
(* A run moves and the table rests.                                                  *)

LEMMA RunMoves ==
    ASSUME Inv, NEW s \in Signals, NEW r \in Run, RunOk(s, r),
           Goes(s, r), StoreRests, faults' \in 0 .. MaxFaults
    PROVE  Inv' /\ RowsKept
<1> USE DEF Inv, Goes, StoreRests
<1>1. TypeOK'
  BY DEF TypeOK
<1>2. RunsInv'
  <2> SUFFICES ASSUME NEW q \in Signals PROVE RunOk(q, run[q])'
    BY DEF RunsInv
  <2>1. CASE q = s
    BY <2>1 DEF RunOk, Unwritten, Claims, TypeOK
  <2>2. CASE q # s
    BY <2>2 DEF RunsInv, RunOk, Unwritten, Claims, TypeOK
  <2> QED BY <2>1, <2>2
<1>3. RowsInv' /\ ExperimentHasControl' /\ RowsKept
  BY DEF RowsInv, Real, ExperimentHasControl, RowsKept
<1>4. MonitorsInv'
  BY DEF MonitorsInv, HeldInv, TurnInv, QueueInv
<1> QED BY <1>1, <1>2, <1>3, <1>4

LEMMA RunFacts ==
    ASSUME Inv, NEW s \in Signals
    PROVE  run[s] \in Run /\ RunOk(s, run[s])
BY DEF Inv, TypeOK, RunsInv

LEMMA FaultCounted ==
    ASSUME Inv, faults < MaxFaults, faults' = faults + 1
    PROVE  faults' \in 0 .. MaxFaults
BY BoundsAssumption DEF Inv, TypeOK
--------------------------------------------------------------------------------
(* The statements of a run.                                                          *)

LEMMA BeginStep ==
    ASSUME Inv, NEW s \in Signals, NEW kind \in {"cycle", "single"}, NEW risk \in Risks,
           Begin(s, kind, risk)
    PROVE  Inv' /\ RowsKept
<1> DEFINE r == [run[s] EXCEPT !.at = "judge", !.kind = kind, !.risk = risk]
<1>1. r \in Run
  BY RunFacts, RisksAssumption DEF Run, Places
<1>2. RunOk(s, r)
  BY RunFacts DEF RunOk, Run, Claims, Begin, At
<1> QED BY <1>1, <1>2, RunMoves DEF Begin, Inv, TypeOK

LEMMA RefusedOk ==
    ASSUME Inv, NEW s \in Signals, NEW r \in Run, r.mine = NoRows, Unwritten(s), Real(r.fast)
    PROVE  Refused(r) \in Run /\ RunOk(s, Refused(r))
<1>1. Refused(r) \in Run
  BY DEF Refused, Run, Places
<1> QED BY <1>1, NoRowsFacts DEF Refused, RunOk, Run, Claims, Real, Versions

LEMMA ExecutedOk ==
    ASSUME Inv, NEW s \in Signals, NEW r \in Run, Unwritten(s), Real(r.fast),
           \A v \in Versions : Real(r.mine[v]),
           r.mine["fast_exit_v2"] # NoRow => r.mine["baseline_v1"] # NoRow,
           r.hit \cap {"variant", "log", "commit"} = {}
              => r.tx = "open" /\ r.mine["baseline_v1"] # NoRow
    PROVE  Executed(r) \in Run /\ RunOk(s, Executed(r))
<1>1. Executed(r) \in Run
  BY DEF Executed, Run, Places
<1> QED BY <1>1 DEF Executed, RunOk, Run, Claims

LEMMA JudgeStep ==
    ASSUME Inv, NEW s \in Signals, Judge(s)
    PROVE  Inv' /\ RowsKept
<1> DEFINE saves == [run[s] EXCEPT !.at = "save"]
<1>1. Refused(run[s]) \in Run /\ RunOk(s, Refused(run[s]))
  BY RunFacts, RefusedOk DEF RunOk, Judge, At
<1>2. ASSUME run[s].tx = "open" PROVE saves \in Run /\ RunOk(s, saves)
  <2>1. saves \in Run
    BY RunFacts DEF Run, Places
  <2> QED BY <1>2, <2>1, RunFacts DEF RunOk, Run, Claims, Judge, At
<1>3. faults' \in 0 .. MaxFaults
  BY DEF Judge, Inv, TypeOK
<1>4. CASE run[s].tx = "open" /\ BaselineRisk(s)
  <2>1. Goes(s, saves) /\ StoreRests
    BY <1>4 DEF Judge
  <2> QED BY <1>2, <1>3, <1>4, <2>1, RunMoves
<1>5. CASE ~(run[s].tx = "open" /\ BaselineRisk(s))
  <2>1. Goes(s, Refused(run[s])) /\ StoreRests
    BY <1>5 DEF Judge
  <2> QED BY <1>1, <1>3, <2>1, RunMoves
<1> QED BY <1>4, <1>5

LEMMA OpenReal ==
    ASSUME NEW risk \in Nat
    PROVE  Open(risk) \in Row /\ Open(risk) # NoRow /\ Real(Open(risk))
BY DEF Open, Row, NoRow, Real

LEMMA SaveBaselineStep ==
    ASSUME Inv, NEW s \in Signals, SaveBaseline(s)
    PROVE  Inv' /\ RowsKept
<1> DEFINE saved == [run[s] EXCEPT !.mine["baseline_v1"] = Open(run[s].risk)]
           plans == [saved EXCEPT !.at = "plan"]
<1>1. run[s] \in Run /\ RunOk(s, run[s]) /\ run[s].at = "save"
  BY RunFacts DEF SaveBaseline, At
<1>2. View(s)[<<s, "baseline_v1">>] = NoRow
  BY <1>1, KeyFacts, NoRowsFacts DEF View, RunOk, Unwritten, Versions
<1>3. Goes(s, IF FastExit THEN plans ELSE Executed(saved)) /\ StoreRests /\ faults' = faults
  BY <1>2 DEF SaveBaseline
<1>4. Open(run[s].risk) \in Row /\ Open(run[s].risk) # NoRow /\ Real(Open(run[s].risk))
  BY <1>1, OpenReal DEF Run
<1>5. saved \in Run
  BY <1>1, <1>4 DEF Run
<1>6. /\ saved.mine["baseline_v1"] = Open(run[s].risk)
      /\ saved.mine["fast_exit_v2"] = run[s].mine["fast_exit_v2"]
      /\ \A f \in {"at", "kind", "tx", "risk", "fast", "report", "hit"} : saved[f] = run[s][f]
  BY <1>1 DEF Run, Versions
<1>7. \A v \in Versions : Real(saved.mine[v])
  BY <1>1, <1>4, <1>6 DEF RunOk, Versions
<1>8. Unwritten(s) /\ saved.tx = "open" /\ Real(saved.fast) /\ saved.report = "none"
  BY <1>1, <1>6 DEF RunOk
<1>9. plans \in Run /\ RunOk(s, plans)
  <2>1. plans \in Run
    BY <1>5 DEF Run, Places
  <2> QED BY <2>1, <1>4, <1>5, <1>6, <1>7, <1>8 DEF RunOk, Run, Claims
<1>10. Executed(saved) \in Run /\ RunOk(s, Executed(saved))
  BY <1>4, <1>5, <1>6, <1>7, <1>8, ExecutedOk
<1>11. faults' \in 0 .. MaxFaults
  BY <1>3 DEF Inv, TypeOK
<1>12. CASE FastExit
  BY <1>3, <1>9, <1>11, <1>12, RunMoves
<1>13. CASE ~FastExit
  BY <1>3, <1>10, <1>11, <1>13, RunMoves
<1> QED BY <1>12, <1>13

LEMMA PlanFastStep ==
    ASSUME Inv, NEW s \in Signals, PlanFast(s)
    PROVE  Inv' /\ RowsKept
<1>1. run[s] \in Run /\ RunOk(s, run[s]) /\ run[s].at = "plan"
  BY RunFacts DEF PlanFast, At
<1>2. faults' \in 0 .. MaxFaults /\ StoreRests
  BY DEF PlanFast, Inv, TypeOK
<1>3. ASSUME NEW row \in Row, Real(row), Goes(s, [run[s] EXCEPT !.at = "variant", !.fast = row])
      PROVE  Inv' /\ RowsKept
  <2> DEFINE r == [run[s] EXCEPT !.at = "variant", !.fast = row]
  <2>1. r \in Run
    BY <1>1 DEF Run, Places
  <2>2. RunOk(s, r)
    BY <1>1, <1>3 DEF RunOk, Run, Claims
  <2> QED BY <1>2, <1>3, <2>1, <2>2, RunMoves
<1>4. CASE \E row \in {Open(risk) : risk \in {x \in Risks : Fits(s, x)}} \cup {Rejected} :
              Goes(s, [run[s] EXCEPT !.at = "variant", !.fast = row])
  <2>1. Rejected \in Row /\ Real(Rejected)
    BY DEF Rejected, Row, Real
  <2>2. \A row \in {Open(risk) : risk \in {x \in Risks : Fits(s, x)}} : row \in Row /\ Real(row)
    BY OpenReal, RisksAssumption
  <2> QED BY <1>3, <1>4, <2>1, <2>2
<1>5. CASE Goes(s, Executed(run[s]))
  <2>1. Executed(run[s]) \in Run /\ RunOk(s, Executed(run[s]))
    BY <1>1, ExecutedOk DEF RunOk
  <2> QED BY <1>2, <1>5, <2>1, RunMoves
<1> QED BY <1>4, <1>5 DEF PlanFast

LEMMA SaveFastStep ==
    ASSUME Inv, NEW s \in Signals, SaveFast(s)
    PROVE  Inv' /\ RowsKept
<1> DEFINE saved == [run[s] EXCEPT !.mine["fast_exit_v2"] = run[s].fast]
<1>1. run[s] \in Run /\ RunOk(s, run[s]) /\ run[s].at = "variant"
  BY RunFacts DEF SaveFast, At
<1>2. faults' \in 0 .. MaxFaults /\ StoreRests
  BY DEF SaveFast, Inv, TypeOK
<1>3. saved \in Run
  BY <1>1 DEF Run
<1>4. /\ saved.mine["fast_exit_v2"] = run[s].fast
      /\ saved.mine["baseline_v1"] = run[s].mine["baseline_v1"]
      /\ saved.fast = run[s].fast /\ saved.tx = run[s].tx /\ saved.hit = run[s].hit
  BY <1>1 DEF Run, Versions
<1>5. \A v \in Versions : Real(saved.mine[v])
  BY <1>1, <1>4 DEF RunOk, Versions
<1>6. Executed(saved) \in Run /\ RunOk(s, Executed(saved))
  BY <1>1, <1>3, <1>4, <1>5, ExecutedOk DEF RunOk
<1>7. Executed(run[s]) \in Run /\ RunOk(s, Executed(run[s]))
  BY <1>1, ExecutedOk DEF RunOk
<1>8. Goes(s, Executed(saved)) \/ Goes(s, Executed(run[s]))
  BY DEF SaveFast
<1> QED BY <1>2, <1>6, <1>7, <1>8, RunMoves

LEMMA LogStep ==
    ASSUME Inv, NEW s \in Signals, LogDecision(s)
    PROVE  Inv' /\ RowsKept
<1> DEFINE r == [run[s] EXCEPT !.at = "commit"]
<1>1. r \in Run
  BY RunFacts DEF Run, Places
<1>2. RunOk(s, r)
  BY RunFacts DEF RunOk, Run, Claims, LogDecision, At
<1> QED BY <1>1, <1>2, RunMoves DEF LogDecision, Inv, TypeOK
--------------------------------------------------------------------------------
(* The failures of a run that leave the table as it is.                              *)

LEMMA HitsMoves ==
    ASSUME Inv, NEW s \in Signals, NEW r \in Run, NEW what,
           what \in {"baseline", "variant", "log", "commit", "timeout", "killed"},
           RunOk(s, [r EXCEPT !.hit = @ \cup {what}]), Hits(s, r, what), StoreRests
    PROVE  Inv' /\ RowsKept
<1>1. [r EXCEPT !.hit = @ \cup {what}] \in Run
  BY DEF Run
<1> QED BY <1>1, FaultCounted, RunMoves DEF Hits

LEMMA HitOk ==
    ASSUME NEW s \in Signals, NEW r \in Run, RunOk(s, r), NEW what
    PROVE  RunOk(s, [r EXCEPT !.hit = @ \cup {what}])
BY DEF RunOk, Run, Claims

LEMMA AbortedFacts ==
    ASSUME NEW r \in Run
    PROVE  /\ Aborted(r) \in Run /\ Aborted(r).mine = NoRows
           /\ Aborted(r).fast = r.fast /\ Aborted(r).at = r.at /\ Aborted(r).report = r.report
BY NoRowsFacts DEF Aborted, Run

LEMMA StatementFailsStep ==
    ASSUME Inv, NEW s \in Signals, StatementFails(s)
    PROVE  Inv' /\ RowsKept
<1>1. run[s] \in Run /\ RunOk(s, run[s]) /\ StoreRests
  BY RunFacts DEF StatementFails
<1>2. /\ Aborted(run[s]) \in Run /\ Aborted(run[s]).mine = NoRows
      /\ Aborted(run[s]).fast = run[s].fast /\ Aborted(run[s]).at = run[s].at
      /\ Aborted(run[s]).report = run[s].report
  BY <1>1, AbortedFacts
<1>3. CASE run[s].at \in {"judge", "save"} /\ Hits(s, Refused(Aborted(run[s])), "baseline")
  <2>1. Refused(Aborted(run[s])) \in Run /\ RunOk(s, Refused(Aborted(run[s])))
    BY <1>1, <1>2, <1>3, RefusedOk DEF RunOk
  <2> QED BY <1>1, <1>3, <2>1, HitOk, HitsMoves
<1>4. CASE run[s].at \in {"plan", "variant"} /\ Hits(s, Executed(Aborted(run[s])), "variant")
  <2> DEFINE r == Executed(Aborted(run[s]))
             hit == [r EXCEPT !.hit = @ \cup {"variant"}]
  <2>1. r \in Run
    BY <1>2 DEF Executed, Run, Places
  <2>2. hit.mine = NoRows /\ hit.fast = run[s].fast /\ hit.at = "log" /\ hit.report = "executed"
    BY <1>2, <2>1 DEF Executed, Run
  <2>3. "variant" \in hit.hit
    BY <2>1 DEF Run
  <2>4. RunOk(s, hit)
    BY <1>1, <1>4, <2>2, <2>3, NoRowsFacts DEF RunOk, Claims, Real, Versions
  <2> QED BY <1>1, <1>4, <2>1, <2>4, HitsMoves
<1>5. CASE /\ run[s].at = "log"
           /\ Hits(s, IF run[s].kind = "cycle"
                      THEN [Aborted(run[s]) EXCEPT !.at = "commit", !.tx = "invalid"]
                      ELSE [run[s] EXCEPT !.at = "commit"], "log")
  <2> DEFINE left  == [Aborted(run[s]) EXCEPT !.at = "commit", !.tx = "invalid"]
             goes == [run[s] EXCEPT !.at = "commit"]
             hit(r) == [r EXCEPT !.hit = @ \cup {"log"}]
  <2>1. CASE run[s].kind = "cycle"
    <3>1. left \in Run
      BY <1>2 DEF Run, Places
    <3>2. /\ hit(left).mine = NoRows /\ hit(left).fast = run[s].fast /\ hit(left).at = "commit"
          /\ hit(left).report = run[s].report
      BY <1>2, <3>1 DEF Run
    <3>3. "log" \in hit(left).hit
      BY <3>1 DEF Run
    <3>4. RunOk(s, hit(left))
      BY <1>1, <1>5, <3>2, <3>3, NoRowsFacts DEF RunOk, Claims, Real, Versions
    <3>5. Hits(s, left, "log")
      BY <1>5, <2>1
    <3> QED BY <1>1, <3>1, <3>4, <3>5, HitsMoves
  <2>2. CASE run[s].kind # "cycle"
    <3>1. goes \in Run
      BY <1>1 DEF Run, Places
    <3>2. RunOk(s, goes)
      BY <1>1, <1>5 DEF RunOk, Run, Claims
    <3>3. Hits(s, goes, "log")
      BY <1>5, <2>2
    <3> QED BY <1>1, <3>1, <3>2, <3>3, HitOk, HitsMoves
  <2> QED BY <2>1, <2>2
<1> QED BY <1>3, <1>4, <1>5 DEF StatementFails, At

LEMMA TimeoutStep ==
    ASSUME Inv, NEW s \in Signals, Timeout(s)
    PROVE  Inv' /\ RowsKept
<1> DEFINE r == [run[s] EXCEPT !.at = "judge", !.tx = "invalid", !.mine = NoRows]
<1>1. run[s].at \in {"judge", "save", "plan", "variant"} /\ Hits(s, r, "timeout") /\ StoreRests
  BY DEF Timeout, At
<1>2. r \in Run
  BY RunFacts, NoRowsFacts DEF Run, Places
<1>3. RunOk(s, r)
  BY <1>1, RunFacts, NoRowsFacts DEF RunOk, Run, Claims, Real, Versions
<1> QED BY <1>1, <1>2, <1>3, HitOk, HitsMoves

LEMMA KilledStep ==
    ASSUME Inv, NEW s \in Signals, Killed(s)
    PROVE  Inv' /\ RowsKept
<1> DEFINE r == [run[s] EXCEPT !.at = "done", !.mine = NoRows, !.fast = NoRow, !.report = "none"]
<1>1. Hits(s, r, "killed") /\ StoreRests
  BY DEF Killed
<1>2. r \in Run
  BY RunFacts, NoRowsFacts DEF Run, Places
<1>3. RunOk(s, r)
  BY NoRowsFacts, RunFacts DEF RunOk, Run, Claims, Real, Versions
<1> QED BY <1>1, <1>2, <1>3, HitOk, HitsMoves
--------------------------------------------------------------------------------
(* The end of a run's transaction.                                                   *)

LEMMA WrittenFacts ==
    ASSUME Inv, NEW s \in Signals
    PROVE  /\ Written(s) \in [Keys -> Row]
           /\ \A k \in Keys : Real(Written(s)[k])
           /\ \A k \in Keys : rows[k] # NoRow => Written(s)[k] = rows[k]
           /\ \A k \in Keys : k[1] # s => Written(s)[k] = rows[k]
           /\ \A v \in Versions : run[s].mine[v] # NoRow => Written(s)[<<s, v>>] = run[s].mine[v]
           /\ \A v \in Versions : run[s].mine[v] = NoRow => Written(s)[<<s, v>>] = rows[<<s, v>>]
<1>1. run[s] \in Run /\ RunOk(s, run[s]) /\ rows \in [Keys -> Row] /\ RowsInv
  BY RunFacts DEF Inv, TypeOK
<1>2. \A k \in Keys : k[1] = s => k[2] \in Versions /\ k = <<s, k[2]>>
  BY KeyFacts
<1>3. run[s].mine \in [Versions -> Row]
  BY <1>1 DEF Run
<1>4. Written(s) \in [Keys -> Row]
  BY <1>1, <1>2, <1>3 DEF Written
<1>5. \A k \in Keys : Real(Written(s)[k])
  BY <1>1, <1>2, <1>3 DEF Written, RunOk, RowsInv
<1>6. \A k \in Keys : rows[k] # NoRow => Written(s)[k] = rows[k]
  <2> SUFFICES ASSUME NEW k \in Keys, rows[k] # NoRow, k[1] = s, run[s].mine[k[2]] # NoRow
               PROVE  FALSE
    BY DEF Written
  <2>1. k[2] \in Versions /\ rows[<<s, k[2]>>] # NoRow
    BY <1>2
  <2>2. run[s].mine # NoRows
    BY <2>1, NoRowsFacts
  <2> QED BY <1>1, <2>1, <2>2 DEF RunOk, Unwritten
<1>7. \A k \in Keys : k[1] # s => Written(s)[k] = rows[k]
  BY DEF Written
<1>8. \A v \in Versions :
          /\ run[s].mine[v] # NoRow => Written(s)[<<s, v>>] = run[s].mine[v]
          /\ run[s].mine[v] = NoRow => Written(s)[<<s, v>>] = rows[<<s, v>>]
  BY KeyFacts DEF Written
<1> QED BY <1>4, <1>5, <1>6, <1>7, <1>8

LEMMA TransactionEnds ==
    ASSUME Inv, NEW s \in Signals, NEW r \in Run, rows' \in {rows, Written(s)},
           r.at = "done", r.mine = NoRows, r.fast = NoRow,
           r.report = "rejected" => run[s].mine = NoRows /\ Unwritten(s),
           Claims(r) => run[s].mine["baseline_v1"] # NoRow /\ rows' = Written(s),
           Goes(s, r), UNCHANGED <<due, mon>>, faults' \in 0 .. MaxFaults
    PROVE  Inv' /\ RowsKept
<1> USE DEF Goes
<1>1. /\ Written(s) \in [Keys -> Row]
      /\ \A k \in Keys : Real(Written(s)[k])
      /\ \A k \in Keys : rows[k] # NoRow => Written(s)[k] = rows[k]
      /\ \A k \in Keys : k[1] # s => Written(s)[k] = rows[k]
      /\ \A v \in Versions : run[s].mine[v] # NoRow => Written(s)[<<s, v>>] = run[s].mine[v]
      /\ \A v \in Versions : run[s].mine[v] = NoRow => Written(s)[<<s, v>>] = rows[<<s, v>>]
  BY WrittenFacts
<1>2. TypeOK /\ RowsInv /\ RunsInv /\ MonitorsInv /\ ExperimentHasControl
  BY DEF Inv
<1>3. TypeOK'
  BY <1>1, <1>2 DEF TypeOK
<1>4. RowsInv'
  BY <1>1, <1>2 DEF RowsInv, Real
<1>5. \A k \in Keys : rows[k] # NoRow => rows'[k] = rows[k]
  BY <1>1
<1>6. RowsKept
  BY <1>5 DEF RowsKept
<1>7. MonitorsInv'
  <2>1. \A k \in Keys : rows[k].status = "OPEN" => rows'[k].status = "OPEN"
    BY <1>5, NoRowsFacts
  <2>2. mon' = mon
    OBVIOUS
  <2>3. HeldInv'
    BY <1>2, <2>1, <2>2 DEF MonitorsInv, HeldInv
  <2> QED BY <1>2, <2>2, <2>3 DEF MonitorsInv, TurnInv, QueueInv
<1>8. \A q \in Signals \ {s}, v \in Versions : rows'[<<q, v>>] = rows[<<q, v>>]
  <2>1. \A q \in Signals \ {s}, v \in Versions : <<q, v>> \in Keys /\ <<q, v>>[1] # s
    BY KeyFacts
  <2> QED BY <1>1, <2>1
<1>9. run[s] \in Run /\ RunOk(s, run[s])
  BY RunFacts
<1>10. ExperimentHasControl'
  <2> SUFFICES ASSUME NEW q \in Signals, rows'[<<q, "fast_exit_v2">>] # NoRow
               PROVE  rows'[<<q, "baseline_v1">>] # NoRow
    BY DEF ExperimentHasControl
  <2>1. CASE q # s
    BY <1>2, <1>8, <2>1 DEF ExperimentHasControl, Versions
  <2>2. CASE q = s /\ run[s].mine["fast_exit_v2"] = NoRow
    <3>1. rows[<<s, "fast_exit_v2">>] # NoRow
      BY <1>1, <2>2 DEF Versions
    <3>2. rows[<<s, "baseline_v1">>] # NoRow
      BY <1>2, <3>1 DEF ExperimentHasControl
    <3>3. <<s, "baseline_v1">> \in Keys
      BY KeyFacts DEF Versions
    <3> QED BY <1>5, <2>2, <3>2, <3>3
  <2>3. CASE q = s /\ run[s].mine["fast_exit_v2"] # NoRow
    <3>1. run[s].mine["baseline_v1"] # NoRow
      BY <1>9, <2>3 DEF RunOk
    <3>2. CASE rows' = Written(s)
      BY <1>1, <2>3, <3>1, <3>2 DEF Versions
    <3>3. CASE rows' = rows
      BY <1>2, <2>3, <3>3 DEF ExperimentHasControl
    <3> QED BY <3>2, <3>3
  <2> QED BY <2>1, <2>2, <2>3
<1>11. RunsInv'
  <2> SUFFICES ASSUME NEW q \in Signals PROVE RunOk(q, run[q])'
    BY DEF RunsInv
  <2>1. CASE q # s
    <3>1. run'[q] = run[q] /\ RunOk(q, run[q])
      BY <1>2, <2>1 DEF TypeOK, RunsInv
    <3>2. \A v \in Versions : rows'[<<q, v>>] = rows[<<q, v>>]
      BY <1>8, <2>1
    <3> QED BY <3>1, <3>2 DEF RunOk, Unwritten, Claims, Real, Versions
  <2>2. CASE q = s
    <3>1. run'[q] = r
      BY <1>2, <2>2 DEF TypeOK
    <3>2. r.report = "rejected" => Unwritten(s)'
      <4> SUFFICES ASSUME r.report = "rejected", NEW v \in Versions
                   PROVE  rows'[<<s, v>>] = NoRow
        BY DEF Unwritten
      <4>1. run[s].mine[v] = NoRow /\ rows[<<s, v>>] = NoRow
        BY NoRowsFacts DEF Unwritten
      <4> QED BY <1>1, <4>1
    <3>3. Claims(r) => rows'[<<s, "baseline_v1">>] # NoRow
      BY <1>1 DEF Versions
    <3> QED BY <2>2, <3>1, <3>2, <3>3, NoRowsFacts DEF RunOk, Claims, Real, Versions
  <2> QED BY <2>1, <2>2
<1> QED BY <1>3, <1>4, <1>6, <1>7, <1>10, <1>11 DEF Inv

LEMMA CommitStep ==
    ASSUME Inv, NEW s \in Signals, Commit(s)
    PROVE  Inv' /\ RowsKept
<1> DEFINE r == [run[s] EXCEPT !.at = "done", !.mine = NoRows, !.fast = NoRow,
                               !.report = IF run[s].tx = "invalid" /\ run[s].kind = "single"
                                          THEN "error" ELSE @]
<1>1. run[s] \in Run /\ RunOk(s, run[s]) /\ run[s].at = "commit"
  BY RunFacts DEF Commit, At
<1>2. Goes(s, r) /\ UNCHANGED <<due, mon, faults>>
  BY DEF Commit, Ends
<1>3. rows' = IF run[s].tx = "open" THEN Written(s) ELSE rows
  BY DEF Commit
<1>4. r \in Run
  BY <1>1, NoRowsFacts DEF Run, Places
<1>5. /\ r.at = "done" /\ r.mine = NoRows /\ r.fast = NoRow /\ r.hit = run[s].hit
      /\ r.report \in {run[s].report, "error"}
  BY <1>1 DEF Run
<1>6. r.report = "rejected" => run[s].mine = NoRows /\ Unwritten(s)
  BY <1>1, <1>5 DEF RunOk
<1>7. Claims(r) => run[s].mine["baseline_v1"] # NoRow /\ rows' = Written(s)
  BY <1>1, <1>3, <1>5 DEF RunOk, Claims
<1>8. faults' \in 0 .. MaxFaults
  BY <1>2 DEF Inv, TypeOK
<1>9. rows' \in {rows, Written(s)}
  BY <1>3
<1> QED BY <1>2, <1>4, <1>5, <1>6, <1>7, <1>8, <1>9, TransactionEnds

LEMMA CommitFailsStep ==
    ASSUME Inv, NEW s \in Signals, CommitFails(s)
    PROVE  Inv' /\ RowsKept
<1> DEFINE r == [run[s] EXCEPT !.at = "done", !.mine = NoRows, !.fast = NoRow,
                               !.hit = @ \cup {"commit"},
                               !.report = IF run[s].kind = "single" THEN "error" ELSE @]
<1>1. run[s] \in Run /\ RunOk(s, run[s]) /\ run[s].at = "commit"
  BY RunFacts DEF CommitFails, At
<1>2. Goes(s, r) /\ UNCHANGED <<due, mon>> /\ rows' \in {rows, Written(s)}
  BY DEF CommitFails
<1>3. r \in Run
  BY <1>1, NoRowsFacts DEF Run, Places
<1>4. /\ r.at = "done" /\ r.mine = NoRows /\ r.fast = NoRow /\ "commit" \in r.hit
      /\ r.report \in {run[s].report, "error"}
  BY <1>1 DEF Run
<1>5. r.report = "rejected" => run[s].mine = NoRows /\ Unwritten(s)
  BY <1>1, <1>4 DEF RunOk
<1>6. ~Claims(r)
  BY <1>4 DEF Claims
<1>7. faults' \in 0 .. MaxFaults
  BY FaultCounted DEF CommitFails
<1> QED BY <1>2, <1>3, <1>4, <1>5, <1>6, <1>7, TransactionEnds
--------------------------------------------------------------------------------
(* The monitors.                                                                     *)

LEMMA MonitorMoves ==
    ASSUME Inv, UNCHANGED <<rows, due, run>>, faults' \in 0 .. MaxFaults,
           mon' \in [Monitors -> Mon], MonitorsInv'
    PROVE  Inv' /\ RowsKept
<1>1. TypeOK' /\ RowsInv' /\ ExperimentHasControl' /\ RowsKept
  BY DEF Inv, TypeOK, RowsInv, Real, ExperimentHasControl, RowsKept
<1>2. RunsInv'
  BY DEF Inv, RunsInv, RunOk, Unwritten, Claims, Real
<1> QED BY <1>1, <1>2 DEF Inv

LEMMA MonFacts ==
    ASSUME Inv, NEW m \in Monitors
    PROVE  /\ mon \in [Monitors -> Mon] /\ mon[m] \in Mon
           /\ mon[m].draft \in [Keys -> {"none", "OPEN"} \cup Closed]
           /\ mon[m].behind \subseteq Monitors
BY DEF Inv, TypeOK, Mon

LEMMA TurnsFacts ==
    ASSUME NEW mo \in Mon, NEW todo \in SUBSET Keys, NEW to \in Turns(mo, todo)
    PROVE  /\ to \in Mon /\ ~to.queued /\ to.draft = mo.draft
           /\ to.todo \subseteq todo /\ to.next \in todo \cup {NoKey} /\ to.next \notin to.todo
<1> DEFINE free == [mo EXCEPT !.todo = {}, !.next = NoKey, !.queued = FALSE]
<1>1. free \in Mon /\ ~free.queued /\ free.draft = mo.draft
  BY DEF Mon
<1>2. CASE todo = {}
  BY <1>1, <1>2 DEF Turns, Mon
<1>3. CASE todo # {}
  <2>1. PICK k \in todo : to = [free EXCEPT !.todo = todo \ {k}, !.next = k]
    BY <1>3 DEF Turns
  <2> QED BY <1>1, <2>1 DEF Mon
<1> QED BY <1>2, <1>3

LEMMA IdleFacts ==
    ASSUME NEW priced \in BOOLEAN
    PROVE  /\ [Idle EXCEPT !.priced = priced] \in Mon
           /\ \A k \in Keys : [Idle EXCEPT !.priced = priced].draft[k] = "none"
           /\ Idle \in Mon /\ ~Idle.queued /\ Idle.next = NoKey /\ Idle.todo = {}
           /\ \A k \in Keys : Idle.draft[k] = "none"
BY DEF Idle, Mon

LEMMA LookStep ==
    ASSUME Inv, NEW m \in Monitors, NEW priced \in BOOLEAN, Look(m, priced)
    PROVE  Inv' /\ RowsKept
<1> DEFINE start == [Idle EXCEPT !.priced = priced]
<1>1. start \in Mon /\ \A k \in Keys : start.draft[k] = "none"
  BY IdleFacts
<1>2. PICK mo \in Turns(start, OpenIn(rows)) : mon' = [mon EXCEPT ![m] = mo]
  BY DEF Look
<1> HIDE DEF start
<1>3. /\ mo \in Mon /\ ~mo.queued /\ \A k \in Keys : mo.draft[k] = "none"
      /\ mo.next \notin mo.todo
  <2>1. OpenIn(rows) \in SUBSET Keys
    BY DEF OpenIn
  <2>2. mo \in Mon /\ ~mo.queued /\ mo.draft = start.draft /\ mo.next \notin mo.todo
    BY <1>1, <2>1, TurnsFacts
  <2> QED BY <1>1, <2>2
<1>4. faults' \in 0 .. MaxFaults
  BY FaultCounted DEF Look, Inv, TypeOK
<1>5. rows' = rows /\ UNCHANGED <<run, due>>
  BY DEF Look, RunsRest
<1>6. /\ mon' \in [Monitors -> Mon] /\ mon'[m] = mo
      /\ \A n \in Monitors \ {m} : mon'[n] = mon[n]
  BY <1>2, <1>3, MonFacts
<1>7. MonitorsInv
  BY DEF Inv
<1>8. HeldInv'
  BY <1>3, <1>5, <1>6, <1>7 DEF MonitorsInv, HeldInv
<1>9. TurnInv'
  BY <1>3, <1>6, <1>7 DEF MonitorsInv, TurnInv
<1>10. QueueInv'
  BY <1>3, <1>6, <1>7 DEF MonitorsInv, QueueInv, TurnInv
<1> QED BY <1>4, <1>5, <1>6, <1>8, <1>9, <1>10, MonitorMoves DEF MonitorsInv

LEMMA QueueStep ==
    ASSUME Inv, NEW m \in Monitors, Queue(m)
    PROVE  Inv' /\ RowsKept
<1> DEFINE mo == [mon[m] EXCEPT !.queued = TRUE, !.behind = Ahead(m)]
<1>1. /\ rows' = rows /\ UNCHANGED <<run, due, faults>> /\ mon[m].next # NoKey
      /\ ~mon[m].queued /\ mon' = [mon EXCEPT ![m] = mo]
  BY DEF Queue, RunsRest
<1>2. mon \in [Monitors -> Mon] /\ mon[m] \in Mon
  BY MonFacts
<1>3. Ahead(m) = {n \in Monitors \ {m} : \/ mon[m].next \in Held(n)
                                         \/ mon[n].queued /\ mon[n].next = mon[m].next}
  BY <1>1 DEF Ahead
<1>4. /\ mo \in Mon /\ mo.queued /\ mo.behind = Ahead(m)
      /\ mo.next = mon[m].next /\ mo.todo = mon[m].todo /\ mo.draft = mon[m].draft
  BY <1>2, <1>3 DEF Mon
<1>5. /\ mon' \in [Monitors -> Mon] /\ mon'[m] = mo
      /\ \A n \in Monitors \ {m} : mon'[n] = mon[n]
  BY <1>1, <1>2, <1>4
<1>6. MonitorsInv /\ faults' \in 0 .. MaxFaults
  BY <1>1 DEF Inv, TypeOK
<1>7. mon[m].next \in Keys
  BY <1>1, <1>2 DEF Mon
<1> HIDE DEF mo
<1>8. HeldInv'
  BY <1>1, <1>4, <1>5, <1>6 DEF MonitorsInv, HeldInv
<1>9. TurnInv'
  BY <1>4, <1>5, <1>6, <1>7 DEF MonitorsInv, TurnInv
<1>10. QueueInv'
  BY <1>3, <1>4, <1>5, <1>6, <1>7 DEF MonitorsInv, QueueInv, Held
<1> QED BY <1>1, <1>5, <1>6, <1>8, <1>9, <1>10, MonitorMoves DEF MonitorsInv

(* Who turns to a row that nobody is ahead of is the only one there: no other        *)
(* monitor holds it, and those that wait for it wait for this one.                   *)
LEMMA NobodyAhead ==
    ASSUME Inv, NEW m \in Monitors, mon[m].next \in Keys, Ahead(m) = {},
           NEW n \in Monitors \ {m}
    PROVE  /\ mon[n].draft[mon[m].next] = "none"
           /\ mon[n].queued /\ mon[n].next = mon[m].next => m \in mon[n].behind
<1>1. QueueInv
  BY DEF Inv, MonitorsInv
<1>2. CASE mon[m].queued
  BY <1>1, <1>2 DEF Ahead, QueueInv
<1>3. CASE ~mon[m].queued
  BY <1>3 DEF Ahead, Held
<1> QED BY <1>2, <1>3

LEMMA VisitStep ==
    ASSUME Inv, NEW m \in Monitors, Visit(m)
    PROVE  Inv' /\ RowsKept
<1> DEFINE k == mon[m].next
<1>1. /\ k # NoKey /\ Ahead(m) = {} /\ rows' = rows /\ UNCHANGED <<run, due, faults>>
  BY DEF Visit, RunsRest
<1>2. PICK end \in Updated(m, k), to \in Turns(mon[m], mon[m].todo) :
         mon' = [n \in Monitors |-> IF n = m THEN [to EXCEPT !.draft[k] = end]
                                    ELSE IF end = "none" /\ mon[n].next = k
                                    THEN [mon[n] EXCEPT !.behind = @ \ {m}]
                                    ELSE mon[n]]
  BY DEF Visit
<1> DEFINE mo == [to EXCEPT !.draft[k] = end]
<1>3. mon \in [Monitors -> Mon] /\ mon[m] \in Mon /\ k \in Keys /\ mon[m].todo \subseteq Keys
  BY <1>1, MonFacts DEF Mon
<1>4. /\ to \in Mon /\ ~to.queued /\ to.draft = mon[m].draft
      /\ to.todo \subseteq mon[m].todo /\ to.next \in mon[m].todo \cup {NoKey}
      /\ to.next \notin to.todo
  BY <1>3, TurnsFacts
<1>5. /\ end \in {"none", "OPEN"} \cup Closed
      /\ end # "none" => rows[k].status = "OPEN"
  BY DEF Updated, Outcomes, Closed
<1>6. /\ mo \in Mon /\ ~mo.queued /\ mo.todo = to.todo /\ mo.next = to.next
      /\ mo.draft[k] = end
      /\ \A l \in Keys \ {k} : mo.draft[l] = mon[m].draft[l]
  BY <1>3, <1>4, <1>5 DEF Mon
<1>7. /\ mon'[m] = mo
      /\ \A n \in Monitors \ {m} :
            /\ mon'[n] \in Mon
            /\ mon'[n].queued = mon[n].queued /\ mon'[n].next = mon[n].next
            /\ mon'[n].todo = mon[n].todo /\ mon'[n].draft = mon[n].draft
            /\ mon'[n].behind = IF end = "none" /\ mon[n].next = k
                                THEN mon[n].behind \ {m} ELSE mon[n].behind
  BY <1>2, <1>3 DEF Mon
<1> HIDE DEF mo
<1>8. mon' \in [Monitors -> Mon]
  <2>1. \A n \in Monitors : mon'[n] \in Mon
    BY <1>6, <1>7
  <2> QED BY <1>2, <2>1
<1>9. MonitorsInv /\ faults' \in 0 .. MaxFaults
  BY <1>1 DEF Inv, TypeOK
<1>10. \A n \in Monitors \ {m} : /\ mon[n].draft[k] = "none"
                                 /\ mon[n].queued /\ mon[n].next = k => m \in mon[n].behind
  BY <1>1, <1>3, NobodyAhead
<1>11. HeldInv'
  <2> SUFFICES ASSUME NEW n \in Monitors, NEW l \in Keys, mon'[n].draft[l] # "none"
               PROVE  /\ rows[l].status = "OPEN"
                      /\ \A o \in Monitors \ {n} : mon'[o].draft[l] = "none"
    BY <1>1 DEF HeldInv
  <2>1. CASE l = k
    <3>1. \A o \in Monitors \ {m} : mon'[o].draft[k] = "none"
      BY <1>7, <1>10
    <3>2. n = m
      BY <2>1, <3>1
    <3>3. rows[k].status = "OPEN"
      BY <1>5, <1>6, <1>7, <2>1, <3>2
    <3> QED BY <2>1, <3>1, <3>2, <3>3
  <2>2. CASE l # k
    <3>1. \A o \in Monitors : mon'[o].draft[l] = mon[o].draft[l]
      BY <1>6, <1>7, <2>2
    <3> QED BY <1>9, <3>1 DEF MonitorsInv, HeldInv
  <2> QED BY <2>1, <2>2
<1>12. TurnInv'
  <2> SUFFICES ASSUME NEW n \in Monitors
               PROVE  /\ mon'[n].queued => mon'[n].next \in Keys
                      /\ mon'[n].next \notin mon'[n].todo
                      /\ \A l \in Keys : mon'[n].draft[l] # "none"
                             => l \notin mon'[n].todo \cup {mon'[n].next}
    BY DEF TurnInv
  <2>1. CASE n # m
    BY <1>7, <1>9, <2>1 DEF MonitorsInv, TurnInv
  <2>2. CASE n = m
    <3>1. k \notin mon[m].todo
      BY <1>9 DEF MonitorsInv, TurnInv
    <3>2. mo.next \notin mo.todo
      BY <1>4, <1>6
    <3>3. \A l \in Keys : mo.draft[l] # "none" => l \notin mo.todo \cup {mo.next}
      BY <1>1, <1>4, <1>6, <1>9, <3>1, KeyFacts DEF MonitorsInv, TurnInv
    <3> QED BY <1>6, <1>7, <2>2, <3>2, <3>3
  <2> QED BY <2>1, <2>2
<1>13. QueueInv'
  <2> SUFFICES ASSUME NEW n \in Monitors, NEW o \in Monitors, n # o, mon'[n].queued
               PROVE  /\ mon'[o].draft[mon'[n].next] # "none" => o \in mon'[n].behind
                      /\ mon'[o].queued /\ mon'[o].next = mon'[n].next
                            => o \in mon'[n].behind \/ n \in mon'[o].behind
    BY DEF QueueInv
  <2>1. n # m /\ mon[n].queued /\ mon[n].next \in Keys
    BY <1>6, <1>7, <1>9 DEF MonitorsInv, TurnInv
  <2>2. CASE o = m
    <3>1. ~mon'[o].queued
      BY <1>6, <1>7, <2>2
    <3>2. ASSUME mon'[m].draft[mon[n].next] # "none" PROVE m \in mon'[n].behind
      <4>1. CASE mon[n].next = k
        BY <1>6, <1>7, <1>10, <2>1, <3>2, <4>1
      <4>2. CASE mon[n].next # k
        BY <1>6, <1>7, <1>9, <2>1, <3>2, <4>2 DEF MonitorsInv, QueueInv
      <4> QED BY <4>1, <4>2
    <3> QED BY <1>7, <2>1, <2>2, <3>1, <3>2
  <2>3. CASE o # m
    <3>1. /\ mon[o].draft[mon[n].next] # "none" => o \in mon[n].behind
          /\ mon[o].queued /\ mon[o].next = mon[n].next
                => o \in mon[n].behind \/ n \in mon[o].behind
      BY <1>9, <2>1 DEF MonitorsInv, QueueInv
    <3> QED BY <1>7, <2>1, <2>3, <3>1
  <2> QED BY <2>2, <2>3
<1> QED BY <1>1, <1>8, <1>9, <1>11, <1>12, <1>13, MonitorMoves DEF MonitorsInv

(* A monitor leaves: its locks are free and nobody waits for it.  What it held may   *)
(* have been closed; what others hold is as open as it was.                          *)
LEMMA LeavesKeeps ==
    ASSUME Inv, NEW m \in Monitors, Leaves(m),
           \A n \in Monitors \ {m}, k \in Keys :
               mon[n].draft[k] # "none" => rows'[k].status = "OPEN"
    PROVE  mon' \in [Monitors -> Mon] /\ MonitorsInv'
<1>1. mon \in [Monitors -> Mon] /\ MonitorsInv
  BY DEF Inv, TypeOK
<1>2. /\ mon'[m] = Idle
      /\ \A n \in Monitors \ {m} :
            /\ mon'[n] \in Mon
            /\ mon'[n].queued = mon[n].queued /\ mon'[n].next = mon[n].next
            /\ mon'[n].todo = mon[n].todo /\ mon'[n].draft = mon[n].draft
            /\ mon'[n].behind = mon[n].behind \ {m}
  BY <1>1 DEF Leaves, Mon
<1>3. /\ Idle \in Mon /\ ~Idle.queued /\ Idle.todo = {}
      /\ \A k \in Keys : Idle.draft[k] = "none"
  BY IdleFacts
<1>4. mon' \in [Monitors -> Mon]
  <2>1. \A n \in Monitors : mon'[n] \in Mon
    BY <1>2, <1>3
  <2> QED BY <2>1 DEF Leaves
<1>5. HeldInv'
  BY <1>1, <1>2, <1>3 DEF MonitorsInv, HeldInv
<1>6. TurnInv'
  BY <1>1, <1>2, <1>3 DEF MonitorsInv, TurnInv
<1>7. QueueInv'
  <2> SUFFICES ASSUME NEW n \in Monitors, NEW o \in Monitors, n # o, mon'[n].queued
               PROVE  /\ mon'[o].draft[mon'[n].next] # "none" => o \in mon'[n].behind
                      /\ mon'[o].queued /\ mon'[o].next = mon'[n].next
                            => o \in mon'[n].behind \/ n \in mon'[o].behind
    BY DEF QueueInv
  <2>1. n # m /\ mon[n].queued /\ mon[n].next \in Keys
    BY <1>1, <1>2, <1>3 DEF MonitorsInv, TurnInv
  <2>2. CASE o = m
    BY <1>2, <1>3, <2>1, <2>2
  <2>3. CASE o # m
    BY <1>1, <1>2, <2>1, <2>3 DEF MonitorsInv, QueueInv
  <2> QED BY <2>2, <2>3
<1> QED BY <1>4, <1>5, <1>6, <1>7 DEF MonitorsInv

LEMMA RolledBack ==
    ASSUME Inv, NEW m \in Monitors, Leaves(m), RunsRest, rows' = rows, faults' \in 0 .. MaxFaults
    PROVE  Inv' /\ RowsKept
<1>1. \A n \in Monitors \ {m}, k \in Keys :
         mon[n].draft[k] # "none" => rows'[k].status = "OPEN"
  BY DEF Inv, MonitorsInv, HeldInv
<1> QED BY <1>1, LeavesKeeps, MonitorMoves DEF RunsRest

LEMMA FinishStep ==
    ASSUME Inv, NEW m \in Monitors, Finish(m)
    PROVE  Inv' /\ RowsKept
<1>1. /\ rows' = [k \in Keys |-> IF k \in Held(m)
                                 THEN [rows[k] EXCEPT !.status = mon[m].draft[k]]
                                 ELSE rows[k]]
      /\ due' = {k \in due : rows'[k].status = "OPEN"}
      /\ Leaves(m) /\ UNCHANGED <<run, faults>>
  BY DEF Finish
<1>2. TypeOK /\ RowsInv /\ RunsInv /\ MonitorsInv /\ ExperimentHasControl
  BY DEF Inv
<1>3. \A k \in Keys : k \in Held(m) <=> mon[m].draft[k] # "none"
  BY DEF Held
<1>4. \A k \in Keys : mon[m].draft[k] # "none" => mon[m].draft[k] \in {"OPEN"} \cup Closed
  BY MonFacts
<1>5. \A k \in Keys :
         /\ rows'[k] \in Row /\ Real(rows'[k])
         /\ rows[k] = NoRow => rows'[k] = NoRow
         /\ rows[k] # NoRow => rows'[k] # NoRow
         /\ rows'[k].risk = rows[k].risk
         /\ rows[k].status # "OPEN" => rows'[k] = rows[k]
  <2> SUFFICES ASSUME NEW k \in Keys
               PROVE  /\ rows'[k] \in Row /\ Real(rows'[k])
                      /\ rows[k] = NoRow => rows'[k] = NoRow
                      /\ rows[k] # NoRow => rows'[k] # NoRow
                      /\ rows'[k].risk = rows[k].risk
                      /\ rows[k].status # "OPEN" => rows'[k] = rows[k]
    OBVIOUS
  <2>1. rows[k] \in Row /\ Real(rows[k])
    BY <1>2 DEF TypeOK, RowsInv
  <2>2. CASE k \in Held(m)
    <3>1. rows[k].status = "OPEN" /\ mon[m].draft[k] \in {"OPEN"} \cup Closed
      BY <1>2, <1>3, <1>4, <2>2 DEF MonitorsInv, HeldInv
    <3>2. rows'[k] = [rows[k] EXCEPT !.status = mon[m].draft[k]]
      BY <1>1, <2>2
    <3> QED BY <2>1, <3>1, <3>2 DEF Row, Real, NoRow, Closed
  <2>3. CASE k \notin Held(m)
    BY <1>1, <2>1, <2>3
  <2> QED BY <2>2, <2>3
<1>6. RowsInv' /\ RowsKept
  BY <1>5 DEF RowsInv, Real, RowsKept
<1>7. mon' \in [Monitors -> Mon] /\ MonitorsInv'
  <2>1. \A n \in Monitors \ {m}, k \in Keys :
           mon[n].draft[k] # "none" => rows'[k].status = "OPEN"
    BY <1>1, <1>2, <1>3 DEF MonitorsInv, HeldInv
  <2> QED BY <1>1, <2>1, LeavesKeeps
<1>8. TypeOK'
  <2>1. rows' \in [Keys -> Row]
    BY <1>1, <1>5
  <2> QED BY <1>1, <1>2, <1>7, <2>1 DEF TypeOK
<1>9. \A s \in Signals, v \in Versions :
         /\ <<s, v>> \in Keys
         /\ rows[<<s, v>>] = NoRow <=> rows'[<<s, v>>] = NoRow
  BY <1>5, KeyFacts
<1>10. ExperimentHasControl'
  BY <1>2, <1>9 DEF ExperimentHasControl, Versions
<1>11. RunsInv'
  <2> SUFFICES ASSUME NEW s \in Signals PROVE RunOk(s, run[s])'
    BY DEF RunsInv
  <2>1. RunOk(s, run[s]) /\ run'[s] = run[s]
    BY <1>1, <1>2 DEF RunsInv
  <2>2. Unwritten(s) => Unwritten(s)'
    BY <1>9 DEF Unwritten
  <2>3. rows[<<s, "baseline_v1">>] # NoRow => rows'[<<s, "baseline_v1">>] # NoRow
    BY <1>9 DEF Versions
  <2> QED BY <2>1, <2>2, <2>3 DEF RunOk, Claims, Real
<1> QED BY <1>6, <1>7, <1>8, <1>10, <1>11 DEF Inv

LEMMA ExpireStep ==
    ASSUME Inv, NEW k \in Keys, Expire(k)
    PROVE  Inv' /\ RowsKept
<1>1. TypeOK' /\ RowsInv' /\ MonitorsInv' /\ ExperimentHasControl' /\ RowsKept
  BY DEF Inv, TypeOK, Expire, RowsInv, Real, MonitorsInv, HeldInv, TurnInv, QueueInv,
         ExperimentHasControl, RowsKept
<1>2. RunsInv'
  BY DEF Inv, Expire, RunsInv, RunOk, Unwritten, Claims, Real
<1> QED BY <1>1, <1>2 DEF Inv
--------------------------------------------------------------------------------
(* All steps.                                                                        *)

LEMMA StepInv ==
    ASSUME Inv, [Next]_vars
    PROVE  Inv' /\ RowsKept
<1>1. CASE vars' = vars
  <2>1. TypeOK' /\ RowsInv' /\ MonitorsInv' /\ ExperimentHasControl' /\ RowsKept
    BY <1>1 DEF vars, Inv, TypeOK, RowsInv, Real, MonitorsInv, HeldInv, TurnInv, QueueInv,
                ExperimentHasControl, RowsKept
  <2>2. RunsInv'
    BY <1>1 DEF vars, Inv, RunsInv, RunOk, Unwritten, Claims, Real
  <2> QED BY <2>1, <2>2 DEF Inv
<1>2. ASSUME NEW s \in Signals, NEW kind \in {"cycle", "single"}, NEW risk \in Risks,
             Begin(s, kind, risk)
      PROVE  Inv' /\ RowsKept
  BY <1>2, BeginStep
<1>3. ASSUME NEW s \in Signals,
             \/ Judge(s) \/ SaveBaseline(s) \/ PlanFast(s) \/ SaveFast(s)
             \/ LogDecision(s) \/ Commit(s)
             \/ StatementFails(s) \/ CommitFails(s) \/ Timeout(s) \/ Killed(s)
      PROVE  Inv' /\ RowsKept
  BY <1>3, JudgeStep, SaveBaselineStep, PlanFastStep, SaveFastStep, LogStep, CommitStep,
     StatementFailsStep, CommitFailsStep, TimeoutStep, KilledStep
<1>4. ASSUME NEW m \in Monitors, NEW priced \in BOOLEAN, Look(m, priced)
      PROVE  Inv' /\ RowsKept
  BY <1>4, LookStep
<1>5. ASSUME NEW m \in Monitors, Queue(m) \/ Visit(m) \/ Finish(m)
      PROVE  Inv' /\ RowsKept
  BY <1>5, QueueStep, VisitStep, FinishStep
<1>6. ASSUME NEW m \in Monitors, Deadlocked(m) \/ MonitorFails(m)
      PROVE  Inv' /\ RowsKept
  <2>1. faults' \in 0 .. MaxFaults
    BY <1>6, FaultCounted DEF Deadlocked, MonitorFails, Inv, TypeOK
  <2>2. Leaves(m) /\ RunsRest /\ rows' = rows
    BY <1>6 DEF Deadlocked, MonitorFails
  <2> QED BY <2>1, <2>2, RolledBack
<1>7. ASSUME NEW k \in Keys, Expire(k)
      PROVE  Inv' /\ RowsKept
  BY <1>7, ExpireStep
<1>8. CASE Next
  BY <1>2, <1>3, <1>4, <1>5, <1>6, <1>7, <1>8 DEF Next
<1> QED BY <1>1, <1>8

(* The invariant holds of every reachable state.                                     *)
THEOREM Invariance == Spec => []Inv
<1>1. Init => Inv
  BY InitInv
<1>2. Inv /\ [Next]_vars => Inv'
  BY StepInv
<1> QED BY <1>1, <1>2, PTL DEF Spec

(* Type correctness, for every instance.                                             *)
THEOREM TypeCorrect == Spec => []TypeOK
<1>1. Inv => TypeOK
  BY DEF Inv
<1> QED BY <1>1, Invariance, PTL

(* A trade that a run reported as executed is there, unless a statement of its own   *)
(* after the trade's or its commit failed: no refusal, retry, race or monitor loses  *)
(* it (analysis_worker.py:286).                                                      *)
THEOREM Executes == Spec => []ExecutedHasTrade
<1>1. ASSUME Inv, NEW s \in Signals, At(s, "done"), run[s].report = "executed",
             run[s].hit \cap {"variant", "log", "commit"} = {}
      PROVE  rows[<<s, "baseline_v1">>].status # "none"
  <2>1. rows[<<s, "baseline_v1">>] # NoRow
    BY <1>1, RunFacts DEF RunOk, Claims, At
  <2>2. <<s, "baseline_v1">> \in Keys
    BY KeyFacts DEF Versions
  <2> QED BY <1>1, <2>1, <2>2 DEF Inv, RowsInv, Real
<1>2. Inv => ExecutedHasTrade
  BY <1>1 DEF ExecutedHasTrade
<1> QED BY <1>2, Invariance, PTL

(* A refused run leaves no row, whatever an attempt cut off by the timeout inserted  *)
(* (the rollback of the cancelled session).                                          *)
THEOREM Refuses == Spec => []RefusalLeavesNothing
<1>1. Inv => RefusalLeavesNothing
  BY DEF Inv, RunsInv, RunOk, Unwritten, RefusalLeavesNothing
<1> QED BY <1>1, Invariance, PTL

(* An experiment's row has its control: both go in one transaction, the control      *)
(* first (SHADOW_FAST_EXIT_V2.md).                                                   *)
THEOREM Control == Spec => []ExperimentHasControl
<1>1. Inv => ExperimentHasControl
  BY DEF Inv
<1> QED BY <1>1, Invariance, PTL

(* No trade is closed twice or changed when closed, however many monitors overlap    *)
(* (close_trade: no double close).                                                   *)
THEOREM Closes == Spec => ClosedOnce
<1>1. Inv /\ [Next]_vars
         => [\A k \in Keys : rows[k] # NoRow =>
               /\ rows'[k].risk = rows[k].risk
               /\ rows[k].status # "OPEN" => rows'[k] = rows[k]]_vars
  BY StepInv DEF RowsKept
<1> QED BY <1>1, Invariance, PTL DEF Spec, ClosedOnce

--------------------------------------------------------------------------------
(* The risk that is open.                                                            *)

(* No run opens more than that unseen.                                               *)
Most == IF Unseen < Limit THEN Unseen ELSE Limit

(* What run r has opened in its transaction, or has been allowed to.                 *)
Stake(r) == Inserted(r) + (IF r.at = "save" THEN r.risk ELSE 0)
                        + (IF r.at = "variant" THEN AtStake(r.fast) ELSE 0)

StakeOk(r) ==
    /\ Stake(r) <= Most
    /\ r.at = "save" => r.risk <= Budget
    /\ r.at \in {"plan", "variant"} =>
          FastExit /\ Inserted(r) <= Budget /\ r.mine["fast_exit_v2"] = NoRow

Stakes == SumFunctionOnSet([s \in Signals |-> Stake(run[s])], Signals)

RiskInv ==
    /\ Cardinality(Running) <= Workers
    /\ Active => /\ \A s \in Signals : StakeOk(run[s])
                 /\ RiskOf(rows) + Stakes <= Limit + (Workers - 1) * Most

(* There are finitely many keys.                                                     *)
LEMMA KeysFinite == IsFiniteSet(Keys) /\ IsFiniteSet(Signals) /\ IsFiniteSet(Running)
<1>1. IsFiniteSet(Versions)
  <2>1. Versions = {"baseline_v1"} \cup {"fast_exit_v2"}
    BY DEF Versions
  <2> QED BY <2>1, FS_Singleton, FS_Union
<1>2. IsFiniteSet(Signals \X Versions)
  BY <1>1, SignalsAssumption, FS_Product
<1>3. IsFiniteSet(Keys)
  BY <1>2, FS_Singleton, FS_Union DEF Keys
<1> QED BY <1>3, SignalsAssumption, FS_Subset DEF Running

(* What a row has at stake.                                                          *)
LEMMA AtStakeType == ASSUME NEW row \in Row PROVE AtStake(row) \in Nat /\ AtStake(row) <= row.risk
BY DEF AtStake, Row

(* A table's open risk, as a sum over the keys.                                       *)
LEMMA RiskType ==
    ASSUME NEW view \in [Keys -> Row]
    PROVE  /\ RiskOf(view) = SumFunctionOnSet([k \in Keys |-> AtStake(view[k])], Keys)
           /\ RiskOf(view) \in Nat
<1> DEFINE f == [k \in Keys |-> AtStake(view[k])]
<1>1. RiskOf(view) = SumFunctionOnSet(f, Keys)
  BY DEF RiskOf, SumFunction, SumFunctionOnSet, FoldFunction
<1>2. \A k \in Keys : f[k] \in Nat
  BY AtStakeType
<1> HIDE DEF f
<1>3. SumFunctionOnSet(f, Keys) \in Nat
  BY <1>2, KeysFinite, SumIsNatural
<1> QED BY <1>1, <1>3 DEF f

(* With less at stake in every row, the open risk is less.                            *)
LEMMA RiskLess ==
    ASSUME NEW view \in [Keys -> Row], NEW later \in [Keys -> Row],
           \A k \in Keys : AtStake(later[k]) <= AtStake(view[k])
    PROVE  RiskOf(later) <= RiskOf(view)
<1> DEFINE f == [k \in Keys |-> AtStake(view[k])]
           g == [k \in Keys |-> AtStake(later[k])]
<1>1. RiskOf(view) = SumFunctionOnSet(f, Keys) /\ RiskOf(later) = SumFunctionOnSet(g, Keys)
  BY RiskType
<1>2. \A k \in Keys : g[k] \in Int /\ f[k] \in Int /\ g[k] <= f[k]
  BY AtStakeType
<1> HIDE DEF f, g
<1>3. SumFunctionOnSet(g, Keys) <= SumFunctionOnSet(f, Keys)
  BY <1>2, KeysFinite, SumOfLess
<1> QED BY <1>1, <1>3

(* A new row adds what it has at stake.                                               *)
LEMMA RiskAdded ==
    ASSUME NEW view \in [Keys -> Row], NEW later \in [Keys -> Row], NEW k \in Keys,
           \A l \in Keys \ {k} : later[l] = view[l]
    PROVE  RiskOf(later) = RiskOf(view) - AtStake(view[k]) + AtStake(later[k])
<1> DEFINE f == [l \in Keys |-> AtStake(view[l])]
           g == [l \in Keys |-> AtStake(later[l])]
<1>1. RiskOf(view) = SumFunctionOnSet(f, Keys) /\ RiskOf(later) = SumFunctionOnSet(g, Keys)
  BY RiskType
<1>2. \A l \in Keys : g[l] \in Int /\ f[l] \in Int
  BY AtStakeType
<1>3. \A l \in Keys \ {k} : g[l] = f[l]
  OBVIOUS
<1>4. f[k] = AtStake(view[k]) /\ g[k] = AtStake(later[k])
  OBVIOUS
<1> HIDE DEF f, g
<1>5. SumFunctionOnSet(g, Keys) = SumFunctionOnSet(f, Keys) - f[k] + g[k]
  BY <1>2, <1>3, KeysFinite, SumOfChanged
<1> QED BY <1>1, <1>4, <1>5

(* What a run sees is what is committed and what it has opened itself.                *)
LEMMA Seen ==
    ASSUME Inv, NEW s \in Signals, run[s].at # "done"
    PROVE  /\ View(s) \in [Keys -> Row] /\ Written(s) = View(s)
           /\ RiskOf(View(s)) = RiskOf(rows) + Inserted(run[s])
<1> DEFINE b == <<s, "baseline_v1">>
           f == <<s, "fast_exit_v2">>
           half == [rows EXCEPT ![b] = View(s)[b]]
<1>1. View(s) = Written(s) /\ View(s) \in [Keys -> Row] /\ rows \in [Keys -> Row]
  BY WrittenFacts DEF View, Written, Inv, TypeOK
<1>2. run[s] \in Run /\ Unwritten(s) /\ run[s].mine \in [Versions -> Row]
  BY RunFacts DEF RunOk, Run
<1>3. b \in Keys /\ f \in Keys /\ b # f /\ rows[b] = NoRow /\ rows[f] = NoRow
  BY <1>2, KeyFacts DEF Unwritten, Versions
<1>4. View(s)[b] = run[s].mine["baseline_v1"] /\ View(s)[f] = run[s].mine["fast_exit_v2"]
  BY <1>1, <1>3, WrittenFacts DEF Versions
<1>5. \A k \in Keys \ {b, f} : View(s)[k] = rows[k]
  <2> SUFFICES ASSUME NEW k \in Keys, k # b, k # f PROVE View(s)[k] = rows[k]
    OBVIOUS
  <2>1. k[1] # s
    BY KeyFacts DEF Versions
  <2> QED BY <1>1, <2>1, WrittenFacts
<1>6. half \in [Keys -> Row] /\ half[b] = View(s)[b]
  BY <1>1, <1>3
<1>7. (\A k \in Keys \ {b} : half[k] = rows[k]) /\ (\A k \in Keys \ {f} : View(s)[k] = half[k])
  BY <1>1, <1>3, <1>5
<1>8. half[f] = NoRow
  BY <1>3, <1>7
<1> HIDE DEF half
<1>9. RiskOf(half) = RiskOf(rows) - AtStake(rows[b]) + AtStake(half[b])
  BY <1>1, <1>3, <1>6, <1>7, RiskAdded
<1>10. RiskOf(View(s)) = RiskOf(half) - AtStake(half[f]) + AtStake(View(s)[f])
  BY <1>1, <1>3, <1>6, <1>7, RiskAdded
<1>11. AtStake(NoRow) = 0
  BY DEF AtStake, NoRow
<1>12. /\ RiskOf(rows) \in Nat /\ RiskOf(half) \in Nat
       /\ AtStake(View(s)[b]) \in Nat /\ AtStake(View(s)[f]) \in Nat
  BY <1>1, <1>3, <1>6, RiskType, AtStakeType
<1>13. Inserted(run[s]) = AtStake(View(s)[b]) + AtStake(View(s)[f])
  BY <1>4 DEF Inserted
<1> HIDE DEF b, f
<1>14. RiskOf(half) = RiskOf(rows) + AtStake(View(s)[b])
  BY <1>3, <1>6, <1>9, <1>11, <1>12
<1>15. RiskOf(View(s)) = RiskOf(half) + AtStake(View(s)[f])
  BY <1>8, <1>10, <1>11, <1>12
<1> QED BY <1>1, <1>12, <1>13, <1>14, <1>15

--------------------------------------------------------------------------------
(* How a step of one run moves the sum of the stakes.                                 *)

(* The limits are numbers.                                                            *)
LEMMA LimitsType == Budget \in Nat /\ Limit \in Nat /\ Workers \in Nat \ {0} /\ Most \in Nat /\ Most <= Limit
BY LimitsAssumption, BoundsAssumption DEF Most, Unseen

(* So is what a run has at stake; what it has inserted is a part of that.             *)
LEMMA StakeType ==
    ASSUME NEW r \in Run
    PROVE  Inserted(r) \in Nat /\ Stake(r) \in Nat /\ Inserted(r) <= Stake(r)
<1>1. /\ AtStake(r.mine["baseline_v1"]) \in Nat /\ AtStake(r.mine["fast_exit_v2"]) \in Nat
      /\ AtStake(r.fast) \in Nat /\ r.risk \in Nat
  BY AtStakeType DEF Run, Versions
<1> QED BY <1>1 DEF Inserted, Stake

LEMMA NothingInserted ==
    ASSUME NEW r \in Run, r.mine = NoRows
    PROVE  Inserted(r) = 0
<1>1. AtStake(NoRow) = 0
  BY DEF AtStake, NoRow
<1> QED BY <1>1, NoRowsFacts DEF Inserted, Versions

(* A run that has not begun or is over has nothing at stake.                          *)
LEMMA RestingStake ==
    ASSUME Inv, NEW s \in Signals, s \notin Running
    PROVE  Stake(run[s]) = 0
<1>1. run[s].at \in {"waiting", "done"}
  BY DEF Running, At
<1>2. run[s] \in Run /\ run[s].mine = NoRows
  BY <1>1, RunFacts DEF RunOk
<1> QED BY <1>1, <1>2, NothingInserted DEF Stake

(* The stakes add up.                                                                 *)
LEMMA StakesType ==
    ASSUME Inv
    PROVE  /\ Stakes \in Nat
           /\ \A s \in Signals : [q \in Signals |-> Stake(run[q])][s] \in Nat
<1> DEFINE f == [q \in Signals |-> Stake(run[q])]
<1>1. \A s \in Signals : f[s] \in Nat
  BY RunFacts, StakeType
<1> HIDE DEF f
<1>2. SumFunctionOnSet(f, Signals) \in Nat
  BY <1>1, KeysFinite, SumIsNatural
<1> QED BY <1>1, <1>2 DEF f, Stakes

(* A step of one run changes the sum by the change of its stake.                      *)
LEMMA StakesMove ==
    ASSUME Inv, NEW s \in Signals, NEW r \in Run, Goes(s, r)
    PROVE  Stakes' = Stakes - Stake(run[s]) + Stake(r)
<1> DEFINE f == [q \in Signals |-> Stake(run[q])]
           g == [q \in Signals |-> Stake(run'[q])]
<1>1. run'[s] = r /\ \A q \in Signals \ {s} : run'[q] = run[q]
  BY DEF Goes, Inv, TypeOK
<1>2. \A q \in Signals : f[q] \in Int /\ g[q] \in Int
  <2>1. \A q \in Signals : Stake(run[q]) \in Int /\ Stake(run'[q]) \in Int
    BY <1>1, RunFacts, StakeType
  <2> QED BY <2>1
<1>3. f[s] = Stake(run[s]) /\ g[s] = Stake(r) /\ \A q \in Signals \ {s} : g[q] = f[q]
  BY <1>1
<1>4. Stakes = SumFunctionOnSet(f, Signals) /\ Stakes' = SumFunctionOnSet(g, Signals)
  BY DEF Stakes
<1> HIDE DEF f, g
<1>5. SumFunctionOnSet(g, Signals) = SumFunctionOnSet(f, Signals) - f[s] + g[s]
  BY <1>2, <1>3, KeysFinite, SumOfChanged
<1> QED BY <1>3, <1>4, <1>5

(* A product grows with its factor.                                                   *)
LEMMA MoreTimes ==
    ASSUME NEW k \in Nat, NEW m \in Nat, NEW n \in Nat, m <= n
    PROVE  k * m <= n * k
<1>1. k * (n - m) \in Nat
  BY n - m \in Nat, Z3
<1>2. n * k = k * m + k * (n - m)
  BY Z3
<1> QED BY <1>1, <1>2, Z3

(* The others that run at the same time have at most Most at stake each.              *)
LEMMA OthersStake ==
    ASSUME Inv, RiskInv, Active, NEW s \in Running
    PROVE  Stakes <= Stake(run[s]) + (Workers - 1) * Most
<1> DEFINE f == [q \in Signals |-> Stake(run[q])]
           others == Signals \ {s}
           busy   == Running \ {s}
<1>1. s \in Signals /\ busy \in SUBSET others /\ IsFiniteSet(others) /\ IsFiniteSet(busy)
  BY KeysFinite, FS_Subset DEF Running
<1>2. \A q \in Signals : f[q] \in Nat
  BY StakesType
<1>3. \A q \in others \ busy : f[q] = 0
  BY RestingStake DEF Running
<1>4. \A q \in busy : f[q] <= Most
  BY DEF RiskInv, StakeOk, Running
<1>5. f[s] = Stake(run[s]) /\ Stakes = SumFunctionOnSet(f, Signals)
  BY <1>1 DEF Stakes
<1> HIDE DEF f
<1>6. SumFunctionOnSet(f, Signals) = f[s] + SumFunctionOnSet(f, others)
  BY <1>1, <1>2, KeysFinite, SumWithout
<1>7. SumFunctionOnSet(f, busy) = SumFunctionOnSet(f, others)
  BY <1>1, <1>2, <1>3, SumOfPart
<1>8. SumFunctionOnSet(f, busy) <= Most * Cardinality(busy)
  <2>1. \A q \in busy : f[q] \in Int /\ f[q] <= Most
    BY <1>1, <1>2, <1>4
  <2>2. Most \in Int
    BY LimitsType
  <2> QED BY <1>1, <2>1, <2>2, SumOfAtMost
<1>9. Cardinality(busy) = Cardinality(Running) - 1 /\ Cardinality(busy) \in Nat
  BY <1>1, KeysFinite, FS_RemoveElement, FS_CardinalityType
<1>10. Cardinality(busy) <= Workers - 1 /\ Workers - 1 \in Nat
  BY <1>9, KeysFinite, FS_CardinalityType, LimitsType DEF RiskInv
<1>11. Most * Cardinality(busy) <= (Workers - 1) * Most
  BY <1>9, <1>10, LimitsType, MoreTimes
<1>12. SumFunctionOnSet(f, others) <= (Workers - 1) * Most
  <2>1. Most * Cardinality(busy) \in Int /\ (Workers - 1) * Most \in Int
    BY <1>9, LimitsType, Z3
  <2>2. SumFunctionOnSet(f, others) \in Nat
    BY <1>1, <1>2, SumIsNatural
  <2> QED BY <1>7, <1>8, <1>11, <2>1, <2>2
<1>13. f[s] \in Nat /\ SumFunctionOnSet(f, others) \in Nat
  BY <1>1, <1>2, SumIsNatural
<1> DEFINE bound == (Workers - 1) * Most
           rest  == SumFunctionOnSet(f, others)
<1>14. bound \in Int
  BY LimitsType, Z3
<1> HIDE DEF bound, rest
<1>15. rest \in Nat /\ rest <= bound /\ Stakes = f[s] + rest
  BY <1>5, <1>6, <1>12, <1>13 DEF bound, rest
<1>16. Stakes <= f[s] + bound
  BY <1>13, <1>14, <1>15
<1> QED BY <1>5, <1>16 DEF bound

--------------------------------------------------------------------------------
(* The steps of a run.                                                               *)

Bound == Limit + (Workers - 1) * Most

LEMMA BoundType == Bound \in Int
BY LimitsType, Z3 DEF Bound

(* No more runs are under way while one goes on or ends.                              *)
LEMMA StillRunning ==
    ASSUME Inv, RiskInv, NEW s \in Signals, NEW r \in Run, Goes(s, r), run[s].at # "waiting",
           run[s].at = "done" => r.at = "done"
    PROVE  Cardinality(Running)' <= Workers
<1>1. Running' \in SUBSET Running
  BY DEF Running, At, Goes, Inv, TypeOK
<1>2. Cardinality(Running') <= Cardinality(Running) /\ Cardinality(Running) \in Nat
  BY <1>1, KeysFinite, FS_Subset, FS_CardinalityType
<1>3. Cardinality(Running') \in Nat
  BY <1>1, KeysFinite, FS_Subset, FS_CardinalityType
<1> QED BY <1>2, <1>3, LimitsType DEF RiskInv

(* A step of a run that has the open risk and its stake together grow by nothing, or  *)
(* has judged them, keeps the bound.                                                  *)
LEMMA RunStep ==
    ASSUME Inv, RiskInv, NEW s \in Signals, NEW r \in Run, Goes(s, r), TypeOK',
           Cardinality(Running)' <= Workers,
           Active => /\ StakeOk(r)
                     /\ \/ RiskOf(rows') + Stake(r) <= RiskOf(rows) + Stake(run[s])
                        \/ /\ s \in Running
                           /\ RiskOf(rows') + Stake(r) <= Limit
    PROVE  RiskInv'
<1> SUFFICES ASSUME Active
             PROVE  /\ \A q \in Signals : StakeOk(run'[q])
                    /\ RiskOf(rows') + Stakes' <= Bound
  BY DEF RiskInv, Active, Bound, Most, Unseen
<1>1. \A q \in Signals : StakeOk(run'[q])
  BY DEF RiskInv, Goes, Inv, TypeOK
<1>2. Stakes' = Stakes - Stake(run[s]) + Stake(r)
  BY StakesMove
<1>3. /\ Stakes \in Nat /\ Stake(run[s]) \in Nat /\ Stake(r) \in Nat
      /\ RiskOf(rows) \in Nat /\ RiskOf(rows') \in Nat
  BY RunFacts, StakesType, StakeType, RiskType DEF Inv, TypeOK
<1>4. Bound \in Int /\ Limit \in Nat /\ Bound - Limit = (Workers - 1) * Most
  <2>1. (Workers - 1) * Most \in Int
    BY LimitsType, Z3
  <2> QED BY <2>1, LimitsType DEF Bound
<1>5. RiskOf(rows) + Stakes <= Bound
  BY DEF RiskInv, Bound
<1>6. CASE RiskOf(rows') + Stake(r) <= RiskOf(rows) + Stake(run[s])
  BY <1>1, <1>2, <1>3, <1>4, <1>5, <1>6
<1>7. CASE s \in Running /\ RiskOf(rows') + Stake(r) <= Limit
  <2>1. Stakes <= Stake(run[s]) + (Bound - Limit)
    BY <1>4, <1>7, OthersStake
  <2> QED BY <1>1, <1>2, <1>3, <1>4, <1>7, <2>1
<1> QED BY <1>6, <1>7

(* A step of a run that leaves the table alone and puts nothing more at stake.        *)
LEMMA NoMore ==
    ASSUME Inv, RiskInv, NEW s \in Signals, NEW r \in Run, Goes(s, r), TypeOK', rows' = rows,
           s \in Running, Active => StakeOk(r) /\ Stake(r) <= Stake(run[s])
    PROVE  RiskInv'
<1>1. Cardinality(Running)' <= Workers
  BY StillRunning DEF Running, At
<1>2. /\ Stake(run[s]) \in Nat /\ Stake(r) \in Nat /\ RiskOf(rows) \in Nat
  BY RunFacts, StakeType, RiskType DEF Inv, TypeOK
<1> QED BY <1>1, <1>2, RunStep

(* With nothing inserted, there is nothing at stake outside of an insertion.          *)
LEMMA NothingAtStake ==
    ASSUME NEW r \in Run, r.mine = NoRows, r.at \notin {"save", "plan", "variant"}
    PROVE  Stake(r) = 0 /\ StakeOk(r)
BY NothingInserted, LimitsType DEF Stake, StakeOk

(* A run begins with nothing at stake.                                                *)
LEMMA BeginRisk ==
    ASSUME Inv, RiskInv, NEW s \in Signals, NEW kind \in {"cycle", "single"}, NEW risk \in Risks,
           Begin(s, kind, risk)
    PROVE  RiskInv'
<1> DEFINE r == [run[s] EXCEPT !.at = "judge", !.kind = kind, !.risk = risk]
<1>1. run[s] \in Run /\ run[s].at = "waiting" /\ run[s].mine = NoRows
  BY RunFacts DEF RunOk, Begin, At
<1>2. r \in Run /\ r.mine = NoRows /\ r.at = "judge"
  BY <1>1, RisksAssumption DEF Run, Places
<1>3. TypeOK'
  BY BeginStep DEF Inv
<1>4. Goes(s, r) /\ rows' = rows /\ Cardinality(Running) < Workers
  BY DEF Begin, StoreRests
<1> HIDE DEF r
<1>5. Cardinality(Running)' <= Workers
  <2>1. Running' = Running \cup {s} /\ s \notin Running
    BY <1>1, <1>2, <1>4 DEF Running, At, Goes, Inv, TypeOK
  <2>2. Cardinality(Running') = Cardinality(Running) + 1
    BY <2>1, KeysFinite, FS_AddElement
  <2> QED BY <1>4, <2>2, KeysFinite, FS_CardinalityType, LimitsType
<1>6. Stake(r) = 0 /\ StakeOk(r) /\ Stake(run[s]) = 0
  BY <1>1, <1>2, NothingAtStake
<1>7. RiskOf(rows) \in Nat
  BY RiskType DEF Inv, TypeOK
<1> QED BY <1>2, <1>3, <1>4, <1>5, <1>6, <1>7, RunStep

(* The baseline is judged with everything that is committed.                          *)
LEMMA JudgeRisk ==
    ASSUME Inv, RiskInv, NEW s \in Signals, Judge(s)
    PROVE  RiskInv'
<1> DEFINE saves == [run[s] EXCEPT !.at = "save"]
<1>1. run[s] \in Run /\ run[s].at = "judge" /\ run[s].mine = NoRows
  BY RunFacts DEF RunOk, Judge, At
<1>2. TypeOK' /\ rows' = rows /\ s \in Running
  BY <1>1, JudgeStep DEF Inv, Judge, StoreRests, Running, At
<1>3. CASE run[s].tx = "open" /\ BaselineRisk(s)
  <2>1. Goes(s, saves)
    BY <1>3 DEF Judge
  <2>2. /\ saves \in Run /\ saves.at = "save" /\ saves.mine = NoRows
        /\ saves.risk = run[s].risk /\ run[s].risk \in Nat
    BY <1>1 DEF Run, Places
  <2> HIDE DEF saves
  <2>3. Stake(saves) = run[s].risk
    BY <2>2, NothingInserted DEF Stake
  <2>4. Cardinality(Running)' <= Workers
    BY <1>1, <2>1, <2>2, StillRunning
  <2>5. ASSUME Active PROVE StakeOk(saves) /\ RiskOf(rows) + Stake(saves) <= Limit
    <3>1. run[s].risk <= Budget /\ RiskOf(View(s)) + run[s].risk <= Limit
      BY <1>3, <2>5 DEF BaselineRisk, Fits
    <3>2. RiskOf(View(s)) = RiskOf(rows) /\ RiskOf(rows) \in Nat
      <4>1. RiskOf(View(s)) = RiskOf(rows) + Inserted(run[s]) /\ Inserted(run[s]) = 0
        BY <1>1, Seen, NothingInserted
      <4>2. RiskOf(rows) \in Nat
        BY RiskType DEF Inv, TypeOK
      <4> QED BY <4>1, <4>2
    <3>3. run[s].risk <= Most
      BY <2>2, <3>1, <3>2, LimitsType, FlagsAssumption DEF Most, Unseen
    <3> QED BY <2>2, <2>3, <3>1, <3>2, <3>3 DEF StakeOk
  <2> QED BY <1>2, <2>1, <2>2, <2>4, <2>5, RunStep
<1>4. CASE ~(run[s].tx = "open" /\ BaselineRisk(s))
  <2>1. Goes(s, Refused(run[s]))
    BY <1>4 DEF Judge
  <2>2. Refused(run[s]) \in Run /\ Refused(run[s]).at = "log" /\ Refused(run[s]).mine = NoRows
    BY <1>1 DEF Refused, Run, Places
  <2>3. Stake(run[s]) = 0 /\ Stake(Refused(run[s])) = 0 /\ StakeOk(Refused(run[s]))
    BY <1>1, <2>2, NothingAtStake
  <2> QED BY <1>2, <2>1, <2>2, <2>3, NoMore
<1> QED BY <1>3, <1>4

(* The insertion of the baseline turns what was allowed into what is inserted.        *)
LEMMA SaveBaselineRisk ==
    ASSUME Inv, RiskInv, NEW s \in Signals, SaveBaseline(s)
    PROVE  RiskInv'
<1> DEFINE saved == [run[s] EXCEPT !.mine["baseline_v1"] = Open(run[s].risk)]
           plans == [saved EXCEPT !.at = "plan"]
<1>1. /\ run[s] \in Run /\ Unwritten(s) /\ run[s].mine = NoRows /\ run[s].at = "save"
      /\ run[s].risk \in Nat
  BY RunFacts DEF RunOk, SaveBaseline, At, Run
<1>2. View(s)[<<s, "baseline_v1">>] = NoRow
  BY <1>1, KeyFacts, NoRowsFacts DEF View, Unwritten, Versions
<1>3. Goes(s, IF FastExit THEN plans ELSE Executed(saved)) /\ rows' = rows
  BY <1>2 DEF SaveBaseline, StoreRests
<1>4. TypeOK' /\ s \in Running
  BY <1>1, SaveBaselineStep DEF Inv, Running, At
<1>5. saved \in Run
  BY <1>1, OpenReal DEF Run
<1>6. saved.mine["baseline_v1"] = Open(run[s].risk) /\ saved.mine["fast_exit_v2"] = NoRow
  BY <1>1, NoRowsFacts DEF Run, Versions
<1>7. AtStake(Open(run[s].risk)) = run[s].risk /\ AtStake(NoRow) = 0
  BY DEF AtStake, Open, NoRow
<1>8. Stake(run[s]) = run[s].risk
  BY <1>1, NothingInserted DEF Stake
<1>9. ASSUME NEW r \in Run, r.mine = saved.mine, r.at \in {"plan", "log"},
             r.at = "plan" => FastExit, Goes(s, r)
      PROVE  RiskInv'
  <2> HIDE DEF saved
  <2>1. Inserted(r) = run[s].risk /\ r.mine["fast_exit_v2"] = NoRow
    BY <1>1, <1>6, <1>7, <1>9 DEF Inserted
  <2>2. Stake(r) = run[s].risk
    BY <1>1, <1>9, <2>1 DEF Stake
  <2>3. Active => StakeOk(run[s])
    BY DEF RiskInv
  <2>4. Active => StakeOk(r)
    BY <1>1, <1>8, <1>9, <2>1, <2>2, <2>3 DEF StakeOk
  <2> QED BY <1>1, <1>3, <1>4, <1>8, <1>9, <2>2, <2>4, NoMore
<1>10. CASE FastExit
  <2>1. plans \in Run /\ plans.mine = saved.mine /\ plans.at = "plan"
    BY <1>5 DEF Run, Places
  <2> QED BY <1>3, <1>9, <1>10, <2>1
<1>11. CASE ~FastExit
  <2>1. Executed(saved) \in Run /\ Executed(saved).mine = saved.mine /\ Executed(saved).at = "log"
    BY <1>5 DEF Executed, Run, Places
  <2> QED BY <1>3, <1>9, <1>11, <2>1
<1> QED BY <1>10, <1>11

(* The experiment's copy is judged with the baseline its run has inserted.            *)
LEMMA PlanFastRisk ==
    ASSUME Inv, RiskInv, NEW s \in Signals, PlanFast(s)
    PROVE  RiskInv'
<1>1. /\ run[s] \in Run /\ run[s].at = "plan" /\ rows' = rows /\ s \in Running
      /\ Inserted(run[s]) \in Nat /\ Stake(run[s]) = Inserted(run[s])
  <2>1. run[s] \in Run /\ run[s].at = "plan" /\ rows' = rows
    BY RunFacts DEF PlanFast, At, StoreRests
  <2>2. Inserted(run[s]) \in Nat
    BY <2>1, StakeType
  <2> QED BY <2>1, <2>2 DEF Running, At, Stake
<1>2. TypeOK'
  BY PlanFastStep DEF Inv
<1>3. Active => /\ FastExit /\ Inserted(run[s]) <= Budget /\ run[s].mine["fast_exit_v2"] = NoRow
                /\ Stake(run[s]) <= Most
  BY <1>1 DEF RiskInv, StakeOk
<1>4. ASSUME NEW row \in Row, Goes(s, [run[s] EXCEPT !.at = "variant", !.fast = row]),
             \/ AtStake(row) = 0
             \/ AtStake(row) <= Budget /\ RiskOf(View(s)) + AtStake(row) <= Limit
      PROVE  RiskInv'
  <2> DEFINE r == [run[s] EXCEPT !.at = "variant", !.fast = row]
  <2>1. r \in Run /\ r.at = "variant" /\ r.fast = row /\ r.mine = run[s].mine
    BY <1>1 DEF Run, Places
  <2>2. Inserted(r) = Inserted(run[s]) /\ AtStake(row) \in Nat
    BY <2>1, AtStakeType DEF Inserted
  <2>3. Goes(s, r)
    BY <1>4
  <2> HIDE DEF r
  <2>4. Stake(r) = Inserted(run[s]) + AtStake(row)
    BY <1>1, <2>1, <2>2 DEF Stake
  <2>5. CASE AtStake(row) = 0
    <3>1. Active => StakeOk(r) /\ Stake(r) <= Stake(run[s])
      BY <1>1, <1>3, <2>1, <2>2, <2>4, <2>5 DEF StakeOk
    <3> QED BY <1>1, <1>2, <2>1, <2>3, <3>1, NoMore
  <2>6. CASE AtStake(row) <= Budget /\ RiskOf(View(s)) + AtStake(row) <= Limit
    <3>1. RiskOf(View(s)) = RiskOf(rows) + Inserted(run[s])
      BY <1>1, Seen
    <3>2. RiskOf(rows) \in Nat
      BY RiskType DEF Inv, TypeOK
    <3>3. RiskOf(rows) + Stake(r) <= Limit
      BY <1>1, <2>2, <2>4, <2>6, <3>1, <3>2
    <3>4. Active => StakeOk(r)
      <4> SUFFICES ASSUME Active PROVE StakeOk(r)
        OBVIOUS
      <4>1. Stake(r) <= 2 * Budget /\ Stake(r) <= Limit
        BY <1>1, <1>3, <2>2, <2>4, <2>6, <3>2, <3>3, LimitsType
      <4>2. Stake(r) <= Most
        BY <1>3, <4>1 DEF Most, Unseen
      <4> QED BY <1>3, <2>1, <2>2, <4>2 DEF StakeOk
    <3>5. Cardinality(Running)' <= Workers
      BY <1>1, <2>1, <2>3, StillRunning
    <3> QED BY <1>1, <1>2, <2>1, <2>3, <3>3, <3>4, <3>5, RunStep
  <2> QED BY <1>4, <2>5, <2>6
<1>5. CASE \E row \in {Open(risk) : risk \in {x \in Risks : Fits(s, x)}} \cup {Rejected} :
              Goes(s, [run[s] EXCEPT !.at = "variant", !.fast = row])
  <2>1. Rejected \in Row /\ AtStake(Rejected) = 0
    BY DEF Rejected, Row, AtStake
  <2>2. ASSUME NEW risk \in Risks, Fits(s, risk)
        PROVE  /\ Open(risk) \in Row /\ AtStake(Open(risk)) <= Budget
               /\ RiskOf(View(s)) + AtStake(Open(risk)) <= Limit
    <3>1. AtStake(Open(risk)) = risk
      BY DEF AtStake, Open
    <3> QED BY <2>2, <3>1, OpenReal, RisksAssumption DEF Fits
  <2> QED BY <1>4, <1>5, <2>1, <2>2
<1>6. CASE Goes(s, Executed(run[s]))
  <2>1. Executed(run[s]) \in Run /\ Executed(run[s]).mine = run[s].mine /\ Executed(run[s]).at = "log"
    BY <1>1 DEF Executed, Run, Places
  <2>2. Stake(Executed(run[s])) = Inserted(run[s])
    BY <1>1, <2>1 DEF Stake, Inserted
  <2>3. Active => StakeOk(Executed(run[s]))
    BY <1>1, <1>3, <2>1, <2>2 DEF StakeOk
  <2> QED BY <1>1, <1>2, <1>6, <2>1, <2>2, <2>3, NoMore
<1> QED BY <1>5, <1>6 DEF PlanFast

(* The insertion of the copy turns what was planned into what is inserted.            *)
LEMMA SaveFastRisk ==
    ASSUME Inv, RiskInv, NEW s \in Signals, SaveFast(s)
    PROVE  RiskInv'
<1> DEFINE saved == [run[s] EXCEPT !.mine["fast_exit_v2"] = run[s].fast]
<1>1. run[s] \in Run /\ run[s].at = "variant" /\ rows' = rows /\ s \in Running
  BY RunFacts DEF SaveFast, At, StoreRests, Running
<1>2. TypeOK'
  BY SaveFastStep DEF Inv
<1>3. /\ saved \in Run /\ saved.mine["fast_exit_v2"] = run[s].fast
      /\ saved.mine["baseline_v1"] = run[s].mine["baseline_v1"]
  BY <1>1 DEF Run, Versions
<1>4. /\ AtStake(run[s].mine["baseline_v1"]) \in Nat /\ AtStake(run[s].mine["fast_exit_v2"]) \in Nat
      /\ AtStake(run[s].fast) \in Nat
  BY <1>1, AtStakeType DEF Run, Versions
<1>5. Active => AtStake(run[s].mine["fast_exit_v2"]) = 0 /\ Stake(run[s]) <= Most
  BY <1>1 DEF RiskInv, StakeOk, AtStake, NoRow
<1>6. ASSUME NEW r \in Run, r.at = "log", Goes(s, r), r.mine \in {saved.mine, run[s].mine}
      PROVE  RiskInv'
  <2>1. Active => Stake(r) <= Stake(run[s])
    <3> SUFFICES ASSUME Active PROVE Stake(r) <= Stake(run[s])
      OBVIOUS
    <3>1. Stake(r) = Inserted(r)
      BY <1>6, StakeType DEF Stake
    <3>2. Inserted(r) <= AtStake(run[s].mine["baseline_v1"]) + AtStake(run[s].fast)
      <4>1. CASE r.mine = saved.mine
        <5>1. Inserted(r) = AtStake(run[s].mine["baseline_v1"]) + AtStake(run[s].fast)
          BY <1>3, <4>1 DEF Inserted
        <5> QED BY <1>4, <5>1
      <4>2. CASE r.mine = run[s].mine
        BY <1>4, <1>5, <4>2 DEF Inserted
      <4> QED BY <1>6, <4>1, <4>2
    <3>3. Stake(run[s]) = AtStake(run[s].mine["baseline_v1"]) + AtStake(run[s].fast)
      BY <1>1, <1>4, <1>5 DEF Stake, Inserted
    <3> QED BY <3>1, <3>2, <3>3
  <2>2. Active => StakeOk(r)
    <3>1. Stake(r) \in Nat /\ Stake(run[s]) \in Nat
      BY <1>1, <1>6, StakeType
    <3> QED BY <1>5, <1>6, <2>1, <3>1, LimitsType DEF StakeOk
  <2> QED BY <1>1, <1>2, <1>6, <2>1, <2>2, NoMore
<1>7. /\ Executed(saved) \in Run /\ Executed(saved).mine = saved.mine
      /\ Executed(saved).at = "log"
  BY <1>3 DEF Executed, Run, Places
<1>8. /\ Executed(run[s]) \in Run /\ Executed(run[s]).mine = run[s].mine
      /\ Executed(run[s]).at = "log"
  BY <1>1 DEF Executed, Run, Places
<1>9. Goes(s, Executed(saved)) \/ Goes(s, Executed(run[s]))
  BY DEF SaveFast
<1> QED BY <1>6, <1>7, <1>8, <1>9

(* A run that goes on or is cut short, and inserts nothing.                            *)
LEMMA Slackens ==
    ASSUME Inv, RiskInv, NEW s \in Running, NEW r \in Run, Goes(s, r), TypeOK', rows' = rows,
           r.mine \in {run[s].mine, NoRows}, r.at \notin {"save", "plan", "variant"}
    PROVE  RiskInv'
<1>1. run[s] \in Run /\ s \in Signals
  BY RunFacts DEF Running
<1>2. Stake(r) = Inserted(r) /\ Inserted(r) \in Nat
  BY StakeType DEF Stake
<1>3. Inserted(r) <= Inserted(run[s])
  <2>1. Inserted(run[s]) \in Nat
    BY <1>1, StakeType
  <2>2. CASE r.mine = run[s].mine
    BY <2>1, <2>2 DEF Inserted
  <2>3. CASE r.mine = NoRows
    BY <2>1, <2>3, NothingInserted
  <2> QED BY <2>2, <2>3
<1>4. Stake(r) <= Stake(run[s])
  BY <1>1, <1>2, <1>3, StakeType
<1>5. Active => StakeOk(r)
  <2>1. Active => Stake(run[s]) <= Most
    BY <1>1 DEF RiskInv, StakeOk
  <2> QED BY <1>1, <1>2, <1>4, <2>1, StakeType, LimitsType DEF StakeOk
<1> QED BY <1>1, <1>4, <1>5, NoMore

(* The log takes nothing and adds nothing.                                            *)
LEMMA LogRisk ==
    ASSUME Inv, RiskInv, NEW s \in Signals, LogDecision(s)
    PROVE  RiskInv'
<1> DEFINE r == [run[s] EXCEPT !.at = "commit"]
<1>1. run[s] \in Run /\ s \in Running
  BY RunFacts DEF LogDecision, At, Running
<1>2. r \in Run /\ r.mine = run[s].mine /\ r.at = "commit"
  BY <1>1 DEF Run, Places
<1>3. Goes(s, r) /\ rows' = rows
  BY DEF LogDecision, StoreRests
<1>4. TypeOK'
  BY LogStep DEF Inv
<1> QED BY <1>1, <1>2, <1>3, <1>4, Slackens

(* A run that something happens to.                                                   *)
LEMMA HitsRisk ==
    ASSUME Inv, RiskInv, NEW s \in Running, NEW r \in Run, NEW what,
           what \in {"baseline", "variant", "log", "commit", "timeout", "killed"},
           Hits(s, r, what), TypeOK', rows' = rows,
           r.mine \in {run[s].mine, NoRows}, r.at \notin {"save", "plan", "variant"}
    PROVE  RiskInv'
<1> DEFINE hit == [r EXCEPT !.hit = @ \cup {what}]
<1>1. hit \in Run /\ hit.mine = r.mine /\ hit.at = r.at
  BY DEF Run
<1>2. Goes(s, hit)
  BY DEF Hits
<1> QED BY <1>1, <1>2, Slackens

(* A failed statement, a timeout and a killed worker take away what was inserted.     *)
LEMMA StatementFailsRisk ==
    ASSUME Inv, RiskInv, NEW s \in Signals, StatementFails(s)
    PROVE  RiskInv'
<1>1. run[s] \in Run /\ rows' = rows /\ s \in Running /\ TypeOK'
  BY RunFacts, StatementFailsStep DEF StatementFails, StoreRests, Running, At, Inv
<1>2. /\ Aborted(run[s]) \in Run /\ Aborted(run[s]).mine = NoRows
  BY <1>1, AbortedFacts
<1>3. CASE Hits(s, Refused(Aborted(run[s])), "baseline")
  <2>1. /\ Refused(Aborted(run[s])) \in Run /\ Refused(Aborted(run[s])).at = "log"
        /\ Refused(Aborted(run[s])).mine = NoRows
    BY <1>2 DEF Refused, Run, Places
  <2> QED BY <1>1, <1>3, <2>1, HitsRisk
<1>4. CASE Hits(s, Executed(Aborted(run[s])), "variant")
  <2>1. /\ Executed(Aborted(run[s])) \in Run /\ Executed(Aborted(run[s])).at = "log"
        /\ Executed(Aborted(run[s])).mine = NoRows
    BY <1>2 DEF Executed, Run, Places
  <2> QED BY <1>1, <1>4, <2>1, HitsRisk
<1>5. CASE Hits(s, [Aborted(run[s]) EXCEPT !.at = "commit", !.tx = "invalid"], "log")
  <2> DEFINE left == [Aborted(run[s]) EXCEPT !.at = "commit", !.tx = "invalid"]
  <2>1. left \in Run /\ left.at = "commit" /\ left.mine = NoRows
    BY <1>2 DEF Run, Places
  <2>2. Hits(s, left, "log")
    BY <1>5
  <2> HIDE DEF left
  <2> QED BY <1>1, <2>1, <2>2, HitsRisk
<1>6. CASE Hits(s, [run[s] EXCEPT !.at = "commit"], "log")
  <2> DEFINE goes == [run[s] EXCEPT !.at = "commit"]
  <2>1. goes \in Run /\ goes.at = "commit" /\ goes.mine = run[s].mine
    BY <1>1 DEF Run, Places
  <2>2. Hits(s, goes, "log")
    BY <1>6
  <2> HIDE DEF goes
  <2> QED BY <1>1, <2>1, <2>2, HitsRisk
<1> QED BY <1>3, <1>4, <1>5, <1>6 DEF StatementFails

LEMMA TimeoutRisk ==
    ASSUME Inv, RiskInv, NEW s \in Signals, Timeout(s)
    PROVE  RiskInv'
<1> DEFINE r == [run[s] EXCEPT !.at = "judge", !.tx = "invalid", !.mine = NoRows]
<1>1. run[s] \in Run /\ rows' = rows /\ s \in Running /\ TypeOK'
  BY RunFacts, TimeoutStep DEF Timeout, StoreRests, Running, At, Inv
<1>2. r \in Run /\ r.at = "judge" /\ r.mine = NoRows
  BY <1>1, NoRowsFacts DEF Run, Places
<1>3. Hits(s, r, "timeout")
  BY DEF Timeout
<1> HIDE DEF r
<1> QED BY <1>1, <1>2, <1>3, HitsRisk

LEMMA KilledRisk ==
    ASSUME Inv, RiskInv, NEW s \in Signals, Killed(s)
    PROVE  RiskInv'
<1> DEFINE r == [run[s] EXCEPT !.at = "done", !.mine = NoRows, !.fast = NoRow, !.report = "none"]
<1>1. run[s] \in Run /\ rows' = rows /\ s \in Running /\ TypeOK'
  BY RunFacts, KilledStep DEF Killed, StoreRests, Inv
<1>2. r \in Run /\ r.at = "done" /\ r.mine = NoRows
  BY <1>1, NoRowsFacts DEF Run, Places
<1>3. Hits(s, r, "killed")
  BY DEF Killed
<1> HIDE DEF r
<1> QED BY <1>1, <1>2, <1>3, HitsRisk

(* What a run commits was at stake before.                                            *)
LEMMA EndRisk ==
    ASSUME Inv, RiskInv, NEW s \in Running, NEW r \in Run, Goes(s, r), TypeOK',
           rows' \in {rows, Written(s)}, r.mine = NoRows, r.at = "done"
    PROVE  RiskInv'
<1>1. run[s] \in Run /\ s \in Signals /\ run[s].at \notin {"done", "waiting"}
  BY RunFacts DEF Running, At
<1>2. Stake(r) = 0 /\ StakeOk(r)
  BY NothingAtStake
<1>3. /\ RiskOf(rows) \in Nat /\ Inserted(run[s]) \in Nat /\ Stake(run[s]) \in Nat
      /\ Inserted(run[s]) <= Stake(run[s])
  BY <1>1, StakeType, RiskType DEF Inv, TypeOK
<1>4. RiskOf(rows') <= RiskOf(rows) + Inserted(run[s])
  <2>1. CASE rows' = rows
    BY <1>3, <2>1
  <2>2. CASE rows' = Written(s)
    <3>1. RiskOf(rows') = RiskOf(rows) + Inserted(run[s])
      BY <1>1, <2>2, Seen
    <3> QED BY <1>3, <3>1
  <2> QED BY <2>1, <2>2
<1>5. RiskOf(rows') \in Nat
  BY RiskType DEF TypeOK
<1>6. RiskOf(rows') + Stake(r) <= RiskOf(rows) + Stake(run[s])
  BY <1>2, <1>3, <1>4, <1>5
<1>7. Cardinality(Running)' <= Workers
  BY <1>1, StillRunning
<1> QED BY <1>1, <1>2, <1>6, <1>7, RunStep

(* Whether a commit succeeds, fails, or is only thought to have failed.               *)
LEMMA CommitRisk ==
    ASSUME Inv, RiskInv, NEW s \in Signals, Commit(s)
    PROVE  RiskInv'
<1> DEFINE r == [run[s] EXCEPT !.at = "done", !.mine = NoRows, !.fast = NoRow,
                               !.report = IF run[s].tx = "invalid" /\ run[s].kind = "single"
                                          THEN "error" ELSE @]
<1>1. run[s] \in Run /\ s \in Running /\ TypeOK' /\ rows' \in {rows, Written(s)}
  BY RunFacts, CommitStep DEF Commit, At, Running, Inv
<1>2. Goes(s, r)
  BY DEF Commit, Ends
<1>3. r \in Run /\ r.mine = NoRows /\ r.at = "done"
  BY <1>1, NoRowsFacts DEF Run, Places
<1> HIDE DEF r
<1> QED BY <1>1, <1>2, <1>3, EndRisk

LEMMA CommitFailsRisk ==
    ASSUME Inv, RiskInv, NEW s \in Signals, CommitFails(s)
    PROVE  RiskInv'
<1> DEFINE r == [run[s] EXCEPT !.at = "done", !.mine = NoRows, !.fast = NoRow,
                               !.hit = @ \cup {"commit"},
                               !.report = IF run[s].kind = "single" THEN "error" ELSE @]
<1>1. run[s] \in Run /\ s \in Running /\ TypeOK' /\ rows' \in {rows, Written(s)}
  BY RunFacts, CommitFailsStep DEF CommitFails, At, Running, Inv
<1>2. Goes(s, r)
  BY DEF CommitFails
<1>3. r \in Run /\ r.mine = NoRows /\ r.at = "done"
  BY <1>1, NoRowsFacts DEF Run, Places
<1> HIDE DEF r
<1> QED BY <1>1, <1>2, <1>3, EndRisk

(* What a monitor or the clock does.                                                 *)
LEMMA TableRisk ==
    ASSUME Inv, RiskInv, TypeOK', run' = run,
           \A k \in Keys : AtStake(rows'[k]) <= AtStake(rows[k])
    PROVE  RiskInv'
<1>1. RiskOf(rows') <= RiskOf(rows) /\ RiskOf(rows) \in Nat /\ RiskOf(rows') \in Nat
  BY RiskLess, RiskType DEF Inv, TypeOK
<1>2. Running' = Running /\ Stakes' = Stakes
  BY DEF Running, At, Stakes
<1>3. Stakes \in Nat
  BY StakesType
<1>4. Active => RiskOf(rows) + Stakes <= Bound
  BY DEF RiskInv, Bound
<1>5. Active => RiskOf(rows') + Stakes' <= Bound
  BY <1>1, <1>2, <1>3, <1>4, BoundType
<1> QED BY <1>2, <1>5 DEF RiskInv, Bound, Active, Most, Unseen

(* A monitor that commits only closes rows.                                           *)
LEMMA FinishRisk ==
    ASSUME Inv, RiskInv, NEW m \in Monitors, Finish(m)
    PROVE  RiskInv'
<1>1. run' = run /\ TypeOK'
  BY FinishStep DEF Finish, Inv
<1>2. ASSUME NEW k \in Keys PROVE AtStake(rows'[k]) <= AtStake(rows[k])
  <2>1. rows[k] \in Row /\ AtStake(rows[k]) \in Nat
    BY AtStakeType DEF Inv, TypeOK
  <2>2. CASE mon[m].draft[k] # "none"
    <3>1. rows[k].status = "OPEN"
      BY <2>2 DEF Inv, MonitorsInv, HeldInv
    <3>2. rows'[k] = [rows[k] EXCEPT !.status = mon[m].draft[k]]
      BY <2>2 DEF Finish, Held
    <3> QED BY <2>1, <3>1, <3>2 DEF AtStake, Row
  <2>3. CASE mon[m].draft[k] = "none"
    <3>1. rows'[k] = rows[k]
      BY <2>3 DEF Finish, Held
    <3> QED BY <2>1, <3>1
  <2> QED BY <2>2, <2>3
<1> QED BY <1>1, <1>2, TableRisk

(* Neither runs nor rows change.                                                      *)
LEMMA RestRisk ==
    ASSUME Inv, RiskInv, run' = run, rows' = rows, TypeOK'
    PROVE  RiskInv'
<1>1. \A k \in Keys : AtStake(rows'[k]) <= AtStake(rows[k])
  BY AtStakeType DEF Inv, TypeOK
<1> QED BY <1>1, TableRisk

(* All steps.                                                                         *)
LEMMA StepRisk ==
    ASSUME Inv, RiskInv, [Next]_vars
    PROVE  RiskInv'
<1>1. TypeOK'
  BY StepInv DEF Inv
<1>2. CASE vars' = vars
  BY <1>1, <1>2, RestRisk DEF vars
<1>3. ASSUME NEW s \in Signals, NEW kind \in {"cycle", "single"}, NEW risk \in Risks,
             Begin(s, kind, risk)
      PROVE  RiskInv'
  BY <1>3, BeginRisk
<1>4. ASSUME NEW s \in Signals,
             \/ Judge(s) \/ SaveBaseline(s) \/ PlanFast(s) \/ SaveFast(s)
             \/ LogDecision(s) \/ Commit(s)
             \/ StatementFails(s) \/ CommitFails(s) \/ Timeout(s) \/ Killed(s)
      PROVE  RiskInv'
  BY <1>4, JudgeRisk, SaveBaselineRisk, PlanFastRisk, SaveFastRisk, LogRisk, CommitRisk,
     StatementFailsRisk, CommitFailsRisk, TimeoutRisk, KilledRisk
<1>5. ASSUME NEW m \in Monitors, NEW priced \in BOOLEAN, Look(m, priced)
      PROVE  RiskInv'
  BY <1>1, <1>5, RestRisk DEF Look, RunsRest
<1>6. ASSUME NEW m \in Monitors,
             Queue(m) \/ Visit(m) \/ Deadlocked(m) \/ MonitorFails(m)
      PROVE  RiskInv'
  BY <1>1, <1>6, RestRisk DEF Queue, Visit, Deadlocked, MonitorFails, RunsRest
<1>7. ASSUME NEW m \in Monitors, Finish(m) PROVE RiskInv'
  BY <1>7, FinishRisk
<1>8. ASSUME NEW k \in Keys, Expire(k) PROVE RiskInv'
  BY <1>1, <1>8, RestRisk DEF Expire
<1>9. CASE Next
  BY <1>3, <1>4, <1>5, <1>6, <1>7, <1>8, <1>9 DEF Next
<1> QED BY <1>2, <1>9

(* At first nothing is at stake: a row from before the risk columns counts as 0.      *)
LEMMA InitRisk == Init => RiskInv
<1> SUFFICES ASSUME Init PROVE RiskInv
  OBVIOUS
<1>1. Inv
  BY InitInv
<1>2. Running = {} /\ Cardinality(Running) = 0
  BY FS_EmptySet DEF Init, Running, At, NewRun
<1>3. \A s \in Signals : run[s] \in Run /\ run[s].mine = NoRows /\ run[s].at = "waiting"
  BY <1>1, RunFacts DEF Init, NewRun
<1>4. \A s \in Signals : Stake(run[s]) = 0 /\ StakeOk(run[s])
  BY <1>3, NothingAtStake
<1>5. Stakes <= 0 * Cardinality(Signals)
  <2> DEFINE f == [s \in Signals |-> Stake(run[s])]
  <2>1. \A s \in Signals : f[s] \in Int /\ f[s] <= 0
    BY <1>4
  <2> HIDE DEF f
  <2>2. SumFunctionOnSet(f, Signals) <= 0 * Cardinality(Signals)
    BY <2>1, KeysFinite, SumOfAtMost
  <2> QED BY <2>2 DEF f, Stakes
<1>6. RiskOf(rows) <= 0
  <2> DEFINE f == [k \in Keys |-> AtStake(rows[k])]
  <2>1. \A k \in Keys : f[k] \in Int /\ f[k] <= 0
    BY DEF Init, AtStake, Open, NoRow
  <2>2. RiskOf(rows) = SumFunctionOnSet(f, Keys)
    BY <1>1, RiskType DEF Inv, TypeOK
  <2> HIDE DEF f
  <2>3. SumFunctionOnSet(f, Keys) <= 0 * Cardinality(Keys)
    BY <2>1, KeysFinite, SumOfAtMost
  <2>4. 0 * Cardinality(Keys) = 0
    BY KeysFinite, FS_CardinalityType
  <2> QED BY <2>2, <2>3, <2>4
<1>7. 0 * Cardinality(Signals) = 0
  BY KeysFinite, FS_CardinalityType
<1>8. Stakes \in Nat /\ RiskOf(rows) \in Nat
  BY <1>1, StakesType, RiskType DEF Inv, TypeOK
<1>9. 0 <= (Workers - 1) * Most
  <2>1. Workers - 1 \in Nat /\ Most \in Nat
    BY LimitsType
  <2> QED BY <2>1, Z3
<1>10. RiskOf(rows) + Stakes <= Bound
  BY <1>5, <1>6, <1>7, <1>8, <1>9, LimitsType, BoundType DEF Bound
<1> QED BY <1>2, <1>4, <1>10, LimitsType DEF RiskInv, Bound

(* What is inserted is part of what is at stake.                                      *)
LEMMA StakesCover == Inv /\ RiskInv => OpenRiskBounded
<1> SUFFICES ASSUME Inv, RiskInv, Active
             PROVE  RiskOf(rows) + SumFunction([s \in Signals |-> Inserted(run[s])]) <= Bound
  BY DEF OpenRiskBounded, RiskCeiling, Bound, Most
<1> DEFINE f == [s \in Signals |-> Inserted(run[s])]
           g == [s \in Signals |-> Stake(run[s])]
<1>1. \A s \in Signals : f[s] \in Int /\ g[s] \in Int /\ f[s] <= g[s]
  <2>1. \A s \in Signals : /\ Inserted(run[s]) \in Nat /\ Stake(run[s]) \in Nat
                           /\ Inserted(run[s]) <= Stake(run[s])
    BY RunFacts, StakeType
  <2> QED BY <2>1
<1>2. SumFunction(f) = SumFunctionOnSet(f, Signals) /\ Stakes = SumFunctionOnSet(g, Signals)
  BY DEF Stakes, SumFunction, SumFunctionOnSet, FoldFunction
<1> HIDE DEF f, g
<1>3. SumFunctionOnSet(f, Signals) <= SumFunctionOnSet(g, Signals)
  BY <1>1, KeysFinite, SumOfLess
<1>4. SumFunctionOnSet(f, Signals) \in Int /\ Stakes \in Nat
  BY <1>1, KeysFinite, StakesType, SumIsInteger
<1>5. RiskOf(rows) \in Nat
  BY RiskType DEF Inv, TypeOK
<1>6. RiskOf(rows) + Stakes <= Bound
  BY DEF RiskInv, Bound
<1>7. RiskOf(rows) + SumFunction(f) <= Bound
  BY <1>2, <1>3, <1>4, <1>5, <1>6, BoundType
<1> QED BY <1>7 DEF f

(* OpenRiskBounded, for any numbers of runs, workers, monitors and failures: what is  *)
(* open or about to be exceeds the portfolio's limit by no more than what each other  *)
(* worker could open unseen, and with one worker by nothing.                          *)
THEOREM RiskBounded == Spec => []OpenRiskBounded
<1>1. Init => Inv /\ RiskInv
  BY InitInv, InitRisk
<1>2. Inv /\ RiskInv /\ [Next]_vars => Inv' /\ RiskInv'
  BY StepInv, StepRisk
<1>3. Inv /\ RiskInv => OpenRiskBounded
  BY StakesCover
<1> QED BY <1>1, <1>2, <1>3, PTL DEF Spec

--------------------------------------------------------------------------------
(* The ledger: what the statements of the runs and the monitors come to.              *)

(* The trades a run can make.                                                        *)
Opens == {Open(risk) : risk \in Risks}

(* What run r can have made of its risk, its trade and the copy.                      *)
MadeOk(r) ==
    /\ r.at # "waiting" => r.risk \in Risks
    /\ r.mine["baseline_v1"] \in Opens \cup {NoRow}
    /\ r.mine["fast_exit_v2"] \in Opens \cup {NoRow, Rejected}
    /\ r.fast \in Opens \cup {NoRow, Rejected}
    /\ r.at \in {"plan", "variant"} \/ r.mine["fast_exit_v2"] # NoRow => FastExit
    /\ r.at \in {"log", "commit"} => r.report # "none"

MadeInv == \A s \in Signals : MadeOk(run[s])

(* Only an open trade is past its time, and only such a one is closed for it.         *)
DueInv ==
    /\ \A k \in due : rows[k].status = "OPEN"
    /\ \A m \in Monitors, k \in Keys : mon[m].draft[k] = "MAX_HOLD" => k \in due

LedgerInv == Inv /\ RiskInv /\ MadeInv /\ DueInv

Told == [s \in Signals |-> Answer(run[s])]

LEMMA LedgerKeys ==
    /\ Ledger!Keys = Keys
    /\ Ledger!Nothing = NoRow /\ Ledger!Refused = Rejected /\ Ledger!Trades = Opens
    /\ \A s \in Signals :
          /\ Ledger!Trade(s) = <<s, "baseline_v1">> /\ Ledger!Copy(s) = <<s, "fast_exit_v2">>
          /\ Ledger!Trade(s) \in Keys /\ Ledger!Copy(s) \in Keys
BY KeyFacts DEF Ledger!Keys, Ledger!Nothing, Ledger!Refused, Ledger!Trades, Ledger!Trade,
   Ledger!Copy, Ledger!Open, Opens, Open, Rejected, NoRow, Keys, Versions

LEMMA AnswerIs ==
    ASSUME NEW r
    PROVE  /\ r.at # "done" => Answer(r) = "pending"
           /\ r.at = "done" /\ Claims(r) => Answer(r) = "executed"
           /\ r.at = "done" /\ r.report = "rejected" => Answer(r) = "rejected"
           /\ r.at = "done" /\ r.report = "none" => Answer(r) = "silent"
           /\ r.at = "done" /\ r.report # "rejected" /\ r.report # "none" /\ ~Claims(r)
                 => Answer(r) = "in doubt"
BY DEF Answer, Claims

LEMMA OpensReal ==
    /\ Opens \subseteq Row
    /\ \A row \in Opens : row # NoRow /\ row.status = "OPEN"
    /\ Rejected \in Row /\ Rejected # NoRow
BY RisksAssumption DEF Opens, Open, Row, NoRow, Rejected

(* A run goes on: the book and the answers stay as they are.                          *)
LEMMA RunGoesOn ==
    ASSUME LedgerInv, NEW s \in Signals, NEW r, MadeOk(r),
           run[s].at # "done", r.at # "done", Goes(s, r), StoreRests
    PROVE  MadeInv' /\ DueInv' /\ UNCHANGED <<rows, due, Told>>
<1>1. run'[s] = r /\ \A q \in Signals \ {s} : run'[q] = run[q]
  BY DEF LedgerInv, Inv, TypeOK, Goes
<1>2. MadeInv'
  BY <1>1 DEF LedgerInv, MadeInv, MadeOk
<1>3. DueInv' /\ UNCHANGED <<rows, due>>
  BY DEF StoreRests, LedgerInv, DueInv
<1>4. ASSUME NEW q \in Signals PROVE Answer(run'[q]) = Answer(run[q])
  <2>1. CASE q = s
    BY <1>1, <2>1, AnswerIs
  <2>2. CASE q # s
    BY <1>1, <2>2
  <2> QED BY <2>1, <2>2
<1>5. Told' = Told
  BY <1>4 DEF Told
<1> QED BY <1>2, <1>3, <1>5

(* A run is over: an entry is made.                                                   *)
LEMMA RunEnds ==
    ASSUME LedgerInv, NEW s \in Signals, NEW r, MadeOk(r), r.at = "done",
           run[s].at # "done", Goes(s, r), due' = due, mon' = mon, Inv', RiskInv',
           rows' \in {rows, Written(s)},
           Claims(r) => run[s].mine["baseline_v1"] # NoRow /\ rows' = Written(s),
           r.report = "rejected" => run[s].mine = NoRows,
           r.report = "none" => rows' = rows
    PROVE  MadeInv' /\ DueInv' /\ Ledger!Enter(s)
<1> DEFINE b == <<s, "baseline_v1">>
           f == <<s, "fast_exit_v2">>
<1>1. Inv /\ MadeOk(run[s]) /\ run[s] \in Run /\ RunOk(s, run[s]) /\ rows \in [Keys -> Row]
  BY RunFacts DEF LedgerInv, MadeInv, Inv, TypeOK
<1>2. run'[s] = r /\ \A q \in Signals \ {s} : run'[q] = run[q]
  BY DEF LedgerInv, Inv, TypeOK, Goes
<1>3. MadeInv'
  BY <1>2 DEF LedgerInv, MadeInv, MadeOk
<1>4. /\ \A k \in Keys : rows[k] # NoRow => Written(s)[k] = rows[k]
      /\ \A k \in Keys : k[1] # s => Written(s)[k] = rows[k]
      /\ \A v \in Versions : run[s].mine[v] # NoRow => Written(s)[<<s, v>>] = run[s].mine[v]
      /\ \A v \in Versions : run[s].mine[v] = NoRow => Written(s)[<<s, v>>] = rows[<<s, v>>]
      /\ Written(s) \in [Keys -> Row]
  BY <1>1, WrittenFacts
<1>5. DueInv'
  <2>1. \A k \in Keys : rows[k].status = "OPEN" => rows'[k].status = "OPEN"
    BY <1>4, NoRowsFacts
  <2>2. due \subseteq Keys
    BY <1>1, KeyFacts DEF Inv, TypeOK, Keys, Versions
  <2> QED BY <2>1, <2>2 DEF LedgerInv, DueInv
<1>6. b \in Keys /\ f \in Keys /\ b # f /\ rows[b] = NoRow /\ rows[f] = NoRow
  BY <1>1, KeyFacts DEF RunOk, Unwritten, Versions
<1>7. /\ rows'[b] \in {NoRow, run[s].mine["baseline_v1"]}
      /\ rows'[f] \in {NoRow, run[s].mine["fast_exit_v2"]}
      /\ rows' = Written(s) => /\ rows'[b] = run[s].mine["baseline_v1"]
                               /\ rows'[f] = run[s].mine["fast_exit_v2"]
      /\ rows' = rows => rows'[b] = NoRow /\ rows'[f] = NoRow
  BY <1>4, <1>6 DEF Versions
<1>8. rows' = [rows EXCEPT ![b] = rows'[b], ![f] = rows'[f]]
  <2>1. rows' \in [Keys -> Row]
    BY <1>1, <1>4
  <2>2. ASSUME NEW k \in Keys, k # b, k # f PROVE rows'[k] = rows[k]
    <3>1. k[1] # s
      BY <2>2, KeyFacts DEF Versions
    <3> QED BY <1>4, <3>1
  <2> QED BY <1>1, <1>6, <2>1, <2>2
<1>9. /\ rows'[b] \in Opens \cup {NoRow} /\ rows'[f] \in Opens \cup {NoRow, Rejected}
      /\ rows'[f] # NoRow => FastExit /\ rows'[b] # NoRow
  BY <1>1, <1>7 DEF MadeOk, RunOk
<1> DEFINE answer == Answer(r)
<1>10. /\ answer \in Ledger!Answers
       /\ answer = "executed" => rows'[b] # NoRow
       /\ answer \in {"rejected", "silent"} => rows'[b] = NoRow
  <2>1. CASE Claims(r)
    BY <1>7, <2>1, AnswerIs DEF Ledger!Answers
  <2>2. CASE r.report = "rejected"
    BY <1>7, <2>2, AnswerIs, NoRowsFacts DEF Ledger!Answers, Versions
  <2>3. CASE r.report = "none"
    BY <1>7, <2>3, AnswerIs DEF Ledger!Answers
  <2>4. CASE ~Claims(r) /\ r.report # "rejected" /\ r.report # "none"
    BY <2>4, AnswerIs DEF Ledger!Answers
  <2> QED BY <2>1, <2>2, <2>3, <2>4
<1>11. Told' = [Told EXCEPT ![s] = answer] /\ Told[s] = "pending" /\ Told'[s] # "pending"
  <2>1. Told[s] = "pending" /\ answer # "pending"
    BY <1>10, AnswerIs DEF Told, Ledger!Answers
  <2>2. Told' = [q \in Signals |-> Answer(run'[q])]
    BY DEF Told
  <2>3. [Told EXCEPT ![s] = answer] = [q \in Signals |-> IF q = s THEN answer ELSE Answer(run[q])]
    BY DEF Told
  <2>4. \A q \in Signals : Answer(run'[q]) = IF q = s THEN answer ELSE Answer(run[q])
    BY <1>2
  <2> QED BY <2>1, <2>2, <2>3, <2>4
<1>12. Active => Ledger!OpenRisk(rows') <= RiskCeiling
  <2> SUFFICES ASSUME Active PROVE Ledger!OpenRisk(rows') <= RiskCeiling
    OBVIOUS
  <2>1. Ledger!OpenRisk(rows') = RiskOf(rows')
    <3>1. Ledger!OpenRisk(rows') = Ledger!SumFunction([k \in Keys |-> AtStake(rows'[k])])
      BY LedgerKeys DEF Ledger!OpenRisk, AtStake
    <3>2. ASSUME NEW g PROVE Ledger!SumFunction(g) = SumFunction(g)
      BY DEF Ledger!SumFunction, SumFunction, Ledger!SumFunctionOnSet, SumFunctionOnSet,
         Ledger!FoldFunctionOnSet, FoldFunctionOnSet, Ledger!MapThenFoldSet, MapThenFoldSet
    <3> QED BY <3>1, <3>2 DEF RiskOf
  <2>2. Stakes' \in Nat /\ RiskOf(rows') \in Nat
    <3>1. rows' \in [Keys -> Row]
      BY <1>1, <1>4
    <3>2. \A q \in Signals : Stake(run'[q]) \in Nat
      BY Inv', StakeType DEF Inv, TypeOK
    <3> DEFINE g == [q \in Signals |-> Stake(run'[q])]
    <3>3. \A q \in Signals : g[q] \in Nat
      BY <3>2
    <3>4. Stakes' = SumFunctionOnSet(g, Signals)
      BY DEF Stakes
    <3> HIDE DEF g
    <3> QED BY <3>1, <3>3, <3>4, KeysFinite, SumIsNatural, RiskType
  <2>3. RiskOf(rows') + Stakes' <= RiskCeiling
    BY DEF RiskInv, RiskCeiling, Most, Active, Unseen
  <2>4. RiskCeiling \in Int
    BY BoundType DEF RiskCeiling, Bound, Most
  <2> QED BY <2>1, <2>2, <2>3, <2>4
<1> HIDE DEF answer
<1>13. Ledger!Agrees(answer, rows'[b])
  BY <1>10, LedgerKeys DEF Ledger!Agrees
<1>14. Ledger!Enter(s)
  <2>2. /\ Told[s] = "pending" /\ Told'[s] # "pending"
        /\ rows[b] = NoRow /\ rows[f] = NoRow /\ due' = due
    BY <1>6, <1>11
  <2>3. /\ Ledger!Trade(s) = b /\ Ledger!Copy(s) = f
        /\ Ledger!Nothing = NoRow /\ Ledger!Refused = Rejected /\ Ledger!Trades = Opens
    BY LedgerKeys
  <2> HIDE DEF b, f
  <2>4. /\ rows[Ledger!Trade(s)] = Ledger!Nothing /\ rows[Ledger!Copy(s)] = Ledger!Nothing
        /\ \E a \in Ledger!Answers, trade \in Ledger!Trades \cup {Ledger!Nothing},
              copy \in Ledger!Trades \cup {Ledger!Nothing, Ledger!Refused} :
             /\ Ledger!Agrees(a, trade)
             /\ copy # Ledger!Nothing => FastExit /\ trade # Ledger!Nothing
             /\ Told' = [Told EXCEPT ![s] = a]
             /\ rows' = [rows EXCEPT ![Ledger!Trade(s)] = trade, ![Ledger!Copy(s)] = copy]
    <3>1. rows[Ledger!Trade(s)] = Ledger!Nothing /\ rows[Ledger!Copy(s)] = Ledger!Nothing
      BY <2>2, <2>3
    <3>2. /\ rows'[b] \in Ledger!Trades \cup {Ledger!Nothing}
          /\ rows'[f] \in Ledger!Trades \cup {Ledger!Nothing, Ledger!Refused}
          /\ rows'[f] # Ledger!Nothing => FastExit /\ rows'[b] # Ledger!Nothing
      BY <1>9, <2>3
    <3>3. rows' = [rows EXCEPT ![Ledger!Trade(s)] = rows'[b], ![Ledger!Copy(s)] = rows'[f]]
      BY <1>8, <2>3
    <3>4. answer \in Ledger!Answers /\ Ledger!Agrees(answer, rows'[b])
          /\ Told' = [Told EXCEPT ![s] = answer]
      BY <1>10, <1>11, <1>13
    <3> QED BY ONLY <3>1, <3>2, <3>3, <3>4
  <2> QED BY ONLY <1>12, <2>2, <2>4 DEF Ledger!Enter, Told
<1> QED BY <1>3, <1>5, <1>14

LEMMA LedgerFacts ==
    ASSUME LedgerInv, NEW s \in Signals
    PROVE  Inv /\ run[s] \in Run /\ RunOk(s, run[s]) /\ MadeOk(run[s])
BY RunFacts DEF LedgerInv, MadeInv

(* What a run does before its end keeps what it makes.                                *)
LEMMA GoingMade ==
    ASSUME LedgerInv, NEW s \in Signals, NEW r,
           \/ \E kind \in {"cycle", "single"}, risk \in Risks :
                 Begin(s, kind, risk) /\ r = [run[s] EXCEPT !.at = "judge", !.kind = kind, !.risk = risk]
           \/ Judge(s) /\ r \in {[run[s] EXCEPT !.at = "save"], Refused(run[s])}
           \/ LogDecision(s) /\ r = [run[s] EXCEPT !.at = "commit"]
    PROVE  run[s].at # "done" /\ r.at # "done" /\ MadeOk(r)
<1>1. run[s] \in Run /\ RunOk(s, run[s]) /\ MadeOk(run[s])
  BY LedgerFacts
<1>2. ASSUME NEW kind \in {"cycle", "single"}, NEW risk \in Risks, Begin(s, kind, risk),
             r = [run[s] EXCEPT !.at = "judge", !.kind = kind, !.risk = risk]
      PROVE  run[s].at # "done" /\ r.at # "done" /\ MadeOk(r)
  BY <1>1, <1>2 DEF Begin, At, Run, MadeOk
<1>3. CASE Judge(s) /\ r = [run[s] EXCEPT !.at = "save"]
  BY <1>1, <1>3 DEF Judge, At, Run, MadeOk
<1>4. CASE Judge(s) /\ r = Refused(run[s])
  BY <1>1, <1>4 DEF Judge, At, Run, MadeOk, Refused
<1>5. CASE LogDecision(s) /\ r = [run[s] EXCEPT !.at = "commit"]
  BY <1>1, <1>5 DEF LogDecision, At, Run, MadeOk
<1> QED BY <1>2, <1>3, <1>4, <1>5

LEMMA GoingOn ==
    ASSUME LedgerInv, NEW s \in Signals,
           \/ \E kind \in {"cycle", "single"}, risk \in Risks : Begin(s, kind, risk)
           \/ Judge(s) \/ LogDecision(s)
    PROVE  MadeInv' /\ DueInv' /\ UNCHANGED <<rows, due, Told>>
<1>1. ASSUME NEW kind \in {"cycle", "single"}, NEW risk \in Risks, Begin(s, kind, risk)
      PROVE  MadeInv' /\ DueInv' /\ UNCHANGED <<rows, due, Told>>
  <2> DEFINE r == [run[s] EXCEPT !.at = "judge", !.kind = kind, !.risk = risk]
  <2>1. run[s].at # "done" /\ r.at # "done" /\ MadeOk(r)
    BY <1>1, GoingMade
  <2>2. Goes(s, r) /\ StoreRests
    BY <1>1 DEF Begin
  <2> QED BY <2>1, <2>2, RunGoesOn
<1>2. CASE Judge(s)
  <2> DEFINE saves == [run[s] EXCEPT !.at = "save"]
  <2>1. /\ run[s].at # "done" /\ saves.at # "done" /\ MadeOk(saves)
        /\ Refused(run[s]).at # "done" /\ MadeOk(Refused(run[s]))
    BY <1>2, GoingMade
  <2>2. (Goes(s, saves) \/ Goes(s, Refused(run[s]))) /\ StoreRests
    BY <1>2 DEF Judge
  <2> QED BY <2>1, <2>2, RunGoesOn
<1>3. CASE LogDecision(s)
  <2> DEFINE r == [run[s] EXCEPT !.at = "commit"]
  <2>1. run[s].at # "done" /\ r.at # "done" /\ MadeOk(r)
    BY <1>3, GoingMade
  <2>2. Goes(s, r) /\ StoreRests
    BY <1>3 DEF LogDecision
  <2> QED BY <2>1, <2>2, RunGoesOn
<1> QED BY <1>1, <1>2, <1>3

LEMMA ExecutedMade ==
    ASSUME NEW r \in Run, MadeOk(r), r.at # "waiting"
    PROVE  Executed(r).at # "done" /\ MadeOk(Executed(r))
BY DEF Executed, Run, MadeOk

LEMMA SavingGoesOn ==
    ASSUME LedgerInv, NEW s \in Signals, SaveBaseline(s) \/ PlanFast(s) \/ SaveFast(s)
    PROVE  MadeInv' /\ DueInv' /\ UNCHANGED <<rows, due, Told>>
<1>1. run[s] \in Run /\ RunOk(s, run[s]) /\ MadeOk(run[s])
  BY LedgerFacts
<1>2. CASE SaveBaseline(s)
  <2> DEFINE saved == IF View(s)[<<s, "baseline_v1">>] = NoRow
                      THEN [run[s] EXCEPT !.mine["baseline_v1"] = Open(run[s].risk)]
                      ELSE run[s]
             plans == [saved EXCEPT !.at = "plan"]
  <2>1. run[s].at = "save" /\ run[s].risk \in Risks
    BY <1>1, <1>2 DEF SaveBaseline, At, MadeOk
  <2>2. Open(run[s].risk) \in Opens /\ Open(run[s].risk) \in Row
    BY <2>1, OpensReal DEF Opens
  <2>3. saved \in Run /\ MadeOk(saved) /\ saved.at = "save"
    BY <1>1, <2>1, <2>2 DEF Run, MadeOk, Versions
  <2>4. /\ run[s].at # "done"
        /\ Goes(s, IF FastExit THEN plans ELSE Executed(saved)) /\ StoreRests
    BY <1>2, <2>1 DEF SaveBaseline
  <2> HIDE DEF saved
  <2>5. FastExit => plans.at # "done" /\ MadeOk(plans)
    BY <2>3 DEF Run, MadeOk
  <2>6. Executed(saved).at # "done" /\ MadeOk(Executed(saved))
    BY <2>3, ExecutedMade
  <2> QED BY <2>4, <2>5, <2>6, RunGoesOn
<1>3. CASE PlanFast(s)
  <2>1. run[s].at = "plan" /\ StoreRests
    BY <1>3 DEF PlanFast, At
  <2>2. ASSUME NEW row \in Opens \cup {Rejected},
               Goes(s, [run[s] EXCEPT !.at = "variant", !.fast = row])
        PROVE  MadeInv' /\ DueInv' /\ UNCHANGED <<rows, due, Told>>
    <3> DEFINE r == [run[s] EXCEPT !.at = "variant", !.fast = row]
    <3>1. r.at # "done" /\ MadeOk(r)
      BY <1>1, <2>1 DEF Run, MadeOk
    <3> QED BY <2>1, <2>2, <3>1, RunGoesOn
  <2>3. Executed(run[s]).at # "done" /\ MadeOk(Executed(run[s]))
    BY <1>1, <2>1, ExecutedMade
  <2>4. {Open(risk) : risk \in {x \in Risks : Fits(s, x)}} \subseteq Opens
    BY DEF Opens
  <2>5. \/ \E row \in Opens \cup {Rejected} : Goes(s, [run[s] EXCEPT !.at = "variant", !.fast = row])
        \/ Goes(s, Executed(run[s]))
    BY <1>3, <2>4 DEF PlanFast
  <2> QED BY <2>1, <2>2, <2>3, <2>5, RunGoesOn
<1>4. CASE SaveFast(s)
  <2> DEFINE saved == IF View(s)[<<s, "fast_exit_v2">>] = NoRow
                      THEN [run[s] EXCEPT !.mine["fast_exit_v2"] = run[s].fast]
                      ELSE run[s]
  <2>1. run[s].at = "variant" /\ FastExit
    BY <1>1, <1>4 DEF SaveFast, At, MadeOk
  <2>2. saved \in Run /\ MadeOk(saved) /\ saved.at = "variant"
    BY <1>1, <2>1 DEF Run, MadeOk, Versions
  <2>3. Goes(s, Executed(saved)) /\ StoreRests
    BY <1>4 DEF SaveFast
  <2> HIDE DEF saved
  <2>4. Executed(saved).at # "done" /\ MadeOk(Executed(saved))
    BY <2>2, ExecutedMade
  <2> QED BY <2>1, <2>3, <2>4, RunGoesOn
<1> QED BY <1>2, <1>3, <1>4

LEMMA HitMade ==
    ASSUME NEW r \in Run, MadeOk(r), NEW what
    PROVE  LET hit == [r EXCEPT !.hit = @ \cup {what}] IN MadeOk(hit) /\ hit.at = r.at
BY DEF MadeOk, Run

LEMMA AbortedMade ==
    ASSUME NEW r \in Run, MadeOk(r)
    PROVE  Aborted(r) \in Run /\ MadeOk(Aborted(r)) /\ Aborted(r).at = r.at
<1>1. /\ Aborted(r) \in Run /\ Aborted(r).mine = NoRows /\ Aborted(r).risk = r.risk
      /\ Aborted(r).fast = r.fast /\ Aborted(r).at = r.at /\ Aborted(r).report = r.report
  BY NoRowsFacts DEF Aborted, Run
<1> QED BY <1>1, NoRowsFacts DEF MadeOk, Versions

LEMMA FailingGoesOn ==
    ASSUME LedgerInv, NEW s \in Signals, StatementFails(s) \/ Timeout(s)
    PROVE  MadeInv' /\ DueInv' /\ UNCHANGED <<rows, due, Told>>
<1>1. run[s] \in Run /\ RunOk(s, run[s]) /\ MadeOk(run[s])
  BY LedgerFacts
<1>2. Aborted(run[s]) \in Run /\ MadeOk(Aborted(run[s])) /\ Aborted(run[s]).at = run[s].at
  BY <1>1, AbortedMade
<1>3. ASSUME NEW r \in Run, NEW what, MadeOk(r), run[s].at # "done", r.at # "done",
             Hits(s, r, what), StoreRests
      PROVE  MadeInv' /\ DueInv' /\ UNCHANGED <<rows, due, Told>>
  BY <1>3, HitMade, RunGoesOn DEF Hits
<1>4. CASE run[s].at \in {"judge", "save"} /\ Hits(s, Refused(Aborted(run[s])), "baseline") /\ StoreRests
  <2>1. /\ Refused(Aborted(run[s])) \in Run /\ MadeOk(Refused(Aborted(run[s])))
        /\ Refused(Aborted(run[s])).at = "log"
    BY <1>2, <1>4 DEF Refused, Run, MadeOk, Places
  <2> QED BY <1>3, <1>4, <2>1
<1>5. CASE run[s].at \in {"plan", "variant"} /\ Hits(s, Executed(Aborted(run[s])), "variant") /\ StoreRests
  <2>1. /\ Executed(Aborted(run[s])) \in Run /\ MadeOk(Executed(Aborted(run[s])))
        /\ Executed(Aborted(run[s])).at = "log"
    BY <1>2, <1>5 DEF Executed, Run, MadeOk, Places
  <2> QED BY <1>3, <1>5, <2>1
<1>6. CASE /\ run[s].at = "log" /\ StoreRests
           /\ Hits(s, IF run[s].kind = "cycle"
                      THEN [Aborted(run[s]) EXCEPT !.at = "commit", !.tx = "invalid"]
                      ELSE [run[s] EXCEPT !.at = "commit"], "log")
  <2> DEFINE left == [Aborted(run[s]) EXCEPT !.at = "commit", !.tx = "invalid"]
             goes == [run[s] EXCEPT !.at = "commit"]
  <2>1. left \in Run /\ MadeOk(left) /\ left.at = "commit"
    BY <1>2, <1>6 DEF Run, MadeOk, Places
  <2>2. goes \in Run /\ MadeOk(goes) /\ goes.at = "commit"
    BY <1>1, <1>6 DEF Run, MadeOk, Places
  <2>3. Hits(s, left, "log") \/ Hits(s, goes, "log")
    BY <1>6
  <2> HIDE DEF left, goes
  <2> QED BY <1>3, <1>6, <2>1, <2>2, <2>3
<1>7. CASE Timeout(s)
  <2> DEFINE r == [run[s] EXCEPT !.at = "judge", !.tx = "invalid", !.mine = NoRows]
  <2>1. run[s].at \in {"judge", "save", "plan", "variant"} /\ Hits(s, r, "timeout") /\ StoreRests
    BY <1>7 DEF Timeout, At
  <2>2. r \in Run /\ MadeOk(r) /\ r.at = "judge"
    BY <1>1, <2>1, NoRowsFacts DEF Run, MadeOk, Places, Versions
  <2> QED BY <1>3, <2>1, <2>2
<1> QED BY <1>4, <1>5, <1>6, <1>7 DEF StatementFails, At

(* The runs that end make their entry.                                                *)
LEMMA RunsEnd ==
    ASSUME LedgerInv, Inv', RiskInv', NEW s \in Signals, Commit(s) \/ CommitFails(s) \/ Killed(s)
    PROVE  MadeInv' /\ DueInv' /\ Ledger!Enter(s)
<1>1. run[s] \in Run /\ RunOk(s, run[s]) /\ MadeOk(run[s])
  BY LedgerFacts
<1>2. CASE Commit(s)
  <2> DEFINE r == [run[s] EXCEPT !.at = "done", !.mine = NoRows, !.fast = NoRow,
                                 !.report = IF run[s].tx = "invalid" /\ run[s].kind = "single"
                                            THEN "error" ELSE @]
  <2>1. run[s].at = "commit" /\ Goes(s, r) /\ UNCHANGED <<due, mon>>
    BY <1>2 DEF Commit, At, Ends
  <2>2. rows' = IF run[s].tx = "open" THEN Written(s) ELSE rows
    BY <1>2 DEF Commit
  <2>3. /\ r.at = "done" /\ MadeOk(r) /\ r.hit = run[s].hit
        /\ r.report \in {run[s].report, "error"} /\ r.report # "none"
    BY <1>1, <2>1, NoRowsFacts DEF Run, MadeOk, Versions
  <2>4. r.report = "rejected" => run[s].mine = NoRows
    BY <1>1, <2>3 DEF RunOk
  <2>5. Claims(r) => run[s].mine["baseline_v1"] # NoRow /\ rows' = Written(s)
    BY <1>1, <2>1, <2>2, <2>3 DEF RunOk, Claims
  <2> HIDE DEF r
  <2> QED BY <2>1, <2>2, <2>3, <2>4, <2>5, RunEnds
<1>3. CASE CommitFails(s)
  <2> DEFINE r == [run[s] EXCEPT !.at = "done", !.mine = NoRows, !.fast = NoRow,
                                 !.hit = @ \cup {"commit"},
                                 !.report = IF run[s].kind = "single" THEN "error" ELSE @]
  <2>1. run[s].at = "commit" /\ Goes(s, r) /\ UNCHANGED <<due, mon>> /\ rows' \in {rows, Written(s)}
    BY <1>3 DEF CommitFails, At
  <2>2. /\ r.at = "done" /\ MadeOk(r) /\ "commit" \in r.hit
        /\ r.report \in {run[s].report, "error"} /\ r.report # "none"
    BY <1>1, <2>1, NoRowsFacts DEF Run, MadeOk, Versions
  <2>3. r.report = "rejected" => run[s].mine = NoRows
    BY <1>1, <2>2 DEF RunOk
  <2>4. ~Claims(r)
    BY <2>2 DEF Claims
  <2> HIDE DEF r
  <2> QED BY <2>1, <2>2, <2>3, <2>4, RunEnds
<1>4. CASE Killed(s)
  <2> DEFINE r == [run[s] EXCEPT !.at = "done", !.mine = NoRows, !.fast = NoRow, !.report = "none"]
             hit == [r EXCEPT !.hit = @ \cup {"killed"}]
  <2>1. run[s].at \notin {"waiting", "done"} /\ Goes(s, hit) /\ UNCHANGED <<rows, due, mon>>
    BY <1>4 DEF Killed, Hits, Running, At, StoreRests
  <2>2. hit.at = "done" /\ MadeOk(hit) /\ hit.report = "none"
    BY <1>1, <2>1, NoRowsFacts DEF Run, MadeOk, Versions
  <2>3. ~Claims(hit)
    BY <2>2 DEF Claims
  <2> HIDE DEF hit
  <2> QED BY <2>1, <2>2, <2>3, RunEnds
<1> QED BY <1>2, <1>3, <1>4

--------------------------------------------------------------------------------
(* The monitors.                                                                      *)

(* A monitor that writes nothing, and takes only trades past their time for such.     *)
LEMMA MonitorRests ==
    ASSUME LedgerInv, UNCHANGED <<rows, due, run>>,
           \A m \in Monitors, k \in Keys : mon'[m].draft[k] = "MAX_HOLD" => k \in due
    PROVE  MadeInv' /\ DueInv' /\ UNCHANGED <<rows, due, Told>>
BY DEF LedgerInv, MadeInv, MadeOk, DueInv, Told

LEMMA MonitorGoesOn ==
    ASSUME LedgerInv, NEW m \in Monitors,
           \/ \E priced \in BOOLEAN : Look(m, priced)
           \/ Queue(m) \/ Visit(m) \/ Deadlocked(m) \/ MonitorFails(m)
    PROVE  MadeInv' /\ DueInv' /\ UNCHANGED <<rows, due, Told>>
<1>1. Inv /\ mon \in [Monitors -> Mon] /\ DueInv
  BY MonFacts DEF LedgerInv
<1>2. ASSUME NEW priced \in BOOLEAN, Look(m, priced)
      PROVE  MadeInv' /\ DueInv' /\ UNCHANGED <<rows, due, Told>>
  <2> DEFINE start == [Idle EXCEPT !.priced = priced]
  <2>1. start \in Mon /\ \A k \in Keys : start.draft[k] = "none"
    BY IdleFacts
  <2>2. PICK mo \in Turns(start, OpenIn(rows)) : mon' = [mon EXCEPT ![m] = mo]
    BY <1>2 DEF Look
  <2> HIDE DEF start
  <2>3. mo.draft = start.draft
    BY <2>1, TurnsFacts DEF OpenIn
  <2>4. \A n \in Monitors, k \in Keys : mon'[n].draft[k] = "MAX_HOLD" => k \in due
    BY <1>1, <2>1, <2>2, <2>3 DEF DueInv
  <2> QED BY <1>2, <2>4, MonitorRests DEF Look, RunsRest
<1>3. CASE Queue(m)
  <2>1. \A n \in Monitors : mon'[n].draft = mon[n].draft
    BY <1>1, <1>3 DEF Queue, Mon
  <2> QED BY <1>1, <1>3, <2>1, MonitorRests DEF Queue, RunsRest, DueInv
<1>4. CASE Visit(m)
  <2> DEFINE k == mon[m].next
  <2>1. PICK end \in Updated(m, k), mo \in Turns(mon[m], mon[m].todo) :
           mon' = [n \in Monitors |->
                     IF n = m THEN [mo EXCEPT !.draft[k] = end]
                     ELSE IF end = "none" /\ mon[n].next = k
                     THEN [mon[n] EXCEPT !.behind = @ \ {m}]
                     ELSE mon[n]]
    BY <1>4 DEF Visit
  <2>2. k # NoKey /\ UNCHANGED <<rows, due, run>>
    BY <1>4 DEF Visit, RunsRest
  <2>3. mo \in Mon /\ mo.draft = mon[m].draft
    <3>1. mon[m] \in Mon /\ mon[m].todo \in SUBSET Keys
      BY <1>1 DEF Mon
    <3> QED BY <3>1, TurnsFacts
  <2>4. end = "MAX_HOLD" => k \in due
    BY DEF Updated, Outcomes
  <2> HIDE DEF k
  <2>5. ASSUME NEW n \in Monitors, NEW l \in Keys, mon'[n].draft[l] = "MAX_HOLD"
        PROVE  l \in due
    <3>1. CASE n # m
      <4>1. mon'[n].draft = mon[n].draft
        BY <1>1, <2>1, <3>1 DEF Mon
      <4> QED BY <1>1, <2>5, <4>1 DEF DueInv
    <3>2. CASE n = m
      <4>1. mon'[m] = [mo EXCEPT !.draft[k] = end]
        BY <2>1
      <4>2. (l = k /\ end = "MAX_HOLD") \/ mon[m].draft[l] = "MAX_HOLD"
        BY <2>3, <2>5, <3>2, <4>1 DEF Mon
      <4> QED BY <1>1, <2>4, <4>2 DEF DueInv
    <3> QED BY <3>1, <3>2
  <2> QED BY <2>2, <2>5, MonitorRests
<1>5. CASE Deadlocked(m) \/ MonitorFails(m)
  <2>1. Leaves(m) /\ UNCHANGED <<rows, due, run>>
    BY <1>5 DEF Deadlocked, MonitorFails, RunsRest
  <2>2. ASSUME NEW n \in Monitors, NEW k \in Keys, mon'[n].draft[k] = "MAX_HOLD"
        PROVE  k \in due
    <3>1. n # m /\ mon'[n].draft = mon[n].draft
      BY <1>1, <2>1, <2>2, IdleFacts DEF Leaves, Mon
    <3> QED BY <1>1, <2>2, <3>1 DEF DueInv
  <2> QED BY <2>1, <2>2, MonitorRests
<1> QED BY <1>2, <1>3, <1>4, <1>5

(* A monitor's commit closes the trades it found at their end.                        *)
LEMMA FinishCloses ==
    ASSUME LedgerInv, NEW m \in Monitors, Finish(m)
    PROVE  MadeInv' /\ DueInv' /\ [Ledger!Close]_<<rows, Told, due>>
<1>1. /\ rows' = [k \in Keys |-> IF k \in Held(m)
                                 THEN [rows[k] EXCEPT !.status = mon[m].draft[k]]
                                 ELSE rows[k]]
      /\ due' = {k \in due : rows'[k].status = "OPEN"}
      /\ Leaves(m) /\ run' = run
  BY DEF Finish
<1>2. /\ Inv /\ mon \in [Monitors -> Mon] /\ DueInv /\ rows \in [Keys -> Row]
      /\ HeldInv /\ due \subseteq Keys
  BY MonFacts, KeyFacts DEF LedgerInv, Inv, TypeOK, MonitorsInv, Keys, Versions
<1>3. \A k \in Held(m) : k \in Keys /\ rows[k].status = "OPEN" /\ mon[m].draft[k] \in {"OPEN"} \cup Closed
  BY <1>2, MonFacts DEF Held, HeldInv
<1>4. MadeInv' /\ Told' = Told
  BY <1>1 DEF LedgerInv, MadeInv, MadeOk, Told
<1>5. DueInv'
  <2>1. \A k \in due' : rows'[k].status = "OPEN"
    BY <1>1
  <2>2. ASSUME NEW n \in Monitors, NEW k \in Keys, mon'[n].draft[k] = "MAX_HOLD"
        PROVE  k \in due'
    <3>1. n # m /\ mon[n].draft[k] = "MAX_HOLD"
      BY <1>1, <1>2, <2>2, IdleFacts DEF Leaves, Mon
    <3>2. k \in due /\ k \notin Held(m) /\ rows[k].status = "OPEN"
      BY <1>2, <3>1 DEF DueInv, HeldInv, Held
    <3> QED BY <1>1, <3>2
  <2> QED BY <2>1, <2>2 DEF DueInv
<1> DEFINE closed == {k \in Held(m) : mon[m].draft[k] # "OPEN"}
           end == [k \in closed |-> mon[m].draft[k]]
<1>6. \A k \in Keys : rows'[k] = IF k \in closed THEN [rows[k] EXCEPT !.status = end[k]] ELSE rows[k]
  <2> SUFFICES ASSUME NEW k \in Keys
               PROVE  rows'[k] = IF k \in closed THEN [rows[k] EXCEPT !.status = end[k]] ELSE rows[k]
    OBVIOUS
  <2>1. CASE k \notin Held(m)
    BY <1>1, <2>1
  <2>2. CASE k \in closed
    BY <1>1, <2>2
  <2>3. CASE k \in Held(m) /\ k \notin closed
    <3>1. rows'[k] = [rows[k] EXCEPT !.status = "OPEN"] /\ rows[k].status = "OPEN" /\ rows[k] \in Row
      BY <1>1, <1>2, <1>3, <2>3
    <3> QED BY <2>3, <3>1 DEF Row
  <2> QED BY <2>1, <2>2, <2>3
<1>7. /\ closed \in SUBSET {k \in Keys : rows[k].status = "OPEN"}
      /\ end \in [closed -> {"TP_HIT", "SL_HIT", "MAX_HOLD"}]
      /\ \A k \in closed : end[k] = "MAX_HOLD" => k \in due
  BY <1>2, <1>3 DEF Held, Closed, DueInv
<1>8. due' = due \ closed
  <2>1. \A k \in due : rows'[k].status = "OPEN" <=> k \notin closed
    <3> SUFFICES ASSUME NEW k \in due PROVE rows'[k].status = "OPEN" <=> k \notin closed
      OBVIOUS
    <3>1. k \in Keys /\ rows[k].status = "OPEN" /\ rows[k] \in Row
      BY <1>2 DEF DueInv
    <3>2. CASE k \in closed
      BY <1>6, <1>7, <3>1, <3>2 DEF Row
    <3>3. CASE k \notin closed
      BY <1>6, <3>1, <3>3
    <3> QED BY <3>2, <3>3
  <2> QED BY <1>1, <2>1
<1>9. CASE rows' = rows
  <2>1. due' = due
    BY <1>1, <1>2, <1>9 DEF DueInv
  <2> QED BY <1>4, <1>5, <1>9, <2>1
<1>10. CASE rows' # rows
  <2>1. rows' = [k \in Keys |-> IF k \in closed THEN [rows[k] EXCEPT !.status = end[k]] ELSE rows[k]]
    BY <1>1, <1>6
  <2> HIDE DEF closed, end
  <2>2. Ledger!Keys = Keys /\ Told' = Told
    BY <1>4, LedgerKeys
  <2>3. \A k \in Keys : Ledger!IsOpen(k) <=> rows[k].status = "OPEN"
    BY DEF Ledger!IsOpen
  <2>4. Ledger!Close
    BY <1>7, <1>8, <1>10, <2>1, <2>2, <2>3 DEF Ledger!Close, Told
  <2> QED BY <1>4, <1>5, <2>4
<1> QED BY <1>9, <1>10

LEMMA ExpireAges ==
    ASSUME LedgerInv, NEW k \in Keys, Expire(k)
    PROVE  MadeInv' /\ DueInv' /\ \E s \in Signals : Ledger!Age(s)
<1>1. PICK s \in Signals : k = <<s, "fast_exit_v2">>
  BY DEF Expire
<1>2. rows[k].status = "OPEN" /\ due' = due \cup {k} /\ UNCHANGED <<rows, run, mon>>
  BY DEF Expire
<1>3. MadeInv' /\ DueInv' /\ Told' = Told
  BY <1>2 DEF LedgerInv, MadeInv, MadeOk, DueInv, Told
<1>4. Ledger!Copy(s) = k
  BY <1>1, LedgerKeys
<1>5. Ledger!Age(s)
  BY <1>2, <1>3, <1>4 DEF Ledger!Age, Ledger!IsOpen, Told
<1> QED BY <1>3, <1>5

--------------------------------------------------------------------------------
LEMMA LedgerStep ==
    ASSUME LedgerInv, [Next]_vars
    PROVE  LedgerInv' /\ [Ledger!Next]_Ledger!vars
<1>1. Inv' /\ RiskInv'
  BY StepInv, StepRisk DEF LedgerInv
<1>2. SUFFICES MadeInv' /\ DueInv' /\ (Ledger!Next \/ UNCHANGED <<rows, due, Told>>)
  BY <1>1 DEF LedgerInv, Ledger!vars, Told
<1>3. CASE vars' = vars
  BY <1>3 DEF vars, LedgerInv, MadeInv, MadeOk, DueInv, Told
<1>4. ASSUME NEW s \in Signals,
             \/ \E kind \in {"cycle", "single"}, risk \in Risks : Begin(s, kind, risk)
             \/ Judge(s) \/ SaveBaseline(s) \/ PlanFast(s) \/ SaveFast(s)
             \/ LogDecision(s) \/ StatementFails(s) \/ Timeout(s)
      PROVE  MadeInv' /\ DueInv' /\ UNCHANGED <<rows, due, Told>>
  BY <1>4, GoingOn, SavingGoesOn, FailingGoesOn
<1>5. ASSUME NEW s \in Signals, Commit(s) \/ CommitFails(s) \/ Killed(s)
      PROVE  MadeInv' /\ DueInv' /\ Ledger!Next
  BY <1>1, <1>5, RunsEnd DEF Ledger!Next
<1>6. ASSUME NEW m \in Monitors,
             \/ \E priced \in BOOLEAN : Look(m, priced)
             \/ Queue(m) \/ Visit(m) \/ Deadlocked(m) \/ MonitorFails(m)
      PROVE  MadeInv' /\ DueInv' /\ UNCHANGED <<rows, due, Told>>
  BY <1>6, MonitorGoesOn
<1>7. ASSUME NEW m \in Monitors, Finish(m)
      PROVE  MadeInv' /\ DueInv' /\ (Ledger!Next \/ UNCHANGED <<rows, due, Told>>)
  BY <1>7, FinishCloses DEF Ledger!Next
<1>8. ASSUME NEW k \in Keys, Expire(k)
      PROVE  MadeInv' /\ DueInv' /\ Ledger!Next
  BY <1>8, ExpireAges DEF Ledger!Next
<1>9. CASE Next
  BY <1>4, <1>5, <1>6, <1>7, <1>8, <1>9 DEF Next
<1> QED BY <1>3, <1>9

LEMMA LedgerStarts == Init => LedgerInv /\ Ledger!Init
<1> SUFFICES ASSUME Init PROVE LedgerInv /\ Ledger!Init
  OBVIOUS
<1>1. Inv /\ RiskInv
  BY InitInv, InitRisk
<1>2. \A s \in Signals : run[s] = NewRun
  BY DEF Init
<1>3. MadeInv
  BY <1>2, NoRowsFacts DEF MadeInv, MadeOk, NewRun, Versions
<1>4. DueInv
  BY DEF Init, DueInv, Idle
<1>5. Told = [s \in Signals |-> "pending"]
  BY <1>2, AnswerIs DEF Told, NewRun
<1>6. rows \in {[k \in Keys |-> NoRow], [k \in Keys |-> IF k = LegacyKey THEN Open(0) ELSE NoRow]}
  BY DEF Init
<1>7. Ledger!Init
  BY <1>5, <1>6, LedgerKeys DEF Init, Ledger!Init, Told, Ledger!Open, Open
<1> QED BY <1>1, <1>3, <1>4, <1>7 DEF LedgerInv

(* RunsAreEntries, for any numbers of signals, workers, monitors and failures and any *)
(* risks and limits: what the runs and the monitors do to the table, statement by     *)
(* statement, is what the ledger does entry by entry.                                  *)
THEOREM Entries == Spec => RunsAreEntries
<1>1. Init => LedgerInv /\ Ledger!Init
  BY LedgerStarts
<1>2. LedgerInv /\ [Next]_vars => LedgerInv' /\ [Ledger!Next]_Ledger!vars
  BY LedgerStep
<1> QED BY <1>1, <1>2, PTL DEF Spec, RunsAreEntries, Ledger!Spec

--------------------------------------------------------------------------------
(* The candle stream.                                                                *)

StreamTypes ==
    /\ written \in 0 .. MaxMessages
    /\ group \in [made : BOOLEAN, first : Nat, last : Nat]
    /\ pending \subseteq Messages
    /\ batch \in Seq(Messages)
    /\ at \in {"off", "reading", "price", "send", "ack"}
    /\ cycles \in [Messages -> Nat]
    /\ stops \in Nat /\ errors \in Nat

(* Where the group stands: it has delivered the messages between first and last.  *)
GroupInv ==
    /\ group.first <= group.last /\ group.last <= written
    /\ ~group.made => at = "off" /\ group.last = 0
    /\ \A m \in pending : group.first < m /\ m <= group.last

(* The reply in hand: in the order of the stream, delivered, and of its messages  *)
(* only the first one may have been sent.                                         *)
BatchInv ==
    /\ at \in {"off", "reading"} <=> batch = <<>>
    /\ \A i \in DOMAIN batch : batch[i] \in pending
    /\ \A i, j \in DOMAIN batch : i < j => batch[i] < batch[j]
    /\ \A i \in DOMAIN batch : cycles[batch[i]] = IF i = 1 /\ at = "ack" THEN 1 ELSE 0

(* What the group has not delivered has started nothing.                          *)
CyclesInv ==
    /\ \A m \in Messages : ~(group.first < m /\ m <= group.last) => cycles[m] = 0
    /\ AnalysedOnce

StreamInv == StreamTypes /\ GroupInv /\ BatchInv /\ CyclesInv

--------------------------------------------------------------------------------

LEMMA StreamStarts == ASSUME StreamInit PROVE StreamInv
<1>1. StreamTypes /\ GroupInv
  BY StreamAssumption DEF StreamInit, StreamTypes, GroupInv, Messages
<1>2. BatchInv /\ CyclesInv
  BY StreamAssumption DEF StreamInit, BatchInv, CyclesInv, AnalysedOnce, Messages
<1> QED BY <1>1, <1>2 DEF StreamInv

(* The reply has the messages after the last one delivered, in their order.       *)
LEMMA ReplyShape ==
    ASSUME StreamTypes, GroupInv, New
    PROVE  /\ Upto \in Nat /\ group.last < Upto /\ Upto <= written
           /\ Reply \in Seq(Messages) /\ Reply # <<>>
           /\ DOMAIN Reply = 1 .. (Upto - group.last)
           /\ \A i \in DOMAIN Reply : Reply[i] = group.last + i
<1>1. written \in Nat /\ group.last \in Nat /\ group.last < written /\ written <= MaxMessages
  BY StreamAssumption DEF StreamTypes, New
<1>2. Upto \in Nat /\ group.last < Upto /\ Upto <= written
  BY <1>1, StreamAssumption DEF Upto
<1>3. Reply \in [1 .. (Upto - group.last) -> Messages]
  BY <1>1, <1>2, StreamAssumption DEF Reply, Messages
<1>4. Reply \in Seq(Messages) /\ Len(Reply) = Upto - group.last
  BY <1>1, <1>2, <1>3
<1> QED BY <1>1, <1>2, <1>4 DEF Reply

(* What is left of a reply after its first message.                               *)
LEMMA TailShape ==
    ASSUME StreamTypes, batch # <<>>
    PROVE  /\ Tail(batch) \in Seq(Messages) /\ Head(batch) = batch[1] /\ 1 \in DOMAIN batch
           /\ batch[1] \in Messages
           /\ \A i \in DOMAIN Tail(batch) :
                 i \in Nat \ {0} /\ i + 1 \in DOMAIN batch /\ Tail(batch)[i] = batch[i + 1]
BY DEF StreamTypes

(* A read moves the group on.                                                     *)
LEMMA DeliveredStep ==
    ASSUME StreamInv, New, Delivered, pending' = pending \cup (group.last + 1 .. Upto),
           UNCHANGED <<written, cycles, stops>>, errors' \in Nat,
           batch' \in Seq(Messages), at' \in {"off", "reading", "price", "send", "ack"},
           group.made
    PROVE  StreamTypes' /\ GroupInv' /\ CyclesInv'
<1>1. /\ group'.last = Upto /\ group'.first = group.first /\ group'.made = group.made
      /\ group' \in [made : BOOLEAN, first : Nat, last : Nat]
  BY ReplyShape DEF StreamInv, StreamTypes, Delivered
<1>2. StreamTypes'
  <2>1. pending' \subseteq Messages
    <3>1. /\ group.last \in Nat /\ written \in Nat /\ written <= MaxMessages
          /\ Upto \in Nat /\ Upto <= written
      BY ReplyShape, StreamAssumption DEF StreamInv, StreamTypes
    <3>2. group.last + 1 .. Upto \subseteq Messages
      BY <3>1, StreamAssumption DEF Messages
    <3> QED BY <3>2 DEF StreamInv, StreamTypes
  <2>2. written' \in 0 .. MaxMessages /\ cycles' \in [Messages -> Nat] /\ stops' \in Nat
    BY DEF StreamInv, StreamTypes
  <2> QED BY <1>1, <2>1, <2>2 DEF StreamTypes
<1>3. GroupInv'
  BY <1>1, ReplyShape DEF StreamInv, StreamTypes, GroupInv, Messages
<1>4. CyclesInv'
  BY <1>1, ReplyShape DEF StreamInv, StreamTypes, GroupInv, CyclesInv, AnalysedOnce, Messages
<1> QED BY <1>2, <1>3, <1>4

LEMMA ReadStep == ASSUME StreamInv, Read PROVE StreamInv'
<1> USE DEF StreamInv
<1>1. New /\ at = "reading" /\ batch' = Reply /\ at' = "price" /\ group.made
  BY ReplyShape DEF Read, Proceed, GroupInv
<1>2. StreamTypes' /\ GroupInv' /\ CyclesInv'
  BY <1>1, DeliveredStep, ReplyShape DEF Read, StreamTypes
<1>3. BatchInv'
  <2>1. \A i \in DOMAIN batch' : /\ i \in Nat /\ batch'[i] = group.last + i
                                 /\ group.last < batch'[i] /\ batch'[i] <= Upto
                                 /\ batch'[i] \in Messages
    BY <1>1, ReplyShape DEF StreamTypes
  <2>2. \A i \in DOMAIN batch' : cycles'[batch'[i]] = 0
    BY <2>1 DEF Read, StreamTypes, CyclesInv
  <2>3. \A i \in DOMAIN batch' : batch'[i] \in pending'
    BY <2>1, ReplyShape DEF Read, StreamTypes, Messages
  <2> QED BY <1>1, <2>1, <2>2, <2>3, ReplyShape DEF BatchInv, StreamTypes
<1> QED BY <1>2, <1>3

LEMMA ReadLostStep == ASSUME StreamInv, ReadLost PROVE StreamInv'
<1> USE DEF StreamInv
<1>1. New /\ at = "reading" /\ batch' = batch /\ at' = "reading" /\ group.made /\ batch = <<>>
  BY DEF ReadLost, GroupInv, BatchInv
<1>2. StreamTypes' /\ GroupInv' /\ CyclesInv'
  BY <1>1, DeliveredStep DEF ReadLost, StreamTypes
<1>3. BatchInv'
  BY <1>1 DEF BatchInv
<1> QED BY <1>2, <1>3

(* A message written, a process started.                                          *)
LEMMA WriteStep == ASSUME StreamInv, Write PROVE StreamInv'
<1>1. StreamTypes' /\ GroupInv'
  BY StreamAssumption DEF StreamInv, StreamTypes, GroupInv, Write
<1>2. BatchInv' /\ CyclesInv'
  BY DEF StreamInv, StreamTypes, BatchInv, CyclesInv, AnalysedOnce, Write, Messages
<1> QED BY <1>1, <1>2 DEF StreamInv

LEMMA StartStep == ASSUME StreamInv, Start PROVE StreamInv'
<1>1. CASE group.made
  BY <1>1 DEF StreamInv, StreamTypes, GroupInv, BatchInv, CyclesInv, AnalysedOnce, Start
<1>2. CASE ~group.made
  <2>1. /\ group.last = 0 /\ group.first = 0 /\ pending = {}
        /\ \A m \in Messages : cycles[m] = 0
    BY <1>2, StreamAssumption
    DEF StreamInv, StreamTypes, GroupInv, CyclesInv, Messages
  <2>2. group' = [made |-> TRUE, first |-> written, last |-> written]
    BY <1>2 DEF Start
  <2>3. StreamTypes' /\ GroupInv'
    BY <2>1, <2>2 DEF StreamInv, StreamTypes, GroupInv, Start
  <2>4. BatchInv' /\ CyclesInv'
    BY <2>1, <2>2 DEF StreamInv, StreamTypes, BatchInv, CyclesInv, AnalysedOnce, Start, Messages
  <2> QED BY <2>3, <2>4 DEF StreamInv
<1> QED BY <1>1, <1>2

(* The calls made for one message.                                                *)
LEMMA CachePriceStep == ASSUME StreamInv, CachePrice PROVE StreamInv'
BY DEF StreamInv, StreamTypes, GroupInv, BatchInv, CyclesInv, AnalysedOnce, CachePrice

(* Enqueueing the first message of the reply counts one cycle for it.             *)
LEMMA EnqueuedCount ==
    ASSUME StreamInv, at = "send", Enqueued
    PROVE  /\ batch # <<>> /\ cycles' \in [Messages -> Nat]
           /\ batch[1] \in pending /\ cycles'[batch[1]] = 1
           /\ \A m \in Messages : m # batch[1] => cycles'[m] = cycles[m]
<1>1. batch # <<>>
  BY DEF StreamInv, BatchInv
<1>2. Head(batch) = batch[1] /\ 1 \in DOMAIN batch /\ batch[1] \in Messages
  BY <1>1, TailShape DEF StreamInv
<1>3. cycles[batch[1]] = 0 /\ batch[1] \in pending
  BY <1>2 DEF StreamInv, BatchInv
<1> QED BY <1>1, <1>2, <1>3 DEF Enqueued, StreamInv, StreamTypes

LEMMA EnqueuedCycles ==
    ASSUME StreamInv, at = "send", Enqueued, UNCHANGED <<group, pending>>
    PROVE  CyclesInv'
BY EnqueuedCount DEF StreamInv, StreamTypes, GroupInv, CyclesInv, AnalysedOnce

LEMMA SendStep == ASSUME StreamInv, Send PROVE StreamInv'
<1>1. StreamTypes' /\ GroupInv'
  BY EnqueuedCount DEF Send, StreamInv, StreamTypes, GroupInv
<1>2. CyclesInv'
  BY EnqueuedCycles DEF Send
<1>3. BatchInv'
  <2>1. \A i \in DOMAIN batch : i # 1 => batch[i] # batch[1] /\ batch[i] \in Messages
    <3> SUFFICES ASSUME NEW i \in DOMAIN batch, i # 1
                 PROVE  batch[i] # batch[1] /\ batch[i] \in Messages
      OBVIOUS
    <3>1. batch # <<>>
      BY EnqueuedCount DEF Send
    <3>2. 1 \in DOMAIN batch /\ 1 < i /\ batch[i] \in Messages /\ batch[1] \in Messages
      BY <3>1 DEF StreamInv, StreamTypes
    <3>3. batch[1] < batch[i]
      BY <3>2 DEF StreamInv, BatchInv
    <3> QED BY <3>2, <3>3 DEF Messages
  <2> QED BY <2>1, EnqueuedCount DEF Send, StreamInv, BatchInv, StreamTypes
<1> QED BY <1>1, <1>2, <1>3 DEF StreamInv

(* Going on to the next message, with what the first one has become: still pending, *)
(* or acknowledged after it was sent.                                             *)
LEMMA ProceedStep ==
    ASSUME StreamInv, batch # <<>>, Proceed(Tail(batch)),
           UNCHANGED <<written, group, stops>>, errors' \in Nat,
           cycles' \in [Messages -> Nat], CyclesInv',
           \A m \in Messages : m # batch[1] => cycles'[m] = cycles[m],
           pending' \in {pending, pending \ {batch[1]}}
    PROVE  StreamInv'
<1> DEFINE rest == Tail(batch)
<1>1. /\ rest \in Seq(Messages)
      /\ \A i \in DOMAIN rest : i \in Nat \ {0} /\ i + 1 \in DOMAIN batch /\ rest[i] = batch[i + 1]
  BY TailShape DEF StreamInv
<1>2. batch' = rest /\ at' = IF rest = <<>> THEN "reading" ELSE "price"
  BY DEF Proceed
<1>3. \A i \in DOMAIN rest : batch[1] < rest[i] /\ rest[i] \in Messages
  <2> SUFFICES ASSUME NEW i \in DOMAIN rest
               PROVE  batch[1] < rest[i] /\ rest[i] \in Messages
    OBVIOUS
  <2> HIDE DEF rest
  <2>1. /\ i \in Nat /\ 1 < i + 1 /\ i + 1 \in DOMAIN batch /\ 1 \in DOMAIN batch
        /\ rest[i] = batch[i + 1]
    BY <1>1, TailShape DEF StreamInv
  <2>2. batch[1] < batch[i + 1]
    BY <2>1 DEF StreamInv, BatchInv
  <2>3. batch[i + 1] \in Messages
    BY <2>1 DEF StreamInv, StreamTypes
  <2> QED BY <2>1, <2>2, <2>3
<1> HIDE DEF rest
<1>4. StreamTypes' /\ GroupInv'
  <2>1. pending' \subseteq pending
    OBVIOUS
  <2>2. at' \in {"off", "reading", "price", "send", "ack"} /\ at' # "off"
    BY <1>2
  <2>3. StreamTypes'
    BY <1>1, <1>2, <2>1, <2>2 DEF StreamInv, StreamTypes
  <2> QED BY <2>1, <2>2, <2>3, StreamAssumption DEF StreamInv, StreamTypes, GroupInv, BatchInv
<1>5. \A i \in DOMAIN rest : rest[i] \in pending' /\ cycles'[rest[i]] = 0
  <2> SUFFICES ASSUME NEW i \in DOMAIN rest PROVE rest[i] \in pending' /\ cycles'[rest[i]] = 0
    OBVIOUS
  <2>1. rest[i] \in pending /\ cycles[rest[i]] = 0
    BY <1>1 DEF StreamInv, BatchInv
  <2>2. rest[i] # batch[1]
    BY <1>3, TailShape DEF StreamInv, Messages
  <2> QED BY <1>3, <2>1, <2>2
<1>6. \A i, j \in DOMAIN rest : i < j => rest[i] < rest[j]
  BY <1>1 DEF StreamInv, BatchInv
<1>7. BatchInv'
  BY <1>2, <1>5, <1>6 DEF BatchInv
<1> QED BY <1>4, <1>7 DEF StreamInv

(* An acknowledgement is made for a message that was sent.                        *)
LEMMA AckedCycles ==
    ASSUME StreamInv, at = "ack", pending' = pending \ {Head(batch)},
           UNCHANGED <<group, cycles>>
    PROVE  CyclesInv' /\ batch # <<>> /\ Head(batch) = batch[1]
<1>1. batch # <<>>
  BY DEF StreamInv, BatchInv
<1>2. Head(batch) = batch[1] /\ 1 \in DOMAIN batch
  BY <1>1, TailShape DEF StreamInv
<1>3. cycles[batch[1]] = 1
  BY <1>2 DEF StreamInv, BatchInv
<1> QED BY <1>1, <1>2, <1>3 DEF StreamInv, StreamTypes, CyclesInv, AnalysedOnce

LEMMA AckStep == ASSUME StreamInv, Ack PROVE StreamInv'
<1>1. CyclesInv' /\ batch # <<>> /\ Head(batch) = batch[1]
  BY AckedCycles DEF Ack
<1> QED BY <1>1, ProceedStep DEF Ack, StreamInv, StreamTypes

LEMMA FailsStep == ASSUME StreamInv, Fails PROVE StreamInv'
<1>1. batch # <<>> /\ Proceed(Tail(batch)) /\ UNCHANGED <<written, group, stops>> /\ errors' \in Nat
  BY DEF Fails, StreamInv, BatchInv, StreamTypes
<1>2. CASE UNCHANGED <<cycles, pending>>
  <2>1. CyclesInv'
    BY <1>1, <1>2 DEF StreamInv, CyclesInv, AnalysedOnce
  <2> QED BY <1>1, <1>2, <2>1, ProceedStep DEF StreamInv, StreamTypes
<1>3. CASE at = "send" /\ Enqueued /\ UNCHANGED pending
  <2>1. CyclesInv'
    BY <1>1, <1>3, EnqueuedCycles
  <2> QED BY <1>1, <1>3, <2>1, EnqueuedCount, ProceedStep
<1>4. CASE at = "ack" /\ pending' = pending \ {Head(batch)} /\ UNCHANGED cycles
  <2>1. CyclesInv' /\ Head(batch) = batch[1]
    BY <1>1, <1>4, AckedCycles
  <2> QED BY <1>1, <1>4, <2>1, ProceedStep DEF StreamInv, StreamTypes
<1> QED BY <1>2, <1>3, <1>4 DEF Fails

LEMMA StopStep == ASSUME StreamInv, Stop PROVE StreamInv'
BY DEF StreamInv, StreamTypes, GroupInv, BatchInv, CyclesInv, AnalysedOnce, Stop

(* Every step keeps the invariant, and so does no step.                           *)
LEMMA StreamSteps == ASSUME StreamInv, [StreamNext]_streamVars PROVE StreamInv'
<1>1. CASE Consume
  BY <1>1, ReadStep, CachePriceStep, SendStep, AckStep DEF Consume
<1>2. CASE UNCHANGED streamVars
  BY <1>2 DEF streamVars, StreamInv, StreamTypes, GroupInv, BatchInv, CyclesInv, AnalysedOnce
<1> QED BY <1>1, <1>2, WriteStep, StartStep, ReadLostStep, FailsStep, StopStep DEF StreamNext

(* StreamInv in every reachable state.                                                *)
THEOREM StreamInvariance == StreamSpec => []StreamInv
<1>1. StreamInit => StreamInv
  BY StreamStarts
<1>2. StreamInv /\ [StreamNext]_streamVars => StreamInv'
  BY StreamSteps
<1> QED BY <1>1, <1>2, PTL DEF StreamSpec

(* Whatever fails and however often the process ends, no message starts two cycles *)
(* of analysis, and one that was acknowledged has started one.                    *)
THEOREM Analysed == StreamSpec => []AnalysedOnce
<1>1. StreamInv => AnalysedOnce
  BY DEF StreamInv, CyclesInv
<1> QED BY <1>1, StreamInvariance, PTL

--------------------------------------------------------------------------------
(* The candles of the exchange feed.                                                *)

(* A candle that is over and missing, without any of the three causes.               *)
Owed(k) == First < k /\ Over(k) /\ ohlcv[k] # "full" /\ k \notin cut \cup spoilt \cup beyond

(* The next backfill reaches candle k, even if the process that does it is a new one. *)
Reached(k) == /\ heard # Never => heard <= k * Length
              /\ \A m \in Candles : ohlcv[m] # "none" => m <= k

FeedTypes ==
    /\ clock \in Nat /\ clock <= MaxTime
    /\ link \in {"up", "new", "down"}
    /\ heard = Never \/ (heard \in Nat /\ heard <= clock)
    /\ closing = Nothing \/ (closing \in Candles /\ (closing + 1) * Length = clock)
    /\ ohlcv \in [Candles -> {"none", "part", "full"}]

FeedInv ==
    /\ FeedTypes
    /\ link = "down" => closing = Nothing
    /\ \A k \in Candles : ohlcv[k] # "none" => k <= Current
    /\ link # "up" /\ heard # Never => Current \in cut \/ heard <= Current * Length
    /\ \A k \in Candles : Owed(k) => k = closing \/ (link # "up" /\ Reached(k))

(* The bounds are numbers, and no candle is later than the time they allow.            *)
LEMMA FeedBounds ==
    /\ Length \in Nat \ {0} /\ Page \in Nat /\ MaxTime \in Nat
    /\ Candles \subseteq Nat /\ \A k \in Candles : k <= MaxTime
<1>1. Length \in Nat \ {0} /\ Page \in Nat /\ MaxTime \in Nat
  BY FeedAssumption
<1>2. MaxTime \div Length \in Nat /\ (MaxTime \div Length) * Length <= MaxTime
  BY <1>1, Division
<1>3. MaxTime \div Length <= (MaxTime \div Length) * Length
  BY <1>1, <1>2, Z3
<1> QED BY <1>1, <1>2, <1>3 DEF Candles

(* At time t, the candles before the one in progress are over.                          *)
LEMMA InProgress ==
    ASSUME NEW t \in Nat, t <= MaxTime
    PROVE  /\ t \div Length \in Candles
           /\ (t \div Length) * Length <= t /\ t < (t \div Length) * Length + Length
           /\ \A k \in Candles : ((k + 1) * Length <= t) <=> (k < t \div Length)
           /\ \A k \in Candles : (k + 1) * Length = t => t \div Length = k + 1
<1> DEFINE c == t \div Length
<1>1. c \in Nat /\ c * Length <= t /\ t < (c + 1) * Length
  BY FeedBounds, Division
<1>2. (c + 1) * Length = c * Length + Length
  BY <1>1, FeedBounds, Ordered
<1>3. MaxTime \div Length \in Nat /\ MaxTime < (MaxTime \div Length + 1) * Length
  BY FeedBounds, Division
<1> DEFINE z == MaxTime \div Length
<1> HIDE DEF c, z
<1>4. c <= z
  <2> SUFFICES ASSUME z < c PROVE FALSE
    BY <1>1, <1>3 DEF z
  <2>1. z + 1 \in Nat /\ z + 1 <= c
    BY <1>1, <1>3 DEF z
  <2>2. (z + 1) * Length <= c * Length
    BY <2>1, <1>1, FeedBounds, Ordered
  <2>3. MaxTime < (z + 1) * Length /\ (z + 1) * Length \in Nat /\ c * Length \in Nat
    BY <1>1, <1>3, <2>1, FeedBounds, Ordered DEF z
  <2> QED BY <2>2, <2>3, <1>1, FeedBounds
<1>5. c \in Candles
  BY <1>1, <1>3, <1>4 DEF Candles, z
<1>6. ASSUME NEW k \in Candles
      PROVE  /\ ((k + 1) * Length <= t) <=> (k < c)
             /\ (k + 1) * Length = t => c = k + 1
  <2>1. k \in Nat /\ k + 1 \in Nat /\ c + 1 \in Nat
    BY <1>1, FeedBounds
  <2>2. /\ (k + 1) * Length \in Nat /\ c * Length \in Nat /\ (c + 1) * Length \in Nat
        /\ (k + 1 <= c) <=> ((k + 1) * Length <= c * Length)
        /\ (k + 1 < c + 1) <=> ((k + 1) * Length < (c + 1) * Length)
        /\ (c <= k + 1) <=> (c * Length <= (k + 1) * Length)
    BY <2>1, <1>1, FeedBounds, Ordered
  <2> QED BY <2>1, <2>2, <1>1
<1> QED BY <1>1, <1>2, <1>5, <1>6 DEF c

(* A candle is later than the first one stored if an earlier one is stored.             *)
Before(table, k) == \E m \in Candles : table[m] # "none" /\ m < k

LEMMA FirstIsEarliest ==
    ASSUME NEW table, NEW k \in Candles
    PROVE  (Min({m \in Candles : table[m] # "none"} \cup {MaxTime}) < k) <=> Before(table, k)
<1> DEFINE S == {m \in Candles : table[m] # "none"} \cup {MaxTime}
<1>1. S \subseteq Nat /\ S # {} /\ k \in Nat /\ k <= MaxTime /\ MaxTime \in S
  BY FeedBounds
<1>2. \A m \in S : m = MaxTime \/ (m \in Candles /\ table[m] # "none")
  OBVIOUS
<1>3. \A m \in Candles : table[m] # "none" => m \in S
  OBVIOUS
<1> HIDE DEF S
<1>4. Min(S) \in S /\ \A y \in S : Min(S) <= y
  BY <1>1, Least
<1>5. (Min(S) < k) <=> Before(table, k)
  <2>1. Min(S) \in Nat
    BY <1>1, <1>4
  <2>2. ASSUME Min(S) < k PROVE Before(table, k)
    BY <2>1, <2>2, <1>1, <1>2, <1>4 DEF Before
  <2>3. ASSUME NEW m \in Candles, table[m] # "none", m < k PROVE Min(S) < k
    BY <2>1, <2>3, <1>1, <1>3, <1>4, FeedBounds
  <2> QED BY <2>2, <2>3 DEF Before
<1> QED BY <1>5 DEF S

(* Hence what is owed, before a step and after it.                                       *)
LEMMA OwedIs ==
    ASSUME FeedTypes, NEW k \in Candles
    PROVE  Owed(k) <=> /\ Before(ohlcv, k) /\ k < Current /\ ohlcv[k] # "full"
                       /\ k \notin cut \cup spoilt \cup beyond
BY FirstIsEarliest, InProgress DEF Owed, First, Over, Current, FeedTypes

LEMMA OwedIsNext ==
    ASSUME FeedTypes', NEW k \in Candles
    PROVE  Owed(k)' <=> /\ Before(ohlcv', k) /\ k < Current' /\ ohlcv'[k] # "full"
                        /\ k \notin cut' \cup spoilt' \cup beyond'
BY FirstIsEarliest, InProgress DEF Owed, First, Over, Current, FeedTypes

LEMMA FeedTypesKept == FeedTypes /\ [FeedNext]_feedVars => FeedTypes'
<1> SUFFICES ASSUME FeedTypes, [FeedNext]_feedVars PROVE FeedTypes'
  OBVIOUS
<1> USE DEF FeedTypes
<1>1. CASE Update
  BY <1>1 DEF Update, tables
<1>2. CASE CandleClosed
  BY <1>2 DEF CandleClosed, Nothing
<1>3. CASE Swallowed
  BY <1>3 DEF Swallowed
<1>4. CASE Drop
  BY <1>4 DEF Drop, tables
<1>5. CASE Crash
  BY <1>5 DEF Crash, tables
<1>6. CASE Connect
  BY <1>6 DEF Connect, tables
<1>7. CASE Backfill
  <2>1. \A set : Recovered(set) \in [Candles -> {"none", "part", "full"}]
    BY DEF Recovered
  <2> QED BY <1>7, <2>1 DEF Backfill
<1>8. CASE Tick
  <2>1. clock + 1 \in Nat /\ clock + 1 <= MaxTime
    BY <1>8, FeedBounds DEF Tick
  <2>2. closing' = Nothing \/ ((clock + 1) % Length = 0 /\ closing' = Current)
    BY <1>8 DEF Tick
  <2>3. ASSUME (clock + 1) % Length = 0
        PROVE  Current \in Candles /\ (Current + 1) * Length = clock + 1
    <3> DEFINE n == (clock + 1) \div Length
    <3>1. n \in Nat /\ n * Length = clock + 1
      BY <2>1, <2>3, FeedBounds, Division
    <3>2. /\ Current \in Candles /\ Current * Length <= clock
          /\ clock < Current * Length + Length
      BY <2>1, FeedBounds, InProgress DEF Current
    <3> HIDE DEF n
    <3>3. /\ Current \in Nat /\ Current * Length \in Nat
          /\ (Current + 1) * Length = Current * Length + Length
          /\ (Current < n) <=> (Current * Length < n * Length)
          /\ (n <= Current + 1) <=> (n * Length <= (Current + 1) * Length)
      BY <3>1, <3>2, FeedBounds, Ordered
    <3>4. n = Current + 1
      BY <3>1, <3>2, <3>3, FeedBounds
    <3> QED BY <3>1, <3>2, <3>4
  <2> QED BY <1>8, <2>1, <2>2, <2>3 DEF Tick, tables
<1>9. CASE UNCHANGED feedVars
  BY <1>9 DEF feedVars
<1> QED BY <1>1, <1>2, <1>3, <1>4, <1>5, <1>6, <1>7, <1>8, <1>9 DEF FeedNext

(* The message of a candle that is over: stored or lost, it is the last one over.         *)
LEMMA MessageStep ==
    ASSUME FeedInv, FeedTypes', CandleClosed \/ Swallowed
    PROVE  FeedInv'
<1>1. /\ link = "up" /\ closing # Nothing /\ link' = link /\ closing' = Nothing
      /\ Current' = Current /\ cut' = cut /\ beyond' = beyond
      /\ \/ ohlcv' = [ohlcv EXCEPT ![closing] = "full"] /\ spoilt' = spoilt
         \/ ohlcv' = ohlcv /\ spoilt' = spoilt \cup {closing}
  BY DEF CandleClosed, Swallowed, Current
<1>2. closing \in Candles /\ Current = closing + 1 /\ ohlcv \in [Candles -> {"none", "part", "full"}]
  BY <1>1, InProgress DEF FeedInv, FeedTypes, Current
<1>3. \A k \in Candles : ohlcv'[k] # "none" => k <= Current'
  BY <1>1, <1>2, FeedBounds DEF FeedInv
<1>4. ASSUME NEW k \in Candles, Owed(k)' PROVE FALSE
  <2>1. /\ Before(ohlcv', k) /\ k < Current' /\ ohlcv'[k] # "full"
        /\ k \notin cut' \cup spoilt' \cup beyond'
    BY <1>4, OwedIsNext
  <2>2. k # closing
    BY <1>1, <1>2, <2>1
  <2>3. PICK m \in Candles : ohlcv'[m] # "none" /\ m < k
    BY <2>1 DEF Before
  <2>4. m # closing
    BY <1>1, <1>2, <2>1, <2>3, FeedBounds
  <2>5. Owed(k)
    BY <1>1, <1>2, <2>1, <2>2, <2>3, <2>4, OwedIs DEF FeedInv, Before
  <2> QED BY <1>1, <2>2, <2>5 DEF FeedInv
<1> QED BY <1>1, <1>3, <1>4 DEF FeedInv

(* A connection that is lost takes the candle in progress and the message due with it.    *)
LEMMA LossStep ==
    ASSUME FeedInv, FeedTypes', Drop \/ Crash
    PROVE  FeedInv'
<1>1. /\ link' = "down" /\ closing' = Nothing /\ Current' = Current /\ UNCHANGED tables
      /\ link # "down" => cut' = Lost
      /\ link = "down" => cut' = cut
      /\ heard' \in {heard, Never}
  BY DEF Drop, Crash, Current
<1>2. \A k \in Candles : ohlcv'[k] # "none" => k <= Current'
  BY <1>1 DEF FeedInv, tables
<1>3. heard' # Never => Current' \in cut' \/ heard' <= Current' * Length
  BY <1>1 DEF FeedInv, FeedTypes, Lost
<1>4. ASSUME NEW k \in Candles, Owed(k)' PROVE Reached(k)'
  <2>1. /\ Before(ohlcv', k) /\ k < Current' /\ ohlcv'[k] # "full"
        /\ k \notin cut' \cup spoilt' \cup beyond'
    BY <1>4, OwedIsNext
  <2>2. k \notin cut
    BY <1>1, <2>1 DEF Lost
  <2>3. Owed(k)
    BY <1>1, <2>1, <2>2, OwedIs DEF FeedInv, tables
  <2>4. k # closing
    <3>1. k # Nothing
      BY FeedBounds DEF Nothing
    <3> QED BY <1>1, <2>1, <3>1 DEF Lost, FeedInv
  <2> QED BY <1>1, <2>3, <2>4 DEF FeedInv, Reached, tables
<1> QED BY <1>1, <1>2, <1>3, <1>4 DEF FeedInv

LEMMA ConnectStep ==
    ASSUME FeedInv, FeedTypes', Connect
    PROVE  FeedInv'
<1>1. /\ link = "down" /\ link' = "new"
      /\ UNCHANGED <<clock, heard, closing, tables, cut>>
  BY DEF Connect
<1>2. \A k \in Candles : Owed(k)' => Owed(k) /\ (Reached(k) => Reached(k)')
  BY <1>1 DEF Owed, First, Over, Reached, tables
<1> QED BY <1>1, <1>2 DEF FeedInv, Current, tables

(* The clock stays in a candle or is at the beginning of the next.                        *)
LEMMA NextCandle ==
    ASSUME NEW t \in Nat, t + 1 <= MaxTime
    PROVE  \/ (t + 1) \div Length = t \div Length
           \/ /\ (t + 1) \div Length = t \div Length + 1
              /\ t + 1 = ((t + 1) \div Length) * Length /\ (t + 1) % Length = 0
<1> DEFINE c == t \div Length
           d == (t + 1) \div Length
<1>1. /\ c \in Nat /\ c * Length <= t /\ t < c * Length + Length
      /\ d \in Nat /\ d * Length <= t + 1 /\ t + 1 < d * Length + Length
      /\ (t + 1) % Length = t + 1 - d * Length
  <2>1. t <= MaxTime /\ t + 1 \in Nat
    BY FeedBounds
  <2>2. c \in Nat /\ c * Length <= t /\ t < c * Length + Length
    BY <2>1, FeedBounds, InProgress
  <2>3. d \in Nat /\ d * Length <= t + 1 /\ t + 1 < d * Length + Length
    BY <2>1, FeedBounds, InProgress
  <2>4. (t + 1) % Length = t + 1 - d * Length
    BY <2>1, FeedBounds, Division
  <2> QED BY <2>2, <2>3, <2>4
<1> HIDE DEF c, d
<1>2. /\ c * Length \in Nat /\ d * Length \in Nat
      /\ (d + 1) * Length = d * Length + Length /\ (c + 1) * Length = c * Length + Length
      /\ (d + 1 <= c) <=> ((d + 1) * Length <= c * Length)
      /\ (c + 2 <= d) <=> ((c + 2) * Length <= d * Length)
      /\ (c <= d) <=> (c * Length <= d * Length)
  BY <1>1, FeedBounds, Ordered
<1>3. (c + 1 + 1) * Length = (c + 1) * Length + Length /\ c + 1 + 1 = c + 2
  BY <1>1, FeedBounds, Ordered
<1>4. c <= d
  BY <1>1, <1>2, FeedBounds
<1>5. d <= c + 1
  BY <1>1, <1>2, <1>3, FeedBounds
<1>6. ASSUME d = c + 1 PROVE t + 1 = d * Length
  BY <1>1, <1>2, <1>6, FeedBounds
<1> QED BY <1>1, <1>2, <1>4, <1>5, <1>6 DEF c, d

(* A connection that is down misses a candle only if it was lost before the candle began. *)
LEMMA TickStep ==
    ASSUME FeedInv, FeedTypes', Tick
    PROVE  FeedInv'
<1>1. /\ closing = Nothing /\ clock' = clock + 1
      /\ closing' = IF (clock + 1) % Length = 0 /\ link # "down" THEN Current ELSE Nothing
      /\ UNCHANGED <<link, heard, tables, cut>>
  BY DEF Tick
<1>2. Current \in Candles /\ Current' \in Candles /\ clock \in Nat /\ clock + 1 <= MaxTime
  BY <1>1, InProgress DEF FeedInv, FeedTypes, Current
<1>3. Current \in Nat /\ Current' \in Nat /\ Current * Length \in Nat /\ Current' * Length \in Nat
  BY <1>2, FeedBounds, Ordered
<1>4. \/ Current' = Current
      \/ /\ Current' = Current + 1 /\ clock + 1 = Current' * Length
         /\ (clock + 1) % Length = 0
  BY <1>1, <1>2, NextCandle DEF Current
<1>5. \A k \in Candles : ohlcv'[k] # "none" => k <= Current'
  BY <1>1, <1>3, <1>4, FeedBounds DEF FeedInv, tables
<1>6. link' # "up" /\ heard' # Never => Current' \in cut' \/ heard' <= Current' * Length
  BY <1>1, <1>3, <1>4 DEF FeedInv, FeedTypes
<1>7. ASSUME NEW k \in Candles, Owed(k)'
      PROVE  k = closing' \/ (link' # "up" /\ Reached(k)')
  <2>1. /\ Before(ohlcv', k) /\ k < Current' /\ ohlcv'[k] # "full"
        /\ k \notin cut' \cup spoilt' \cup beyond'
    BY <1>7, OwedIsNext
  <2>2. CASE k < Current
    <3>1. Owed(k)
      BY <1>1, <2>1, <2>2, OwedIs DEF FeedInv, tables
    <3>2. k # closing
      BY <1>1, FeedBounds DEF Nothing
    <3> QED BY <1>1, <3>1, <3>2 DEF FeedInv, Reached, tables
  <2>3. CASE k = Current /\ link # "down"
    BY <1>1, <1>3, <1>4, <2>1, <2>3
  <2>4. CASE k = Current /\ link = "down"
    BY <1>1, <1>2, <1>3, <2>1, <2>4 DEF FeedInv, Reached, tables
  <2> QED BY <1>3, <1>4, <2>1, <2>2, <2>3, <2>4, FeedBounds
<1> QED BY <1>1, <1>5, <1>6, <1>7 DEF FeedInv

(* The backfill asks for everything since the first candle that can be missing.            *)
LEMMA BackfillStep ==
    ASSUME FeedInv, FeedTypes', Backfill
    PROVE  FeedInv'
<1> DEFINE stored == {k \in Candles : ohlcv[k] # "none"}
<1>1. /\ link = "new" /\ link' = "up"
      /\ UNCHANGED <<clock, heard, closing, triggers, cut, drops>> /\ Current' = Current
      /\ \/ ohlcv' = ohlcv /\ Since = Never /\ UNCHANGED <<spoilt, beyond>>
         \/ /\ Since # Never /\ ohlcv' = Recovered(Returned(Since))
            /\ beyond' = beyond \cup (Missed(Since) \ Returned(Since)) /\ spoilt' = spoilt
         \/ /\ Since # Never /\ ohlcv' = ohlcv
            /\ spoilt' = spoilt \cup Missed(Since) /\ beyond' = beyond
  BY DEF Backfill, Current
<1>2. Current \in Candles /\ Current \in Nat
  BY InProgress, FeedBounds DEF FeedInv, FeedTypes, Current
<1>3. stored # {} => Max(stored) \in stored /\ Max(stored) \in Nat
  <2>1. stored \subseteq Nat /\ (\A x \in stored : x <= MaxTime) /\ MaxTime \in Nat
    BY FeedBounds
  <2> HIDE DEF stored
  <2> QED BY <2>1, Greatest
<1>4. Since \in Int /\ (Since = Never => heard = Never /\ stored = {})
  <2>1. CASE heard # Never
    BY <2>1 DEF Since, FeedInv, FeedTypes
  <2>2. CASE heard = Never /\ stored = {}
    BY <2>2 DEF Since, Latest, Never
  <2>3. CASE heard = Never /\ stored # {}
    <3>1. Max(stored) * Length \in Nat /\ Since = Max(stored) * Length
      BY <2>3, <1>3, FeedBounds, Ordered DEF Since, Latest
    <3> QED BY <3>1 DEF Never
  <2> QED BY <2>1, <2>2, <2>3
<1>5. ASSUME NEW k \in Candles, Reached(k), stored # {} PROVE Since <= k * Length
  <2>1. CASE heard # Never
    BY <1>5, <2>1 DEF Since, Reached
  <2>2. CASE heard = Never
    <3>1. Max(stored) <= k /\ k \in Nat
      BY <1>3, <1>5, FeedBounds DEF Reached
    <3> QED BY <1>3, <1>5, <2>2, <3>1, FeedBounds, Ordered DEF Since, Latest
  <2> QED BY <2>1, <2>2
<1>6. \A k \in Candles : k \in Returned(Since) => Since <= k * Length /\ k <= Current
  BY DEF Returned, Missed
<1>7. \A k \in Candles : ohlcv'[k] # "none" => k <= Current'
  BY <1>1, <1>6 DEF FeedInv, Recovered
<1>8. ASSUME NEW k \in Candles, Owed(k)' PROVE k = closing'
  <2> SUFFICES ASSUME k # closing PROVE FALSE
    BY <1>1
  <2>1. /\ Before(ohlcv', k) /\ k < Current /\ ohlcv'[k] # "full"
        /\ k \notin cut /\ k \notin spoilt' /\ k \notin beyond'
    BY <1>1, <1>8, OwedIsNext
  <2>2. k \notin spoilt /\ k \notin beyond
    BY <1>1, <2>1
  <2>3. Over(k)
    BY <2>1, InProgress DEF Over, Current, FeedInv, FeedTypes
  <2>4. ASSUME Owed(k), stored # {} PROVE Since <= k * Length
    BY <1>5, <2>4 DEF FeedInv
  <2>5. CASE Since = Never
    <3>1. ~Before(ohlcv', k)
      BY <1>1, <1>4, <2>5 DEF Before
    <3> QED BY <2>1, <3>1
  <2>6. CASE Since # Never
    <3>1. ~(Since <= k * Length)
      <4> SUFFICES ASSUME Since <= k * Length PROVE FALSE
        OBVIOUS
      <4>1. k \in Missed(Since)
        BY <1>2, <2>1, FeedBounds DEF Missed
      <4>2. k \in Returned(Since) => Recovered(Returned(Since))[k] = "full"
        BY <2>3 DEF Recovered
      <4> QED BY <1>1, <2>1, <2>6, <4>1, <4>2
    <3>2. ohlcv'[k] = ohlcv[k]
      BY <1>1, <1>6, <3>1 DEF Recovered
    <3>3. PICK m \in Candles : ohlcv'[m] # "none" /\ m < k
      BY <2>1 DEF Before
    <3>4. ohlcv[m] # "none"
      <4> SUFFICES ASSUME ohlcv[m] = "none" PROVE FALSE
        OBVIOUS
      <4>1. m \in Returned(Since)
        BY <1>1, <3>3 DEF Recovered
      <4>2. Since <= m * Length
        BY <1>6, <4>1
      <4>3. m * Length \in Nat /\ k * Length \in Nat /\ m * Length <= k * Length
        BY <3>3, FeedBounds, Ordered
      <4> QED BY <1>4, <3>1, <4>2, <4>3
    <3>5. Owed(k) /\ stored # {}
      BY <2>1, <2>2, <3>2, <3>3, <3>4, OwedIs DEF FeedInv, Before
    <3> QED BY <2>4, <3>1, <3>5
  <2> QED BY <2>5, <2>6
<1> QED BY <1>1, <1>7, <1>8 DEF FeedInv

(* FeedInv in every reachable state: a candle that is owed is being closed, or a        *)
(* backfill is to come that reaches it.                                                *)
LEMMA FeedInvHolds == FeedSpec => []FeedInv
<1>1. FeedInit => FeedInv
  <2> SUFFICES ASSUME FeedInit PROVE FeedInv
    OBVIOUS
  <2>1. FeedTypes
    BY FeedBounds DEF FeedInit, FeedTypes
  <2>2. \A k \in Candles : ohlcv[k] = "none"
    BY DEF FeedInit
  <2>3. \A k \in Candles : ~Owed(k)
    BY <2>1, <2>2, OwedIs DEF Before
  <2> QED BY <2>1, <2>2, <2>3 DEF FeedInv, FeedInit
<1>2. FeedInv /\ [FeedNext]_feedVars => FeedInv'
  <2> SUFFICES ASSUME FeedInv, [FeedNext]_feedVars PROVE FeedInv'
    OBVIOUS
  <2>1. FeedTypes'
    BY FeedTypesKept DEF FeedInv
  <2>2. CASE Update
    <3>1. /\ link' = "up" /\ closing = Nothing /\ link = "up"
          /\ UNCHANGED <<clock, link, closing, tables, cut>>
      BY <2>2 DEF Update
    <3>2. \A k \in Candles : Owed(k)' => Owed(k)
      BY <3>1 DEF Owed, First, Over, tables
    <3> QED BY <2>1, <3>1, <3>2 DEF FeedInv, Current, tables
  <2>3. CASE UNCHANGED feedVars
    BY <2>1, <2>3 DEF FeedInv, Owed, First, Over, Reached, Current, feedVars
  <2> QED BY <2>1, <2>2, <2>3, MessageStep, LossStep, ConnectStep, TickStep, BackfillStep DEF FeedNext
<1> QED BY <1>1, <1>2, PTL DEF FeedSpec

(* HolesHaveCause: while the feed is up and nothing is being closed, a candle that is  *)
(* over and was never stored in full was open when a connection was lost, kept from    *)
(* the table by a failure, or older than a backfill reaches.                           *)
THEOREM Holes == FeedSpec => []HolesHaveCause
<1>1. FeedInv => HolesHaveCause
  <2> SUFFICES ASSUME FeedInv, link = "up", closing = Nothing, NEW k \in Candles, Owed(k) PROVE FALSE
    BY DEF HolesHaveCause, Owed
  <2> QED BY FeedBounds DEF FeedInv, Nothing
<1> QED BY <1>1, FeedInvHolds, PTL

--------------------------------------------------------------------------------
(* The windows of the walk-forward validation.                                      *)

(* What a window may come to, and the results there may be.                                *)
Gains   == {Last(e) - WfCapital : e \in UNION {Equities(w) : w \in SUBSET Nat}}
WindowResults == [in : SUBSET Nat, out : SUBSET Nat, params : 1 .. Params, valid : BOOLEAN, pnl : Gains]

(* A result's two sets of days lie on either side of some day.                              *)
Apart(r) ==
    /\ r.in # {} /\ r.out # {}
    /\ \E n \in Nat : (\A d \in r.in : d < n) /\ (\A d \in r.out : n <= d)

WalkInv ==
    /\ stage # "idle" => cursor \in Nat
    /\ stage = "idle" => results = <<>>
    /\ history \subseteq Nat /\ results \in Seq(WindowResults)
    /\ \A i \in 1 .. Len(results) : Apart(results[i])
    /\ StepDays >= OosDays =>
          /\ \A i \in 1 .. Len(results) : \A d \in results[i].out : d < cursor + IsDays
          /\ \A i, j \in 1 .. Len(results) : i < j => results[i].out \cap results[j].out = {}

(* A window's own days.                                                                     *)
LEMMA WindowDays ==
    ASSUME history \subseteq Nat, NEW day \in Nat
    PROVE  /\ InSample(day) \in SUBSET Nat /\ OutOfSample(day) \in SUBSET Nat
           /\ \A d \in InSample(day) : d < day + IsDays
           /\ \A d \in OutOfSample(day) : day + IsDays <= d /\ d < day + IsDays + OosDays
BY DEF InSample, OutOfSample

LEMMA LoadStep ==
    ASSUME WalkInv, Load
    PROVE  WalkInv'
<1>1. PICK holes \in kSubset(MaxHoles, DOMAIN Path) \cup {{}} : history' = DOMAIN Path \ holes
  BY DEF Load
<1>2. holes # DOMAIN Path
  BY WindowsAssumption, FS_EmptySet DEF kSubset
<1>3. holes \subseteq DOMAIN Path
  BY DEF kSubset
<1>4. history' \subseteq Nat /\ history' # {}
  BY <1>1, <1>2, <1>3, WindowsAssumption
<1>5. cursor' \in Nat
  BY <1>4, Least DEF Load
<1>6. results' = <<>> /\ stage' = "windows"
  BY DEF Load, WalkInv
<1>7. Len(results') = 0 /\ results' \in Seq(WindowResults)
  BY <1>6
<1> QED BY <1>4, <1>5, <1>6, <1>7 DEF WalkInv

LEMMA WindowStep ==
    ASSUME WalkInv, Window
    PROVE  WalkInv'
<1>1. /\ stage' = "windows" /\ stage = "windows" /\ history' = history
      /\ cursor \in Nat /\ cursor' = cursor + StepDays
  BY DEF Window, WalkInv
<1>2. {IsDays, OosDays, StepDays, Params} \subseteq Nat \ {0}
  BY WindowsAssumption
<1>3. CASE results' = results
  <2>1. ASSUME StepDays >= OosDays, NEW i \in 1 .. Len(results), NEW d \in results[i].out
        PROVE  d < cursor' + IsDays
    <3>1. results[i] \in WindowResults
      BY DEF WalkInv
    <3>2. d \in Nat /\ d < cursor + IsDays
      BY <2>1, <3>1 DEF WalkInv, WindowResults
    <3> QED BY <1>1, <1>2, <3>2
  <2>2. cursor' \in Nat
    BY <1>1, <1>2
  <2>3. /\ results' \in Seq(WindowResults) /\ \A i \in 1 .. Len(results') : Apart(results'[i])
    BY <1>3 DEF WalkInv
  <2>4. ASSUME StepDays >= OosDays
        PROVE  \A i, j \in 1 .. Len(results') : i < j => results'[i].out \cap results'[j].out = {}
    BY <1>3, <2>4, Zenon DEF WalkInv
  <2> QED BY <1>1, <1>3, <2>1, <2>2, <2>3, <2>4 DEF WalkInv
<1>4. CASE results' # results
  <2>1. InSample(cursor) # {} /\ OutOfSample(cursor) # {}
    BY <1>4 DEF Window
  <2>2. PICK best \in UNION {Optimized(traded) : traded \in [1 .. Params -> TradesIn(InSample(cursor))]},
             equity \in Equities(OutOfSample(cursor)), valid \in BOOLEAN :
               results' = Append(results, [in |-> InSample(cursor), out |-> OutOfSample(cursor),
                          params |-> best.params, valid |-> valid, pnl |-> Last(equity) - WfCapital])
    BY <2>1 DEF Window
  <2> DEFINE r == [in |-> InSample(cursor), out |-> OutOfSample(cursor),
                   params |-> best.params, valid |-> valid, pnl |-> Last(equity) - WfCapital]
  <2>3. best.params \in 1 .. Params
    BY <1>2 DEF Optimized
  <2>4. /\ InSample(cursor) \in SUBSET Nat /\ OutOfSample(cursor) \in SUBSET Nat
        /\ \A d \in InSample(cursor) : d < cursor + IsDays
        /\ \A d \in OutOfSample(cursor) :
              cursor + IsDays <= d /\ d < cursor + IsDays + OosDays
    BY <1>1, WindowDays DEF WalkInv
  <2>5. Last(equity) - WfCapital \in Gains
    BY <2>4 DEF Gains
  <2>6. r \in WindowResults /\ r.in = InSample(cursor) /\ r.out = OutOfSample(cursor)
    BY <2>3, <2>4, <2>5 DEF WindowResults
  <2>7. Apart(r)
    BY <1>1, <1>2, <2>1, <2>4, <2>6 DEF Apart
  <2> HIDE DEF r
  <2>8. results' = Append(results, r)
    BY <2>2 DEF r
  <2> DEFINE n == Len(results)
  <2>9. /\ n \in Nat /\ Len(results') = n + 1 /\ results' \in Seq(WindowResults)
        /\ results'[n + 1] = r /\ \A i \in 1 .. n : results'[i] = results[i]
    BY <2>6, <2>8 DEF WalkInv
  <2>10. \A i \in 1 .. n : results[i] \in WindowResults /\ results[i].out \subseteq Nat
    <3>1. \A i \in 1 .. n : results[i] \in WindowResults
      BY DEF WalkInv
    <3> QED BY <3>1 DEF WindowResults
  <2>11. \A i \in 1 .. Len(results') : Apart(results'[i])
    BY <2>7, <2>9 DEF WalkInv
  <2> HIDE DEF n
  <2>12. ASSUME StepDays >= OosDays, NEW i \in 1 .. Len(results'), NEW d \in results'[i].out
         PROVE  d < cursor' + IsDays
    <3>1. CASE i = n + 1
      <4>1. d \in Nat /\ d < cursor + IsDays + OosDays
        BY <2>4, <2>6, <2>9, <2>12, <3>1
      <4> QED BY <1>1, <1>2, <2>12, <4>1
    <3>2. CASE i # n + 1
      <4>1. i \in 1 .. n /\ d \in results[i].out
        BY <2>9, <2>12, <3>2
      <4>2. d \in Nat /\ d < cursor + IsDays
        BY <2>10, <2>12, <4>1 DEF WalkInv, n
      <4> QED BY <1>1, <1>2, <4>2
    <3> QED BY <3>1, <3>2
  <2>13. ASSUME StepDays >= OosDays, NEW i \in 1 .. Len(results'), NEW j \in 1 .. Len(results'), i < j
         PROVE  results'[i].out \cap results'[j].out = {}
    <3>1. i \in 1 .. n
      BY <2>9, <2>13
    <3>2. CASE j = n + 1
      <4> SUFFICES ASSUME NEW d \in results[i].out, d \in r.out PROVE FALSE
        BY <2>9, <3>1, <3>2
      <4>1. d \in Nat /\ d < cursor + IsDays
        BY <2>10, <2>13, <3>1 DEF WalkInv, n
      <4>2. cursor + IsDays <= d
        BY <2>4, <2>6
      <4> QED BY <1>1, <1>2, <4>1, <4>2
    <3>3. CASE j # n + 1
      <4>1. j \in 1 .. n
        BY <2>9, <3>3
      <4> QED BY <2>9, <2>13, <3>1, <4>1 DEF WalkInv, n
    <3> QED BY <3>2, <3>3
  <2> QED BY <1>1, <1>2, <2>9, <2>11, <2>12, <2>13 DEF WalkInv
<1> QED BY <1>3, <1>4

LEMMA WalkInvHolds == WalkSpec => []WalkInv
<1>1. WfInit => WalkInv
  BY DEF WfInit, WalkInv
<1>2. WalkInv /\ [WalkNext]_wvars => WalkInv'
  <2> SUFFICES ASSUME WalkInv, [WalkNext]_wvars PROVE WalkInv'
    OBVIOUS
  <2>1. CASE Conclude
    BY <2>1 DEF Conclude, WalkInv
  <2>2. CASE UNCHANGED wvars
    BY <2>2 DEF WalkInv, wvars
  <2> QED BY <2>1, <2>2, LoadStep, WindowStep DEF WalkNext
<1> QED BY <1>1, <1>2, PTL DEF WalkSpec

(* WindowsDoNotLeak: with a step no shorter than the out-of-sample part, no window is  *)
(* judged on a day before the end of those it was tuned on, nor on a day another was   *)
(* judged on, whatever days the history lacks.                                         *)
THEOREM NoLeak == WalkSpec => []WindowsDoNotLeak
<1>1. WalkInv => WindowsDoNotLeak
  <2> SUFFICES ASSUME WalkInv, StepDays >= OosDays,
                      NEW i \in DOMAIN results, NEW j \in DOMAIN results
               PROVE  /\ Max(results[i].in) < Min(results[i].out)
                      /\ i < j => results[i].out \cap results[j].out = {}
    BY DEF WindowsDoNotLeak
  <2>1. i \in 1 .. Len(results) /\ j \in 1 .. Len(results) /\ results[i] \in WindowResults
    BY DEF WalkInv
  <2>2. results[i].in \subseteq Nat /\ results[i].out \subseteq Nat /\ Apart(results[i])
    BY <2>1 DEF WalkInv, WindowResults
  <2>3. PICK n \in Nat : /\ \A d \in results[i].in : d < n
                         /\ \A d \in results[i].out : n <= d
    BY <2>2 DEF Apart
  <2>4. Max(results[i].in) \in results[i].in
    <3>1. \A d \in results[i].in : d <= n
      BY <2>2, <2>3
    <3> QED BY <2>2, <3>1, Greatest DEF Apart
  <2>5. Min(results[i].out) \in results[i].out
    BY <2>2, Least DEF Apart
  <2>6. Max(results[i].in) < Min(results[i].out)
    BY <2>2, <2>3, <2>4, <2>5
  <2> QED BY <2>1, <2>6 DEF WalkInv
<1> QED BY <1>1, WalkInvHolds, PTL

--------------------------------------------------------------------------------
(* The report.                                                                       *)

(* Of a set of numbers there is an n-th one, for as many n as it has numbers.            *)
LEMMA NthExists ==
    ASSUME NEW S, S \subseteq Nat, IsFiniteSet(S), NEW k \in 1 .. Cardinality(S)
    PROVE  Nth(S, k) \in S
<1> DEFINE Below(i) == {j \in S : j <= i}
           F == {n \in Nat : n + 1 \in 1 .. Cardinality(S)
                               => \E i \in S : Cardinality(Below(i)) = n + 1}
<1>1. Cardinality(S) \in Nat
  BY FS_CardinalityType
<1>2. 0 \in F
  <2> SUFFICES ASSUME 1 \in 1 .. Cardinality(S) PROVE \E i \in S : Cardinality(Below(i)) = 1
    OBVIOUS
  <2>1. S # {}
    BY <1>1, FS_EmptySet
  <2>2. PICK i \in S : \A j \in S : i <= j
    BY <2>1, LeastNumber
  <2>3. Below(i) = {i}
    <3>1. \A j \in S : j <= i <=> j = i
      BY <2>2
    <3> QED BY <2>2, <3>1, Zenon
  <2> QED BY <2>2, <2>3, FS_Singleton
<1>3. ASSUME NEW n \in Nat, n \in F PROVE n + 1 \in F
  <2> SUFFICES ASSUME n + 2 \in 1 .. Cardinality(S) PROVE \E i \in S : Cardinality(Below(i)) = n + 2
    OBVIOUS
  <2>1. PICK i \in S : Cardinality(Below(i)) = n + 1
    BY <1>1, <1>3
  <2> DEFINE later == S \ Below(i)
  <2>2. later # {}
    <3> SUFFICES ASSUME later = {} PROVE FALSE
      OBVIOUS
    <3>1. Below(i) = S
      OBVIOUS
    <3> QED BY <1>1, <2>1, <3>1
  <2>3. PICK next \in later : \A j \in later : next <= j
    BY <2>2, LeastNumber
  <2>4. next \in S /\ i < next /\ Below(next) = Below(i) \cup {next} /\ next \notin Below(i)
    <3>1. next \in S /\ i < next
      BY <2>3
    <3>2. \A j \in S : j <= next <=> j <= i \/ j = next
      <4> SUFFICES ASSUME NEW j \in S PROVE j <= next <=> j <= i \/ j = next
        OBVIOUS
      <4>1. ~(j <= i) => next <= j
        BY <2>3
      <4>2. j \in Nat /\ i \in Nat /\ next \in Nat
        BY <2>1, <3>1
      <4> QED BY <3>1, <4>1, <4>2
    <3>3. Below(next) = Below(i) \cup {next}
      BY <3>1, <3>2, Zenon
    <3>4. next \notin Below(i)
      BY <3>1
    <3> QED BY <3>1, <3>3, <3>4
  <2>5. IsFiniteSet(Below(i))
    BY FS_Subset
  <2>6. Cardinality(Below(next)) = n + 2
    <3> HIDE DEF Below
    <3>1. Cardinality(Below(i) \cup {next}) = Cardinality(Below(i)) + 1
      BY <2>4, <2>5, FS_AddElement
    <3> QED BY <2>1, <2>4, <3>1
  <2> QED BY <2>4, <2>6
<1> HIDE DEF F
<1>4. k - 1 \in F /\ k - 1 + 1 = k
  <2>1. k - 1 \in Nat
    BY <1>1
  <2> QED BY <1>2, <1>3, <2>1, AllNumbers
<1>5. \E i \in S : Cardinality(Below(i)) = k
  BY <1>4 DEF F
<1> QED BY <1>5 DEF Nth

--------------------------------------------------------------------------------
(* The kept of a log, and the results of its closed trades.                               *)
Rows == Lines \ {Unreadable}

LEMMA ReadableRows ==
    ASSUME NEW log \in Seq(Lines)
    PROVE  Readable(log) \in Seq(Rows)
<1> DEFINE places == {i \in DOMAIN log : log[i] # Unreadable}
           N == Cardinality(places)
<1>1. DOMAIN log = 1 .. Len(log) /\ Len(log) \in Nat /\ \A i \in DOMAIN log : log[i] \in Lines
  OBVIOUS
<1>2. places \subseteq Nat /\ IsFiniteSet(places) /\ N \in Nat
  <2>1. IsFiniteSet(1 .. Len(log))
    BY <1>1, FS_Interval
  <2>2. places \subseteq 1 .. Len(log)
    BY <1>1
  <2> QED BY <1>1, <2>1, <2>2, FS_Subset, FS_CardinalityType
<1>3. \A n \in 1 .. N : Nth(places, n) \in places
  BY <1>2, NthExists
<1>4. Readable(log) = [n \in 1 .. N |-> log[Nth(places, n)]]
  BY DEF Readable, Kept
<1>5. \A n \in 1 .. N : log[Nth(places, n)] \in Rows
  BY <1>1, <1>3 DEF Rows
<1> HIDE DEF places, N
<1> QED BY <1>2, <1>4, <1>5

LEMMA NetIsNumber ==
    ASSUME NEW row \in Rows
    PROVE  Result(row).net \in Int
<1>1. row.gain \in Int /\ row.loss \in Int /\ row.net \in Seq(Int)
  BY LinesAssumption DEF Rows
<1> DEFINE expected == CASE row.status = "TP_HIT" -> <<row.gain>>
                         [] row.status = "SL_HIT" -> <<-row.loss>>
                         [] OTHER -> <<>>
           actual == IF row.form = "export" THEN <<>> ELSE row["net"]
           net == IF actual # <<>> THEN actual ELSE expected
<1>2. expected \in Seq(Int)
  <2>1. <<row.gain>> \in Seq(Int) /\ <<-row.loss>> \in Seq(Int) /\ <<>> \in Seq(Int)
    BY <1>1
  <2> QED BY <2>1
<1>3. net \in Seq(Int)
  BY <1>1, <1>2
<1>4. Result(row).net = 0 \/ (net # <<>> /\ Result(row).net = net[1])
  BY DEF Result
<1> HIDE DEF net
<1>5. net # <<>> => net[1] \in Int
  BY <1>3
<1> QED BY <1>4, <1>5

LEMMA NetsAreNumbers ==
    ASSUME NEW kept \in Seq(Rows)
    PROVE  Nets(kept) \in Seq(Int)
<1> DEFINE places == {i \in DOMAIN kept : Result(kept[i]).closed}
           N == Cardinality(places)
           shut == [n \in 1 .. N |-> kept[Nth(places, n)]]
<1>1. DOMAIN kept = 1 .. Len(kept) /\ Len(kept) \in Nat /\ \A i \in DOMAIN kept : kept[i] \in Rows
  OBVIOUS
<1>2. places \subseteq Nat /\ IsFiniteSet(places) /\ N \in Nat
  <2>1. IsFiniteSet(1 .. Len(kept))
    BY <1>1, FS_Interval
  <2>2. places \subseteq 1 .. Len(kept)
    BY <1>1
  <2> QED BY <1>1, <2>1, <2>2, FS_Subset, FS_CardinalityType
<1>3. \A n \in 1 .. N : Nth(places, n) \in places
  BY <1>2, NthExists
<1>4. Nets(kept) = [n \in DOMAIN shut |-> Result(shut[n]).net]
  BY DEF Nets, Kept
<1>5. \A n \in 1 .. N : shut[n] \in Rows
  BY <1>1, <1>3
<1>6. DOMAIN shut = 1 .. N
  OBVIOUS
<1> HIDE DEF shut, N, places
<1>7. \A n \in 1 .. N : Result(shut[n]).net \in Int
  BY <1>5, NetIsNumber
<1> QED BY <1>2, <1>4, <1>6, <1>7

--------------------------------------------------------------------------------
(* The deepest fall.                                                                      *)

Earned(nets, n) == SumFunctionOnSet(nets, 1 .. n)

LEMMA EarnedMore ==
    ASSUME NEW nets \in Seq(Int), NEW n \in 0 .. Len(nets)
    PROVE  /\ Earned(nets, n) \in Int
           /\ n > 0 => Earned(nets, n) = Earned(nets, n - 1) + nets[n]
           /\ \A i \in 1 .. n : SumFunctionOnSet(nets, i .. n) = Earned(nets, n) - Earned(nets, i - 1)
<1>1. Len(nets) \in Nat /\ \A i \in 1 .. Len(nets) : nets[i] \in Int
  OBVIOUS
<1>2. \A m \in 0 .. n : IsFiniteSet(1 .. m) /\ \A i \in 1 .. m : nets[i] \in Int
  <2> SUFFICES ASSUME NEW m \in 0 .. n
               PROVE  IsFiniteSet(1 .. m) /\ \A i \in 1 .. m : nets[i] \in Int
    OBVIOUS
  <2>1. m \in Int /\ \A i \in 1 .. m : i \in 1 .. Len(nets)
    BY <1>1
  <2>2. IsFiniteSet(1 .. m)
    BY <2>1, FS_Interval
  <2> QED BY <1>1, <2>1, <2>2
<1>3. \A m \in 0 .. n : Earned(nets, m) \in Int
  BY <1>2, SumIsInteger DEF Earned
<1>4. ASSUME n > 0 PROVE Earned(nets, n) = Earned(nets, n - 1) + nets[n]
  <2>1. n - 1 \in 0 .. n /\ n \in 1 .. n /\ (1 .. n) \ {n} = 1 .. n - 1
    BY <1>1, <1>4
  <2>2. SumFunctionOnSet(nets, 1 .. n) = nets[n] + SumFunctionOnSet(nets, (1 .. n) \ {n})
    BY <1>2, <2>1, SumWithout
  <2>3. nets[n] \in Int /\ Earned(nets, n - 1) \in Int
    BY <1>2, <1>3, <2>1
  <2>4. Earned(nets, n) = nets[n] + Earned(nets, n - 1)
    BY <2>1, <2>2 DEF Earned
  <2> QED BY <2>3, <2>4
<1>5. ASSUME NEW i \in 1 .. n
      PROVE  SumFunctionOnSet(nets, i .. n) = Earned(nets, n) - Earned(nets, i - 1)
  <2>1. 1 .. i - 1 \in SUBSET (1 .. n) /\ (1 .. n) \ (1 .. i - 1) = i .. n /\ i - 1 \in 0 .. n
    BY <1>1
  <2>2. SumFunctionOnSet(nets, 1 .. n)
          = SumFunctionOnSet(nets, 1 .. i - 1) + SumFunctionOnSet(nets, i .. n)
    BY <1>2, <2>1, SumOfParts
  <2>3. SumFunctionOnSet(nets, i .. n) \in Int
    <3>1. IsFiniteSet(i .. n) /\ \A j \in i .. n : nets[j] \in Int
      BY <1>2, FS_Interval
    <3> QED BY <3>1, SumIsInteger
  <2> QED BY <1>3, <2>1, <2>2, <2>3 DEF Earned
<1> QED BY <1>3, <1>4, <1>5

(* What the pass has found after n results.                                               *)
Fallen == [equity : Int, peak : Int, worst : Int]
FallsRight(nets, a, n) ==
    /\ a \in Fallen /\ a.equity = Earned(nets, n)
    /\ \A m \in 0 .. n : Earned(nets, m) <= a.peak
    /\ \E m \in 0 .. n : Earned(nets, m) = a.peak
    /\ \A i \in 0 .. n : \A j \in i .. n : Earned(nets, i) - Earned(nets, j) <= a.worst
    /\ \E i \in 0 .. n : \E j \in i .. n : Earned(nets, i) - Earned(nets, j) = a.worst

LEMMA FallsStep ==
    ASSUME NEW nets \in Seq(Int), NEW n \in 1 .. Len(nets), NEW a, FallsRight(nets, a, n - 1)
    PROVE  FallsRight(nets, Falls(nets, a, n), n)
<1> DEFINE b == Falls(nets, a, n)
           E(m) == Earned(nets, m)
<1>1. n \in Nat /\ n - 1 \in Nat /\ 0 .. n = (0 .. n - 1) \cup {n} /\ n \notin 0 .. n - 1
  OBVIOUS
<1>2. \A m \in 0 .. n : E(m) \in Int
  <2> SUFFICES ASSUME NEW m \in 0 .. n PROVE E(m) \in Int
    OBVIOUS
  <2>1. m \in 0 .. Len(nets)
    BY <1>1
  <2> QED BY <2>1, EarnedMore
<1>3. E(n) = E(n - 1) + nets[n] /\ nets[n] \in Int
  BY <1>1, EarnedMore
<1>4. a \in Fallen /\ a.equity = E(n - 1)
  BY DEF FallsRight
<1>5. a.equity \in Int /\ a.peak \in Int /\ a.worst \in Int
  BY <1>4 DEF Fallen
<1>6. /\ b.equity = E(n)
      /\ b.peak = IF E(n) > a.peak THEN E(n) ELSE a.peak
      /\ b.worst = IF b.peak - E(n) > a.worst THEN b.peak - E(n) ELSE a.worst
      /\ b = [equity |-> b.equity, peak |-> b.peak, worst |-> b.worst]
  BY <1>3, <1>4 DEF Falls
<1> HIDE DEF b
<1>7. b \in Fallen
  <2>1. b.equity \in Int /\ b.peak \in Int /\ b.worst \in Int
    BY <1>1, <1>2, <1>5, <1>6
  <2> QED BY <1>6, <2>1 DEF Fallen
<1> HIDE DEF E
<1>8. \A m \in 0 .. n : E(m) <= b.peak
  <2>1. \A m \in 0 .. n - 1 : E(m) <= a.peak
    BY DEF FallsRight, E
  <2> SUFFICES ASSUME NEW m \in 0 .. n PROVE E(m) <= b.peak
    OBVIOUS
  <2>2. CASE m = n
    BY <1>1, <1>2, <1>5, <1>6, <2>2
  <2>3. CASE m \in 0 .. n - 1
    <3>1. E(m) <= a.peak /\ E(m) \in Int /\ E(n) \in Int
      BY <1>1, <1>2, <2>1, <2>3
    <3> QED BY <1>5, <1>6, <3>1
  <2> QED BY <1>1, <2>2, <2>3
<1>9. PICK top \in 0 .. n : E(top) = b.peak
  <2>1. PICK m \in 0 .. n - 1 : E(m) = a.peak
    BY DEF FallsRight, E
  <2>2. m \in 0 .. n /\ n \in 0 .. n
    BY <1>1
  <2> QED BY <1>6, <2>1, <2>2
<1>10. ASSUME NEW i \in 0 .. n, NEW j \in i .. n PROVE E(i) - E(j) <= b.worst
  <2>1. j \in 0 .. n /\ E(i) \in Int /\ E(j) \in Int /\ E(n) \in Int
    BY <1>1, <1>2
  <2>2. CASE j = n
    <3>1. E(i) <= b.peak /\ b.peak \in Int
      BY <1>7, <1>8 DEF Fallen
    <3> QED BY <1>5, <1>6, <2>1, <2>2, <3>1
  <2>3. CASE j # n
    <3>1. i \in 0 .. n - 1 /\ j \in i .. n - 1
      BY <1>1, <2>3
    <3>2. E(i) - E(j) <= a.worst
      BY <3>1 DEF FallsRight, E
    <3>3. b.peak \in Int
      BY <1>7 DEF Fallen
    <3> QED BY <1>5, <1>6, <2>1, <3>2, <3>3
  <2> QED BY <2>2, <2>3
<1>11. \E i \in 0 .. n : \E j \in i .. n : E(i) - E(j) = b.worst
  <2>1. CASE b.worst = a.worst
    <3>1. PICK i \in 0 .. n - 1 : \E j \in i .. n - 1 : E(i) - E(j) = a.worst
      BY DEF FallsRight, E
    <3>2. PICK j \in i .. n - 1 : E(i) - E(j) = a.worst
      BY <3>1
    <3>3. i \in 0 .. n /\ j \in i .. n
      BY <1>1, <3>1, <3>2
    <3> QED BY <2>1, <3>2, <3>3
  <2>2. CASE b.worst = b.peak - E(n)
    <3>1. n \in top .. n
      BY <1>1
    <3> QED BY <1>9, <2>2, <3>1
  <2> QED BY <1>6, <2>1, <2>2
<1> QED BY <1>6, <1>7, <1>8, <1>9, <1>10, <1>11 DEF FallsRight, b, E

IsFall(nets, g) ==
    g = [n \in 0 .. Len(nets) |->
            IF n = 0 THEN [equity |-> 0, peak |-> 0, worst |-> 0] ELSE Falls(nets, g[n - 1], n)]

LEMMA FallIs ==
    ASSUME NEW nets \in Seq(Int)
    PROVE  \E g : IsFall(nets, g) /\ MaxDrawdown(nets) = g[Len(nets)].worst
<1> DEFINE N == Len(nets)
           none == [equity |-> 0, peak |-> 0, worst |-> 0]
           f == [n \in 1 .. N |-> [a \in Fallen |-> Falls(nets, a, n)]]
<1>1. N \in Nat /\ none \in Fallen
  BY DEF Fallen
<1>2. f \in [1 .. N -> [Fallen -> Fallen]]
  <2> SUFFICES ASSUME NEW n \in 1 .. N, NEW a \in Fallen PROVE Falls(nets, a, n) \in Fallen
    OBVIOUS
  <2>1. a.equity \in Int /\ a.peak \in Int /\ a.worst \in Int /\ nets[n] \in Int
    BY DEF Fallen
  <2> QED BY <2>1 DEF Fallen, Falls
<1>3. PICK h : IsPass(h, N, Fallen, none, f)
  <2> HIDE DEF f, none, N
  <2> QED BY <1>1, <1>2, PassExists
<1>4. IsFall(nets, h)
  <2>1. h \in [0 .. N -> Fallen] /\ h[0] = none
    BY <1>3 DEF IsPass
  <2>2. ASSUME NEW n \in 1 .. N PROVE h[n] = Falls(nets, h[n - 1], n)
    <3>1. n - 1 \in 0 .. N
      OBVIOUS
    <3>2. h[n - 1] \in Fallen
      BY <2>1, <3>1
    <3>3. h[n] = f[n][h[n - 1]]
      BY <1>3 DEF IsPass
    <3> QED BY <3>2, <3>3
  <2>3. h = [n \in 0 .. N |-> h[n]]
    BY <2>1
  <2>4. \A n \in 0 .. N : n # 0 => n \in 1 .. N
    OBVIOUS
  <2> HIDE DEF f
  <2> QED BY <2>1, <2>2, <2>3, <2>4 DEF IsFall
<1> DEFINE g == CHOOSE g : IsFall(nets, g)
<1>5. IsFall(nets, g)
  BY <1>4
<1>6. MaxDrawdown(nets) = g[Len(nets)].worst
  BY DEF MaxDrawdown, IsFall
<1> QED BY <1>5, <1>6

LEMMA DrawdownIs ==
    ASSUME NEW nets \in Seq(Int)
    PROVE  \E a : FallsRight(nets, a, Len(nets)) /\ MaxDrawdown(nets) = a.worst
<1> DEFINE N == Len(nets)
<1>1. PICK g : IsFall(nets, g) /\ MaxDrawdown(nets) = g[N].worst
  BY FallIs
<1> DEFINE F == {n \in Nat : n <= N => FallsRight(nets, g[n], n)}
<1>2. 0 \in F
  <2>1. g[0] = [equity |-> 0, peak |-> 0, worst |-> 0]
    BY <1>1 DEF IsFall
  <2>2. Earned(nets, 0) = 0
    <3>1. 1 .. 0 = {}
      OBVIOUS
    <3> QED BY <3>1, SumEmpty DEF Earned
  <2>3. 0 .. 0 = {0}
    OBVIOUS
  <2> QED BY <2>1, <2>2, <2>3 DEF FallsRight, Fallen
<1>3. ASSUME NEW n \in Nat, n \in F PROVE n + 1 \in F
  <2> SUFFICES ASSUME n + 1 <= N PROVE FallsRight(nets, g[n + 1], n + 1)
    OBVIOUS
  <2>1. FallsRight(nets, g[n], n) /\ n + 1 \in 1 .. N /\ n + 1 - 1 = n
    BY <1>3
  <2>2. g[n + 1] = Falls(nets, g[n], n + 1)
    BY <1>1, <2>1 DEF IsFall
  <2> QED BY <2>1, <2>2, FallsStep
<1> HIDE DEF F
<1>4. N \in F
  BY <1>2, <1>3, AllNumbers
<1> QED BY <1>1, <1>4 DEF F

--------------------------------------------------------------------------------
(* The longest run of losses.                                                             *)

Streaks == [now : Nat, best : Nat]
LosingRun(nets, i, j) == \A k \in i .. j : nets[k] < 0
RunsRight(nets, a, n) ==
    /\ a \in Streaks /\ a.now <= n /\ a.now <= a.best
    /\ LosingRun(nets, n - a.now + 1, n)
    /\ a.now < n => nets[n - a.now] >= 0
    /\ \A i \in 1 .. n : \A j \in i .. n : LosingRun(nets, i, j) => j - i + 1 <= a.best
    /\ a.best = 0 \/ \E i \in 1 .. n : \E j \in i .. n : LosingRun(nets, i, j) /\ a.best = j - i + 1

LEMMA RunsStep ==
    ASSUME NEW nets \in Seq(Int), NEW n \in 1 .. Len(nets), NEW a, RunsRight(nets, a, n - 1)
    PROVE  RunsRight(nets, Runs(nets, a, n), n)
<1> DEFINE b == Runs(nets, a, n)
<1>1. n \in Nat /\ n - 1 \in Nat /\ nets[n] \in Int /\ \A k \in 1 .. n : nets[k] \in Int
  OBVIOUS
<1>2. a.now \in Nat /\ a.best \in Nat /\ a.now <= n - 1 /\ a.now <= a.best
  BY DEF RunsRight, Streaks
<1>3. /\ b.now = IF nets[n] < 0 THEN a.now + 1 ELSE 0
      /\ b.best = IF b.now > a.best THEN b.now ELSE a.best
      /\ b = [now |-> b.now, best |-> b.best]
  BY DEF Runs
<1> HIDE DEF b
<1>4. b \in Streaks /\ b.now <= n /\ b.now <= b.best /\ b.now \in Nat /\ b.best \in Nat
  <2>1. b.now \in Nat /\ b.best \in Nat /\ b.now <= n /\ b.now <= b.best
    BY <1>1, <1>2, <1>3
  <2> QED BY <1>3, <2>1 DEF Streaks
<1>5. LosingRun(nets, n - b.now + 1, n)
  <2>1. CASE nets[n] < 0
    <3>1. n - b.now + 1 = n - a.now /\ b.now = a.now + 1
      BY <1>1, <1>2, <1>3, <2>1
    <3>2. \A k \in n - 1 - a.now + 1 .. n - 1 : nets[k] < 0
      BY DEF RunsRight, LosingRun
    <3> SUFFICES ASSUME NEW k \in n - a.now .. n PROVE nets[k] < 0
      BY <3>1 DEF LosingRun
    <3>3. k = n \/ k \in n - 1 - a.now + 1 .. n - 1
      BY <1>1, <1>2
    <3> QED BY <2>1, <3>2, <3>3
  <2>2. CASE ~(nets[n] < 0)
    <3>1. b.now = 0 /\ n + 1 .. n = {} /\ n - 0 + 1 = n + 1
      BY <1>1, <1>3, <2>2
    <3> QED BY <3>1 DEF LosingRun
  <2> QED BY <2>1, <2>2
<1>6. b.now < n => nets[n - b.now] >= 0
  <2>1. CASE nets[n] < 0
    <3>1. n - b.now = n - 1 - a.now /\ (b.now < n => a.now < n - 1)
      BY <1>1, <1>2, <1>3, <2>1
    <3>2. a.now < n - 1 => nets[n - 1 - a.now] >= 0
      BY DEF RunsRight
    <3> QED BY <3>1, <3>2
  <2>2. CASE ~(nets[n] < 0)
    BY <1>1, <1>3, <2>2
  <2> QED BY <2>1, <2>2
<1>7. ASSUME NEW i \in 1 .. n, NEW j \in i .. n, LosingRun(nets, i, j) PROVE j - i + 1 <= b.best
  <2>1. CASE j = n
    <3>1. n - b.now < i
      <4> SUFFICES ASSUME i <= n - b.now PROVE FALSE
        BY <1>1, <1>4
      <4>1. n - b.now \in i .. n /\ b.now < n
        BY <1>1, <1>4
      <4>2. nets[n - b.now] < 0
        BY <1>7, <2>1, <4>1 DEF LosingRun
      <4>3. nets[n - b.now] \in Int
        BY <1>1, <4>1
      <4> QED BY <1>6, <4>1, <4>2, <4>3
    <3> QED BY <1>1, <1>4, <2>1, <3>1
  <2>2. CASE j # n
    <3>1. i \in 1 .. n - 1 /\ j \in i .. n - 1
      BY <1>1, <2>2
    <3>2. j - i + 1 <= a.best
      BY <1>7, <3>1 DEF RunsRight
    <3>3. a.best <= b.best /\ i \in Int /\ j \in Int
      BY <1>1, <1>2, <1>3, <1>4
    <3> QED BY <1>2, <1>4, <3>2, <3>3
  <2> QED BY <2>1, <2>2
<1>8. b.best = 0 \/ \E i \in 1 .. n : \E j \in i .. n : LosingRun(nets, i, j) /\ b.best = j - i + 1
  <2>1. CASE b.best = a.best
    <3>1. CASE a.best = 0
      BY <2>1, <3>1
    <3>2. CASE a.best # 0
      <4>1. PICK i \in 1 .. n - 1 :
                \E j \in i .. n - 1 : LosingRun(nets, i, j) /\ a.best = j - i + 1
        BY <3>2 DEF RunsRight
      <4>2. PICK j \in i .. n - 1 : LosingRun(nets, i, j) /\ a.best = j - i + 1
        BY <4>1
      <4>3. i \in 1 .. n /\ j \in i .. n
        BY <1>1, <4>1, <4>2
      <4> QED BY <2>1, <4>2, <4>3
    <3> QED BY <3>1, <3>2
  <2>2. CASE b.best # a.best
    <3>1. b.best = b.now /\ b.now > 0
      BY <1>2, <1>3, <1>4, <2>2
    <3>2. n - b.now + 1 \in 1 .. n /\ n \in n - b.now + 1 .. n /\ b.best = n - (n - b.now + 1) + 1
      BY <1>1, <1>4, <3>1
    <3> QED BY <1>5, <3>2
  <2> QED BY <2>1, <2>2
<1> QED BY <1>4, <1>5, <1>6, <1>7, <1>8 DEF RunsRight, b

IsRuns(nets, g) ==
    g = [n \in 0 .. Len(nets) |-> IF n = 0 THEN [now |-> 0, best |-> 0] ELSE Runs(nets, g[n - 1], n)]

LEMMA RunIs ==
    ASSUME NEW nets \in Seq(Int)
    PROVE  \E g : IsRuns(nets, g) /\ MaxStreak(nets) = g[Len(nets)].best
<1> DEFINE N == Len(nets)
           none == [now |-> 0, best |-> 0]
           f == [n \in 1 .. N |-> [a \in Streaks |-> Runs(nets, a, n)]]
<1>1. N \in Nat /\ none \in Streaks
  BY DEF Streaks
<1>2. f \in [1 .. N -> [Streaks -> Streaks]]
  <2> SUFFICES ASSUME NEW n \in 1 .. N, NEW a \in Streaks PROVE Runs(nets, a, n) \in Streaks
    OBVIOUS
  <2>1. a.now \in Nat /\ a.best \in Nat /\ nets[n] \in Int
    BY DEF Streaks
  <2> QED BY <2>1 DEF Streaks, Runs
<1>3. PICK h : IsPass(h, N, Streaks, none, f)
  <2> HIDE DEF f, none, N
  <2> QED BY <1>1, <1>2, PassExists
<1>4. IsRuns(nets, h)
  <2>1. h \in [0 .. N -> Streaks] /\ h[0] = none
    BY <1>3 DEF IsPass
  <2>2. ASSUME NEW n \in 1 .. N PROVE h[n] = Runs(nets, h[n - 1], n)
    <3>1. n - 1 \in 0 .. N
      OBVIOUS
    <3>2. h[n - 1] \in Streaks
      BY <2>1, <3>1
    <3>3. h[n] = f[n][h[n - 1]]
      BY <1>3 DEF IsPass
    <3> QED BY <3>2, <3>3
  <2>3. h = [n \in 0 .. N |-> h[n]]
    BY <2>1
  <2>4. \A n \in 0 .. N : n # 0 => n \in 1 .. N
    OBVIOUS
  <2> HIDE DEF f
  <2> QED BY <2>1, <2>2, <2>3, <2>4 DEF IsRuns
<1> DEFINE g == CHOOSE g : IsRuns(nets, g)
<1>5. IsRuns(nets, g)
  BY <1>4
<1>6. MaxStreak(nets) = g[Len(nets)].best
  BY DEF MaxStreak, IsRuns
<1> QED BY <1>5, <1>6

LEMMA StreakIs ==
    ASSUME NEW nets \in Seq(Int)
    PROVE  \E a : RunsRight(nets, a, Len(nets)) /\ MaxStreak(nets) = a.best
<1> DEFINE N == Len(nets)
<1>1. PICK g : IsRuns(nets, g) /\ MaxStreak(nets) = g[N].best
  BY RunIs
<1> DEFINE F == {n \in Nat : n <= N => RunsRight(nets, g[n], n)}
<1>2. 0 \in F
  <2>1. g[0] = [now |-> 0, best |-> 0]
    BY <1>1 DEF IsRuns
  <2> QED BY <2>1 DEF RunsRight, Streaks, LosingRun
<1>3. ASSUME NEW n \in Nat, n \in F PROVE n + 1 \in F
  <2> SUFFICES ASSUME n + 1 <= N PROVE RunsRight(nets, g[n + 1], n + 1)
    OBVIOUS
  <2>1. RunsRight(nets, g[n], n) /\ n + 1 \in 1 .. N /\ n + 1 - 1 = n
    BY <1>3
  <2>2. g[n + 1] = Runs(nets, g[n], n + 1)
    BY <1>1, <2>1 DEF IsRuns
  <2> QED BY <2>1, <2>2, RunsStep
<1> HIDE DEF F
<1>4. N \in F
  BY <1>2, <1>3, AllNumbers
<1> QED BY <1>1, <1>4 DEF F

(* The greatest number, once it is known.                                                 *)
LEMMA MaxIs ==
    ASSUME NEW S, S \subseteq Int, NEW x \in S, \A y \in S : y <= x
    PROVE  Max(S) = x
<1>1. \A y \in S : x >= y
  OBVIOUS
<1>2. Max(S) \in S /\ \A y \in S : Max(S) >= y
  BY <1>1 DEF Max
<1> DEFINE m == Max(S)
<1>3. m \in S /\ m >= x
  BY <1>2
<1> HIDE DEF m
<1>4. x >= m /\ m \in Int /\ x \in Int
  BY <1>1, <1>3
<1>5. m = x
  BY <1>3, <1>4
<1> QED BY <1>5 DEF m

Spans(nets) == {p \in (DOMAIN nets) \X (DOMAIN nets) : p[1] <= p[2]}

(* The deepest fall is that of some stretch of the results, or none.                     *)
LEMMA DrawdownIsRight ==
    ASSUME NEW nets \in Seq(Int)
    PROVE  MaxDrawdown(nets)
             = Max({0} \cup {-SumFunctionOnSet(nets, p[1] .. p[2]) : p \in Spans(nets)})
<1> DEFINE N == Len(nets)
           E(m) == Earned(nets, m)
           S == {0} \cup {-SumFunctionOnSet(nets, p[1] .. p[2]) : p \in Spans(nets)}
<1>1. PICK a : FallsRight(nets, a, N) /\ MaxDrawdown(nets) = a.worst
  BY DrawdownIs
<1>2. N \in Nat /\ DOMAIN nets = 1 .. N
  OBVIOUS
<1>3. a.worst \in Int
  BY <1>1 DEF FallsRight, Fallen
<1>4. \A m \in 0 .. N : E(m) \in Int
  BY EarnedMore
<1>5. ASSUME NEW i \in 1 .. N, NEW j \in i .. N
      PROVE  -SumFunctionOnSet(nets, i .. j) = E(i - 1) - E(j)
  <2>1. j \in 0 .. N /\ i \in 1 .. j /\ i - 1 \in 0 .. N
    BY <1>2
  <2>2. SumFunctionOnSet(nets, i .. j) = E(j) - E(i - 1)
    BY <2>1, EarnedMore
  <2>3. E(j) \in Int /\ E(i - 1) \in Int
    BY <1>4, <2>1
  <2> HIDE DEF E
  <2> QED BY <2>2, <2>3
<1>6. \A i \in 0 .. N : \A j \in i .. N : E(i) - E(j) <= a.worst
  BY <1>1 DEF FallsRight
<1>7. PICK i \in 0 .. N : \E j \in i .. N : E(i) - E(j) = a.worst
  BY <1>1 DEF FallsRight
<1>8. PICK j \in i .. N : E(i) - E(j) = a.worst
  BY <1>7
<1> HIDE DEF E
<1>9. a.worst \in S
  <2>1. CASE i = j
    BY <1>4, <1>8, <2>1
  <2>2. CASE i # j
    <3>1. i + 1 \in 1 .. N /\ j \in i + 1 .. N /\ i + 1 - 1 = i /\ j \in 1 .. N
      BY <1>2, <1>8, <2>2
    <3>2. -SumFunctionOnSet(nets, i + 1 .. j) = a.worst
      BY <1>5, <1>8, <3>1
    <3> DEFINE p == <<i + 1, j>>
    <3>3. p \in Spans(nets) /\ p[1] = i + 1 /\ p[2] = j
      BY <1>2, <3>1 DEF Spans
    <3> HIDE DEF p
    <3> QED BY <3>2, <3>3
  <2> QED BY <2>1, <2>2
<1>10. \A y \in S : y \in Int /\ y <= a.worst
  <2> SUFFICES ASSUME NEW y \in S PROVE y \in Int /\ y <= a.worst
    OBVIOUS
  <2>1. CASE y = 0
    <3>1. 0 \in 0 .. N /\ E(0) \in Int
      BY <1>2, <1>4
    <3>2. E(0) - E(0) <= a.worst
      BY <1>6, <3>1
    <3> QED BY <1>3, <2>1, <3>1, <3>2
  <2>2. CASE y # 0
    <3>1. PICK p \in Spans(nets) : y = -SumFunctionOnSet(nets, p[1] .. p[2])
      BY <2>2
    <3>2. p[1] \in 1 .. N /\ p[2] \in p[1] .. N
      BY <1>2, <3>1 DEF Spans
    <3>3. y = E(p[1] - 1) - E(p[2]) /\ p[1] - 1 \in 0 .. N /\ p[2] \in p[1] - 1 .. N /\ p[2] \in 0 .. N
      BY <1>2, <1>5, <3>1, <3>2
    <3>4. y <= a.worst
      BY <1>6, <3>3
    <3>5. E(p[1] - 1) \in Int /\ E(p[2]) \in Int
      BY <1>4, <3>3
    <3> QED BY <3>3, <3>4, <3>5
  <2> QED BY <2>1, <2>2
<1> HIDE DEF S
<1>11. Max(S) = a.worst
  BY <1>9, <1>10, MaxIs
<1> QED BY <1>1, <1>11 DEF S

(* The longest run of losses is that of some stretch, or none.                            *)
LEMMA StreakIsRight ==
    ASSUME NEW nets \in Seq(Int)
    PROVE  MaxStreak(nets)
             = Max({0} \cup {p[2] - p[1] + 1 :
                                p \in {q \in Spans(nets) : \A k \in q[1] .. q[2] : nets[k] < 0}})
<1> DEFINE N == Len(nets)
           losing == {q \in Spans(nets) : \A k \in q[1] .. q[2] : nets[k] < 0}
           S == {0} \cup {p[2] - p[1] + 1 : p \in losing}
<1>1. PICK a : RunsRight(nets, a, N) /\ MaxStreak(nets) = a.best
  BY StreakIs
<1>2. N \in Nat /\ DOMAIN nets = 1 .. N
  OBVIOUS
<1>3. a.best \in Nat
  BY <1>1 DEF RunsRight, Streaks
<1>4. \A p \in losing : p[1] \in 1 .. N /\ p[2] \in p[1] .. N /\ LosingRun(nets, p[1], p[2])
  <2> SUFFICES ASSUME NEW p \in losing
               PROVE  p[1] \in 1 .. N /\ p[2] \in p[1] .. N /\ LosingRun(nets, p[1], p[2])
    OBVIOUS
  <2>1. p[1] \in 1 .. N /\ p[2] \in p[1] .. N
    BY <1>2 DEF Spans
  <2> QED BY <2>1 DEF LosingRun
<1>5. a.best \in S
  <2>1. CASE a.best = 0
    BY <2>1
  <2>2. CASE a.best # 0
    <3>1. PICK i \in 1 .. N : \E j \in i .. N : LosingRun(nets, i, j) /\ a.best = j - i + 1
      BY <1>1, <2>2 DEF RunsRight
    <3>2. PICK j \in i .. N : LosingRun(nets, i, j) /\ a.best = j - i + 1
      BY <3>1
    <3> DEFINE p == <<i, j>>
    <3>3. p \in Spans(nets) /\ p[1] = i /\ p[2] = j
      BY <1>2, <3>1, <3>2 DEF Spans
    <3> HIDE DEF p
    <3>4. p \in losing
      BY <3>2, <3>3 DEF LosingRun
    <3> HIDE DEF losing
    <3> QED BY <3>2, <3>3, <3>4
  <2> QED BY <2>1, <2>2
<1> HIDE DEF losing
<1>6. \A y \in S : y \in Int /\ y <= a.best
  <2> SUFFICES ASSUME NEW y \in S PROVE y \in Int /\ y <= a.best
    OBVIOUS
  <2>1. CASE y = 0
    BY <1>3, <2>1
  <2>2. CASE y # 0
    <3>1. PICK p \in losing : y = p[2] - p[1] + 1
      BY <2>2
    <3>2. p[1] \in 1 .. N /\ p[2] \in p[1] .. N /\ LosingRun(nets, p[1], p[2])
      BY <1>4, <3>1
    <3>3. p[2] - p[1] + 1 <= a.best
      BY <1>1, <3>2 DEF RunsRight
    <3> QED BY <1>2, <3>1, <3>2, <3>3
  <2> QED BY <2>1, <2>2
<1> HIDE DEF S
<1>7. Max(S) = a.best
  BY <1>3, <1>5, <1>6, MaxIs
<1> QED BY <1>1, <1>7 DEF S, losing

(* What was won less what was lost is what was earned.                                   *)
LEMMA WonAndLost ==
    ASSUME NEW nets \in Seq(Int)
    PROVE  LET won == SumWhere(nets, LAMBDA x : x > 0)
               lost == -SumWhere(nets, LAMBDA x : x < 0)
               all == SumFunctionOnSet(nets, 1 .. Len(nets))
           IN  won \in Int /\ lost \in Int /\ all \in Int /\ lost = won - all
<1> DEFINE D == DOMAIN nets
           u == [i \in D |-> IF nets[i] > 0 THEN nets[i] ELSE 0]
           v == [i \in D |-> IF nets[i] < 0 THEN nets[i] ELSE 0]
<1>1. D = 1 .. Len(nets) /\ IsFiniteSet(D) /\ \A i \in D : nets[i] \in Int
  <2>1. D = 1 .. Len(nets) /\ Len(nets) \in Nat /\ \A i \in D : nets[i] \in Int
    OBVIOUS
  <2> QED BY <2>1, FS_Interval
<1>2. DOMAIN u = D /\ DOMAIN v = D
  OBVIOUS
<1>3. \A i \in D : u[i] \in Int /\ v[i] \in Int /\ nets[i] = u[i] + v[i]
  BY <1>1
<1>4. SumWhere(nets, LAMBDA x : x > 0) = SumFunction(u) /\ SumWhere(nets, LAMBDA x : x < 0) = SumFunction(v)
  BY DEF SumWhere
<1> HIDE DEF u, v, D
<1>5. SumFunction(u) = SumFunctionOnSet(u, D) /\ SumFunction(v) = SumFunctionOnSet(v, D)
  BY <1>2, SumOfFunction
<1>6. SumFunctionOnSet(nets, D) = SumFunctionOnSet(u, D) + SumFunctionOnSet(v, D)
  BY <1>1, <1>3, SumOfSums
<1>7. /\ SumFunctionOnSet(u, D) \in Int /\ SumFunctionOnSet(v, D) \in Int
      /\ SumFunctionOnSet(nets, D) \in Int
  BY <1>1, <1>3, SumIsInteger
<1> QED BY <1>1, <1>4, <1>5, <1>6, <1>7

(* A profit factor of 120 hundredths is a fifth more won than lost.                     *)
LEMMA FactorIsRight ==
    ASSUME NEW nets \in Seq(Int), ~(ProfitFactor(nets) < 120)
    PROVE  LET won == SumWhere(nets, LAMBDA x : x > 0)
               lost == won - SumFunctionOnSet(nets, 1 .. Len(nets))
           IN  won > lost /\ 5 * won >= 6 * lost
<1> DEFINE won == SumWhere(nets, LAMBDA x : x > 0)
           losses == -SumWhere(nets, LAMBDA x : x < 0)
           lost == won - SumFunctionOnSet(nets, 1 .. Len(nets))
<1>1. won \in Int /\ losses \in Int /\ losses = lost
  BY WonAndLost
<1>2. ProfitFactor(nets) = CASE won <= 0 -> 0 [] won > 0 /\ losses <= 0 -> 100 * won
                             [] OTHER -> (100 * won) \div losses
  BY DEF ProfitFactor
<1> HIDE DEF won, losses, lost
<1>3. won > 0
  <2> SUFFICES ASSUME won <= 0 PROVE FALSE
    BY <1>1
  <2>1. ProfitFactor(nets) = 0
    BY <1>1, <1>2
  <2> QED BY <2>1
<1>4. CASE losses <= 0
  BY <1>1, <1>3, <1>4 DEF won, lost
<1>5. CASE losses > 0
  <2>1. ProfitFactor(nets) = (100 * won) \div losses
    BY <1>1, <1>2, <1>3, <1>5
  <2> DEFINE q == (100 * won) \div losses
  <2>2. 100 * won \in Nat /\ losses \in Nat \ {0}
    BY <1>1, <1>3, <1>5
  <2>3. q \in Nat /\ q * losses <= 100 * won
    BY <2>2, Division
  <2>4. q >= 120
    BY <2>1, <2>3
  <2> HIDE DEF q
  <2>5. 120 * losses <= q * losses
    BY <2>2, <2>3, <2>4, Ordered
  <2>6. q * losses \in Int
    BY <2>2, <2>3
  <2>7. 6 * losses <= 5 * won
    BY <1>1, <2>3, <2>5, <2>6
  <2>8. won > lost /\ 5 * won >= 6 * lost
    BY <1>1, <1>3, <1>5, <2>7
  <2> QED BY <2>8 DEF won, lost
<1> QED BY <1>1, <1>4, <1>5

(* The log, and what the report says of it.                                               *)
RightOf(nets, s) ==
    LET won == SumWhere(nets, LAMBDA x : x > 0)
        lost == won - SumFunctionOnSet(nets, 1 .. Len(nets))
    IN  /\ s.drawdown
             = Max({0} \cup {-SumFunctionOnSet(nets, p[1] .. p[2]) : p \in Spans(nets)})
        /\ s.streak
             = Max({0} \cup {p[2] - p[1] + 1 :
                                p \in {q \in Spans(nets) : \A k \in q[1] .. q[2] : nets[k] < 0}})
        /\ s.warnings = {} => won > lost /\ 5 * won >= 6 * lost

ReportInv ==
    /\ recorded \in Seq(Lines)
    /\ summary # <<>> => RightOf(Nets(Readable(recorded)), summary[1])

LEMMA ReportStarts == ReportInit => ReportInv
BY DEF ReportInit, ReportInv

LEMMA ReportStays == ReportInv /\ [ReportNext]_reportVars => ReportInv'
<1> SUFFICES ASSUME ReportInv, [ReportNext]_reportVars PROVE ReportInv'
  OBVIOUS
<1>1. recorded \in Seq(Lines)
  BY DEF ReportInv
<1>2. ASSUME NEW line \in Lines, WriteRow(line) PROVE ReportInv'
  BY <1>1, <1>2 DEF WriteRow, ReportInv
<1>3. ASSUME Analyze PROVE ReportInv'
  <2> DEFINE kept == Readable(recorded)
             nets == Nets(kept)
             s == summary'[1]
             won == SumWhere(nets, LAMBDA x : x > 0)
             lost == won - SumFunctionOnSet(nets, 1 .. Len(nets))
  <2>1. recorded' = recorded
    BY <1>3 DEF Analyze
  <2>2. nets \in Seq(Int)
    BY <1>1, ReadableRows, NetsAreNumbers
  <2>3. s.drawdown = MaxDrawdown(nets) /\ s.streak = MaxStreak(nets) /\ s.warnings = Warnings(kept)
    BY <1>3 DEF Analyze
  <2>4. ASSUME s.warnings = {} PROVE won > lost /\ 5 * won >= 6 * lost
    <3>1. ~(ProfitFactor(nets) < 120)
      <4> SUFFICES ASSUME ProfitFactor(nets) < 120 PROVE "factor" \in Warnings(kept)
        BY <2>3, <2>4
      <4> QED BY DEF Warnings
    <3> QED BY <2>2, <3>1, FactorIsRight
  <2> HIDE DEF s, nets, kept
  <2>5. RightOf(nets, s)
    BY <2>2, <2>3, <2>4, DrawdownIsRight, StreakIsRight DEF RightOf
  <2> QED BY <1>1, <2>1, <2>5 DEF ReportInv, s, nets, kept
<1>4. ASSUME UNCHANGED reportVars PROVE ReportInv'
  BY <1>1, <1>4 DEF reportVars, ReportInv
<1> QED BY <1>2, <1>3, <1>4 DEF ReportNext

(* Whatever is logged, in any order and with any lines among it that cannot be read, the   *)
(* report's one-pass figures are the deepest fall and the longest run of losses of the     *)
(* results it counts, and a report without a warning is one of a history that won a fifth  *)
(* more than it lost (performance_analysis._max_drawdown, _max_consecutive_losses,         *)
(* _profit_factor and the warnings).                                                       *)
THEOREM Figures == ReportSpec => []FiguresAreRight
<1>1. ReportInv => FiguresAreRight
  <2> DEFINE nets == Nets(Readable(recorded))
  <2> SUFFICES ASSUME summary # <<>>, RightOf(nets, summary[1]) PROVE FiguresAreRight
    BY DEF ReportInv, FiguresAreRight
  <2> QED BY DEF FiguresAreRight, RightOf, Spans
<1> QED BY <1>1, ReportStarts, ReportStays, PTL DEF ReportSpec
================================================================================
