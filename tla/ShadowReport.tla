----------------------------- MODULE ShadowReport ------------------------------
(* performance_analysis: the decision log of shadow trading is read line by line  *)
(* and summarised into totals, breakdowns, warnings and a diagnosis, on which the  *)
(* decision to go live is taken. A line is an entry the pipeline logged, a row     *)
(* exported from shadow_decisions, or unreadable.                                 *)
(* Confidences are hundredths, reward-to-risk ratios tenths, a number that may be  *)
(* missing is a sequence of at most one.                                          *)
EXTENDS Integers, Sequences, FiniteSets, FiniteSetsExt, Functions

CONSTANTS
    Lines,      \* the lines that may be logged
    MaxLines    \* bound on the length of the log

Unreadable == [form |-> "unreadable"]
Stages == {"none", "decision", "ai_review", "risk", "portfolio", "execution"}

ASSUME LinesAssumption ==
    /\ MaxLines \in Nat
    /\ \A row \in Lines \ {Unreadable} :
          {row.gain, row.loss} \subseteq Int /\ row.net \in Seq(Int)

VARIABLES
    recorded,         \* the log
    summary          \* what analyze_decision_logs made of it, <<>> before

reportVars == <<recorded, summary>>

ReportInit == recorded = <<>> /\ summary = <<>>

\* The members of a sequence that pass a test, in their order.
Nth(places, n) == CHOOSE i \in places : Cardinality({j \in places : j <= i}) = n
Kept(seq, Test(_)) ==
    LET places == {i \in DOMAIN seq : Test(seq[i])}
    IN  [n \in 1 .. Cardinality(places) |-> seq[Nth(places, n)]]

(******************************** one entry *************************************)

\* _normalize_record: a row of the table says nothing of a result, and counts as
\* executed when it names a trade or a direction nothing refused. Its status is "".
WasExecuted(row) ==
    IF row.form = "export" THEN row.trade \/ (row.final # "HOLD" /\ ~row.refused)
    ELSE row.executed

\* _trade_result. A status without a number stands for what was expected.
Result(row) ==
    LET actual(field) == IF row.form = "export" THEN <<>> ELSE row[field]
        expected(gain, loss) == CASE row.status = "TP_HIT" -> <<gain>>
                                  [] row.status = "SL_HIT" -> <<-loss>>
                                  [] OTHER -> <<>>
        net == IF actual("net") # <<>> THEN actual("net") ELSE expected(row.gain, row.loss)
    IN  IF row.final = "HOLD" /\ ~WasExecuted(row)
        THEN [executed |-> FALSE, closed |-> FALSE, net |-> 0]
        ELSE [executed |-> WasExecuted(row), closed |-> net # <<>>,
              net |-> IF net = <<>> THEN 0 ELSE net[1]]

\* The gross result: what is known of it, or the net one.
Gross(row) ==
    IF row.form = "log" /\ row.gross # <<>> THEN row.gross[1]
    ELSE CASE row.status = "TP_HIT" -> row.gain + row.costs
           [] row.status = "SL_HIT" -> row.costs - row.loss
           [] OTHER -> Result(row).net

(********************************** buckets *************************************)

AiBuckets == {"60-70", "70-80", "80-90", "90-100", "UNKNOWN"}

\* _ai_bucket: up to one it is a fraction, above that a percentage.
AiBucket(row) ==
    LET pct == IF row.confidence <= 100 THEN row.confidence ELSE row.confidence \div 100
    IN  CASE pct \in 60 .. 69 -> "60-70" [] pct \in 70 .. 79 -> "70-80"
          [] pct \in 80 .. 89 -> "80-90" [] pct \in 90 .. 100 -> "90-100"
          [] OTHER -> "UNKNOWN"

RrBucket(row) ==
    CASE row.rr <= 0 -> "UNKNOWN" [] row.rr \in 1 .. 14 -> "<1.5" [] row.rr \in 15 .. 19 -> "1.5-2.0"
      [] row.rr \in 20 .. 29 -> "2.0-3.0" [] OTHER -> ">=3.0"

\* An exported row has no spread and no funding.
SpreadBucket(row) ==
    CASE row.form = "export" \/ row.spread <= 0 -> "UNKNOWN" [] row.spread \in 1 .. 2 -> "0-2bps"
      [] row.spread \in 3 .. 5 -> "2-5bps" [] row.spread \in 6 .. 10 -> "5-10bps"
      [] OTHER -> ">10bps"

FundingBucket(row) ==
    CASE row.form = "export" -> "UNKNOWN" [] row.funding > 0 -> "POSITIVE"
      [] row.funding < 0 -> "NEGATIVE" [] OTHER -> "NEUTRAL"

ChartBucket(row) ==
    CASE row.chart < 50 -> "<50" [] row.chart \in 50 .. 59 -> "50-60" [] row.chart \in 60 .. 69 -> "60-70"
      [] row.chart \in 70 .. 79 -> "70-80" [] OTHER -> ">=80"

(******************************** aggregates ************************************)

SumOf(rows, of(_)) == SumFunction([i \in DOMAIN rows |-> of(rows[i])])
CountOf(rows, test(_)) == Cardinality({i \in DOMAIN rows : test(rows[i])})
Nets(rows) == LET shut == Kept(rows, LAMBDA row : Result(row).closed)
              IN  [i \in DOMAIN shut |-> Result(shut[i]).net]

\* _summarize_group
Group(rows) ==
    [rows     |-> Len(rows),
     executed |-> CountOf(rows, LAMBDA row : Result(row).executed),
     held     |-> CountOf(rows, LAMBDA row : row.final = "HOLD"),
     closed   |-> Len(Nets(rows)),
     wins     |-> Cardinality({i \in DOMAIN Nets(rows) : Nets(rows)[i] > 0}),
     net      |-> SumFunction(Nets(rows))]

\* What the rows are grouped by.
Groupings == {"regime", "strategy", "direction", "stage", "rr", "spread", "funding", "chart"}
Buckets(row) ==
    [regime |-> row.regime, strategy |-> row.strategy, direction |-> row.candidate, stage |-> row.stage,
     rr |-> RrBucket(row), spread |-> SpreadBucket(row), funding |-> FundingBucket(row),
     chart |-> ChartBucket(row)]

\* _group_performance, _bucket_performance
By(rows, field) ==
    [k \in {Buckets(rows[i])[field] : i \in DOMAIN rows} |->
        Group(Kept(rows, LAMBDA row : Buckets(row)[field] = k))]

\* _ai_confidence_performance keeps the buckets it knows, in their order.
ByConfidence(rows) ==
    [k \in AiBuckets |-> Group(Kept(rows, LAMBDA row : AiBucket(row) = k))]

\* Variant: the peak starts with the first result, not with nothing earned.
MaxDrawdownFromFirst(nets) ==
    LET after[n \in 0 .. Len(nets)] ==
            IF n = 0 THEN [equity |-> 0, peak |-> 0, worst |-> 0]
            ELSE LET equity == after[n - 1].equity + nets[n]
                     peak == IF n = 1 \/ equity > after[n - 1].peak THEN equity ELSE after[n - 1].peak
                     worst == after[n - 1].worst
                 IN  [equity |-> equity, peak |-> peak,
                      worst |-> IF peak - equity > worst THEN peak - equity ELSE worst]
    IN  after[Len(nets)].worst

\* _max_drawdown: one pass, with the highest equity so far.
Falls(nets, before, n) ==
    LET equity == before.equity + nets[n]
        peak == IF equity > before.peak THEN equity ELSE before.peak
    IN  [equity |-> equity, peak |-> peak,
         worst |-> IF peak - equity > before.worst THEN peak - equity ELSE before.worst]
MaxDrawdown(nets) ==
    LET after[n \in 0 .. Len(nets)] ==
            IF n = 0 THEN [equity |-> 0, peak |-> 0, worst |-> 0] ELSE Falls(nets, after[n - 1], n)
    IN  after[Len(nets)].worst

\* _max_consecutive_losses
Runs(nets, before, n) ==
    LET now == IF nets[n] < 0 THEN before.now + 1 ELSE 0
    IN  [now |-> now, best |-> IF now > before.best THEN now ELSE before.best]
MaxStreak(nets) ==
    LET after[n \in 0 .. Len(nets)] ==
            IF n = 0 THEN [now |-> 0, best |-> 0] ELSE Runs(nets, after[n - 1], n)
    IN  after[Len(nets)].best

SumWhere(nets, test(_)) == SumFunction([i \in DOMAIN nets |-> IF test(nets[i]) THEN nets[i] ELSE 0])

\* _profit_factor, in hundredths. Without a loss it is the gain itself.
ProfitFactor(nets) ==
    LET gains == SumWhere(nets, LAMBDA x : x > 0)
        losses == -SumWhere(nets, LAMBDA x : x < 0)
    IN  CASE gains <= 0 -> 0 [] gains > 0 /\ losses <= 0 -> 100 * gains
          [] OTHER -> (100 * gains) \div losses

(******************************** judgement *************************************)

\* _ai_confidence_not_calibrated: more confident trades earned less.
NotCalibrated(rows) ==
    LET order == <<"60-70", "70-80", "80-90", "90-100">>
        shut == Kept(order, LAMBDA b : ByConfidence(rows)[b].closed > 0)
    IN  \E i \in 1 .. Len(shut) - 1 :
            ByConfidence(rows)[shut[i]].net > ByConfidence(rows)[shut[i + 1]].net

Warnings(rows) ==
    LET gross == SumOf(rows, LAMBDA row : IF Result(row).closed THEN Gross(row) ELSE 0)
        size == IF gross < 0 THEN -gross ELSE gross
        costs == SumOf(rows, LAMBDA row : IF row.form = "log" THEN row.costs ELSE 0)
        strategies == By(rows, "strategy")
    IN  {w \in {"net", "factor", "calibration", "costs"} :
            \/ w = "net" /\ SumFunction(Nets(rows)) <= 0
            \/ w = "factor" /\ ProfitFactor(Nets(rows)) < 120
            \/ w = "calibration" /\ NotCalibrated(rows)
            \/ w = "costs" /\ size > 0 /\ 10 * costs >= 3 * size}
        \cup {s \in DOMAIN strategies : strategies[s].closed >= 2 /\ strategies[s].net < 0}

\* _diagnose_zero_trades: the stage most of the decisions ended in.
Diagnosis(rows) ==
    LET at(s) == CountOf(rows, LAMBDA row : row.stage = s)
        reviewed == CountOf(rows, LAMBDA row : row.review # "none")
        rejects == CountOf(rows, LAMBDA row : row.review = "REJECT")
        tops == {rows[i].stage : i \in {j \in DOMAIN rows :
                    \A s \in Stages : at(rows[j].stage) >= at(s)}}
        first == rows[Min({i \in DOMAIN rows : rows[i].stage \in tops})].stage
    IN  CASE CountOf(rows, LAMBDA row : Result(row).executed) > 0 -> "trades"
          [] rows = <<>> -> "no log"
          [] OTHER -> IF first \in {"decision", "none"} THEN "decision"
                      ELSE IF first = "ai_review" \/ (reviewed > 0 /\ 2 * rejects >= reviewed)
                           THEN "ai_review"
                      ELSE IF first = "risk" \/ \E i \in DOMAIN rows : rows[i].stage = "risk"
                           THEN "risk" ELSE first

(********************************* the steps ************************************)

\* Lines that cannot be read are counted and skipped.
Readable(lines) == Kept(lines, LAMBDA line : line # Unreadable)

\* A decision is logged.
WriteRow(line) ==
    /\ summary = <<>> /\ Len(recorded) < MaxLines
    /\ recorded' = Append(recorded, line)
    /\ UNCHANGED summary

\* analyze_log_file
Analyze ==
    /\ summary = <<>>
    /\ LET rows == Readable(recorded)
       IN  summary' = <<[total |-> Group(rows),
                         skipped |-> Len(recorded) - Len(rows),
                         by |-> [field \in Groupings |-> By(rows, field)],
                         confidence |-> ByConfidence(rows),
                         drawdown |-> MaxDrawdown(Nets(rows)),
                         streak |-> MaxStreak(Nets(rows)),
                         warnings |-> Warnings(rows),
                         diagnosis |-> Diagnosis(rows)]>>
    /\ UNCHANGED recorded

ReportNext == (\E line \in Lines : WriteRow(line)) \/ Analyze
ReportSpec == ReportInit /\ [][ReportNext]_reportVars

(********************************* properties ***********************************)

\* The single-pass figures are what their names say: the deepest fall of the summed
\* results below an earlier level, the longest run of losses. And a report that
\* warns of nothing is one of a history that earned a fifth more than it lost.
FiguresAreRight ==
    summary # <<>> =>
        LET s == summary[1]
            nets == Nets(Readable(recorded))
            part(i, j) == SumFunctionOnSet(nets, i .. j)
            spans == {p \in (DOMAIN nets) \X (DOMAIN nets) : p[1] <= p[2]}
            losing == {p \in spans : \A k \in p[1] .. p[2] : nets[k] < 0}
            won == SumWhere(nets, LAMBDA x : x > 0)
            lost == won - part(1, Len(nets))
        IN  /\ s.drawdown = Max({0} \cup {-part(p[1], p[2]) : p \in spans})
            /\ s.streak = Max({0} \cup {p[2] - p[1] + 1 : p \in losing})
            /\ s.warnings = {} => won > lost /\ 5 * won >= 6 * lost
================================================================================
