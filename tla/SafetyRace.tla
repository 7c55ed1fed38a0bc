------------------------------- MODULE SafetyRace ------------------------------
(* The handlers of the safety layer as the workers really run them: a handful of *)
(* Celery and API processes, each taking one handler at a time through its Redis *)
(* commands, with every other process's commands in between.  Nothing in the     *)
(* code locks a key or watches it for change.  One user; the keys and what each  *)
(* command computes are those of HaltStore.                                      *)
(*                                                                               *)
(* A handler reads the clock together with its first read of a switch; a worker  *)
(* may be killed between any two commands.                                       *)
EXTENDS HaltStore, FiniteSets

CONSTANTS
    Workers,     \* the processes
    Recorders,   \* those of them that run post-trade hooks
    Jobs,        \* the handlers an instance exercises
    Losses,      \* loss of a closed trade
    Limits,      \* the [daily, weekly] limits a trade event can carry
    Budget,      \* bound: handlers started
    Crashes      \* bound: workers killed

AllJobs == {"record", "check", "resume", "risk"}

ASSUME WorkersAssumption   == IsFiniteSet(Workers)
ASSUME RecordersAssumption == Recorders \subseteq Workers
ASSUME JobsAssumption      == Jobs \subseteq AllJobs
ASSUME LossesAssumption    == Losses \subseteq Nat \ {0}
ASSUME LimitsAssumption    == Limits \subseteq [KS -> Nat]
ASSUME BoundsAssumption    == Budget \in Nat /\ Crashes \in Nat

VARIABLES
    left, own, shared,   \* as in SafetyLayer
    active,              \* UserSettings.is_trading_active
    work,                \* what each worker is in the middle of
    budget, crashes,     \* what is left of the two bounds
    charged              \* history: all losses handed to each switch so far

vars == <<left, own, shared, active, work, budget, crashes, charged>>

Idle == [job |-> "none", at |-> "idle", ks |-> "daily", key |-> NoKey,
         loss |-> 0, limits |-> [ks \in KS |-> 0], refused |-> FALSE]

Places == {"idle", "getOwn", "getShared", "setOwn", "setShared", "peekShared",
           "peekOther", "delShared", "flag", "riskRead", "riskSet"}

Work == [job : AllJobs \cup {"none"}, at : Places, ks : KS, key : OwnKey,
         loss : Nat, limits : [KS -> Nat], refused : BOOLEAN]

TypeOK ==
    /\ left    \in [KS -> Nat \ {0}]
    /\ own     \in [KS -> OwnKey]
    /\ shared  \in Halt
    /\ active  \in BOOLEAN
    /\ work    \in [Workers -> Work]
    /\ budget  \in 0 .. Budget
    /\ crashes \in 0 .. Crashes
    /\ charged \in [KS -> Nat]

Init ==
    /\ left    = [ks \in KS |-> Period(ks)]
    /\ own     = [ks \in KS |-> NoKey]
    /\ shared  = NoHalt
    /\ active  = TRUE
    /\ work    = [w \in Workers |-> Idle]
    /\ budget  = Budget
    /\ crashes = Crashes
    /\ charged = [ks \in KS |-> 0]

(******************************* a worker's steps *******************************)

\* The handler moves on to the weekly switch, to the database flag, or ends.
Advance(j) ==
    IF j.ks = "daily"
    THEN [j EXCEPT !.ks = "weekly",
                   !.at = IF j.job = "resume" THEN "setOwn" ELSE "getOwn"]
    ELSE IF j.job = "resume" \/ j.refused THEN [j EXCEPT !.at = "flag"]
    ELSE Idle

\* Variant: a loss is recorded while the switch is halted, too.
DecideWithoutSkip(j, seen) ==
    LET key == Recorded(seen, j.loss, j.limits[j.ks], left[j.ks])
    IN  [j EXCEPT !.at = "setOwn", !.key = key, !.refused = @ \/ key.halted]

\* What a handler does next with what it read of a switch.
Decide(j, seen) ==
    CASE j.job = "record" ->
            IF Binding(seen) THEN Advance([j EXCEPT !.refused = TRUE])
            ELSE LET key == Recorded(seen, j.loss, j.limits[j.ks], left[j.ks])
                 IN  [j EXCEPT !.at = "setOwn", !.key = key,
                               !.refused = @ \/ key.halted]
      [] j.job = "check" ->
            IF Binding(seen) THEN Idle
            ELSE IF seen.halted THEN [j EXCEPT !.at = "setOwn", !.key = Fresh]
            ELSE Advance(j)
      [] j.job = "resume" ->
            IF Binding(seen) THEN Idle
            ELSE IF j.ks = "daily" THEN [j EXCEPT !.ks = "weekly", !.at = "getOwn"]
            ELSE [j EXCEPT !.ks = "daily", !.at = "setOwn", !.key = Fresh]

\* Worker w is at the given command; the command changes its work to j.
At(w, place) == work[w].at = place
Goes(w, j)   == work' = [work EXCEPT ![w] = j]
Stays        == UNCHANGED <<left, budget, crashes, charged>>

\* A worker takes up a handler.
StartRecord(w, loss, limits) ==
    /\ "record" \in Jobs /\ w \in Recorders
    /\ At(w, "idle") /\ budget > 0
    /\ budget'  = budget - 1
    /\ charged' = [ks \in KS |-> charged[ks] + loss]
    /\ Goes(w, [Idle EXCEPT !.job = "record", !.at = "getOwn",
                            !.loss = loss, !.limits = limits])
    /\ UNCHANGED <<left, own, shared, active, crashes>>

StartOther(w, job) ==
    /\ job \in Jobs \ {"record"}
    /\ At(w, "idle") /\ budget > 0
    /\ budget' = budget - 1
    /\ Goes(w, [Idle EXCEPT !.job = job,
                            !.at = IF job = "risk" THEN "riskRead" ELSE "getOwn"])
    /\ UNCHANGED <<left, own, shared, active, crashes, charged>>

\* GET of the switch's own key; without one, the shared halt is asked next.
GetOwn(w) ==
    LET j == work[w] IN
    /\ At(w, "getOwn")
    /\ Goes(w, IF own[j.ks].present THEN Decide(j, own[j.ks])
               ELSE [j EXCEPT !.at = "getShared"])
    /\ Stays /\ UNCHANGED <<own, shared, active>>

\* GET of the shared halt, which counts only if it carries the switch's trigger.
GetShared(w) ==
    LET j == work[w] IN
    /\ At(w, "getShared")
    /\ Goes(w, Decide(j, View([own EXCEPT ![j.ks] = NoKey], shared, j.ks)))
    /\ Stays /\ UNCHANGED <<own, shared, active>>

\* SET of the switch's own key, with the expiry computed now.
SetOwn(w) ==
    LET j   == work[w]
        key == IF j.key.halted THEN [j.key EXCEPT !.ttl = Ttl(j.key.until)] ELSE j.key
    IN
    /\ At(w, "setOwn")
    /\ own' = [own EXCEPT ![j.ks] = key]
    /\ Goes(w, [j EXCEPT !.at = IF key.halted THEN "setShared" ELSE "peekShared"])
    /\ Stays /\ UNCHANGED <<shared, active>>

\* A halting switch overwrites the shared halt ...
SetShared(w) ==
    LET j == work[w] IN
    /\ At(w, "setShared")
    /\ shared' = HaltFor(j.ks, j.key.until)
    /\ Goes(w, Advance(j))
    /\ Stays /\ UNCHANGED <<own, active>>

\* ... any other write looks whose the shared halt is ...
PeekShared(w) ==
    LET j == work[w] IN
    /\ At(w, "peekShared")
    /\ Goes(w, IF shared.trigger \in KS THEN [j EXCEPT !.at = "peekOther"]
               ELSE Advance(j))
    /\ Stays /\ UNCHANGED <<own, shared, active>>

\* ... then whether the other switch is halted ...
PeekOther(w) ==
    LET j == work[w] IN
    /\ At(w, "peekOther")
    /\ Goes(w, IF own[Other(j.ks)].halted THEN Advance(j)
               ELSE [j EXCEPT !.at = "delShared"])
    /\ Stays /\ UNCHANGED <<own, shared, active>>

\* ... and deletes it, whatever it is by now.
DelShared(w) ==
    /\ At(w, "delShared")
    /\ shared' = NoHalt
    /\ Goes(w, Advance(work[w]))
    /\ Stays /\ UNCHANGED <<own, active>>

\* The database update that ends a refused trade, or a resume.
Flag(w) ==
    /\ At(w, "flag")
    /\ active' = (work[w].job = "resume")
    /\ Goes(w, Idle)
    /\ Stays /\ UNCHANGED <<own, shared>>

\* The risk engine's CHECK 0, then the halt that a later check writes.
RiskRead(w) ==
    /\ At(w, "riskRead")
    /\ Goes(w, IF shared.trigger = "none" THEN [work[w] EXCEPT !.at = "riskSet"]
               ELSE Idle)
    /\ Stays /\ UNCHANGED <<own, shared, active>>

RiskSet(w, ks) ==
    /\ At(w, "riskSet")
    /\ shared' = HaltFor(ks, left[ks])
    /\ Goes(w, Idle)
    /\ Stays /\ UNCHANGED <<own, active>>

Command(w) ==
    \/ GetOwn(w) \/ GetShared(w) \/ SetOwn(w) \/ SetShared(w)
    \/ PeekShared(w) \/ PeekOther(w) \/ DelShared(w) \/ Flag(w)
    \/ RiskRead(w) \/ (\E ks \in KS : RiskSet(w, ks))

(***************************** time and failures ********************************)

\* Keys age, and so does the end of the halt a worker is about to write.
Tick ==
    /\ left'   = [ks \in KS |-> IF left[ks] = 1 THEN Period(ks) ELSE left[ks] - 1]
    /\ own'    = [ks \in KS |-> Aged(own[ks], NoKey)]
    /\ shared' = Aged(shared, NoHalt)
    /\ work'   = [w \in Workers |->
                    [work[w] EXCEPT !.key.until = IF @ = 0 THEN 0 ELSE @ - 1]]
    /\ UNCHANGED <<active, budget, crashes, charged>>

\* The worker is killed; its handler is not taken up again.
Crash(w) ==
    /\ ~At(w, "idle") /\ crashes > 0
    /\ crashes' = crashes - 1
    /\ Goes(w, Idle)
    /\ UNCHANGED <<left, own, shared, active, budget, charged>>

Next ==
    \/ \E w \in Workers, loss \in Losses, limits \in Limits :
           StartRecord(w, loss, limits)
    \/ \E w \in Workers, job \in Jobs : StartOther(w, job)
    \/ \E w \in Workers : Command(w)
    \/ Tick
    \/ \E w \in Workers : Crash(w)

Spec == Init /\ [][Next]_vars
\* Time passes and no worker stops in the middle of a handler for ever (a killed
\* one has left it).
FairSpec == Spec /\ WF_vars(Tick) /\ \A w \in Workers : WF_vars(Command(w))

(********************************* properties ***********************************)

\* Races may lose losses but never invent any: no interleaving of read-modify-
\* writes (kill_switch.py record_loss) books more than what trades have lost.
NoInventedLoss == \A ks \in KS : own[ks].loss <= charged[ks]

\* kill_switch.py:7-8: a triggered switch stops trading until its boundary; only
\* time ends the halt, in its last second at the earliest.
HaltKept ==
    \A ks \in KS :
        Binding(own[ks]) /\ ~Binding(own'[ks]) => Tick /\ own[ks].until <= Second

HaltSurvivesRaces == [][HaltKept]_vars

\* No interleaving leaves a loss halt in force for ever: neither a torn pair of
\* keys nor a killed worker blocks the user beyond the period.
NoHaltForEver ==
    \A ks \in KS : Blocked(own, shared, ks) ~> ~Blocked(own, shared, ks)
================================================================================
