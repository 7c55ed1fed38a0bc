------------------------------ MODULE SafetyLayer ------------------------------
(* The live-trading safety layer for one user, each handler taken as one step:   *)
(* SafetyGate, its daily and weekly loss switches, the adapter that feeds it     *)
(* closed trades and keeps the database flag in step, the risk engine's halts    *)
(* on the shared key, the operator's kill switches and the user's resume.        *)
(* SafetyRace takes the same handlers apart into their Redis commands.           *)
EXTENDS HaltStore

CONSTANTS
    Losses,     \* loss of a closed trade, 0 standing for a profit
    Limits,     \* the [daily, weekly] limits a trade event can carry
    LossCap,    \* bound: no switch accumulates more than this
    Raisable,   \* bound: the untimed stops an instance exercises
    AdminResets \* whether anyone calls the gate's resets directly (in this
                \* repository only resume_auto_trading calls them)

\* Stops that stay until somebody (or, for the cooldown and the exchange outage,
\* a timer of their own) lifts them.
Stops == {"global", "user", "cooldown", "emergency", "disconnect", "drawdown"}

ASSUME LossesAssumption   == Losses \subseteq Nat
ASSUME LimitsAssumption   == Limits \subseteq [KS -> Nat]
ASSUME LossCapAssumption  == LossCap \in Nat
ASSUME RaisableAssumption == Raisable \subseteq Stops
ASSUME AdminAssumption    == AdminResets \in BOOLEAN

VARIABLES
    left,     \* left[ks]: ticks to the switch's next boundary (midnight, Monday)
    own,      \* the switches' own keys
    shared,   \* the shared halt key
    raised,   \* the untimed stops in force
    active,   \* UserSettings.is_trading_active
    counted   \* history: losses recorded since the switch was last empty

vars == <<left, own, shared, raised, active, counted>>

TypeOK ==
    /\ left    \in [KS -> Nat \ {0}]
    /\ own     \in [KS -> OwnKey]
    /\ shared  \in Halt
    /\ raised  \subseteq Stops
    /\ active  \in BOOLEAN
    /\ counted \in [KS -> Nat]

Init ==
    /\ left    = [ks \in KS |-> Period(ks)]
    /\ own     = [ks \in KS |-> NoKey]
    /\ shared  = NoHalt
    /\ raised  = {}
    /\ active  = TRUE
    /\ counted = [ks \in KS |-> 0]

\* check_order_allowed(): no stop of the gate's is in force.
GateAllows ==
    /\ raised \cap {"emergency", "disconnect", "drawdown"} = {}
    /\ \A ks \in KS : ~Blocked(own, shared, ks)

\* check_kill_switch(): CHECK 0 of the risk engine.
RiskAllows ==
    /\ raised \cap {"global", "user"} = {}
    /\ shared.trigger = "none"

\* The losses counted, after a step that may have emptied a switch.
Kept(newOwn) ==
    [ks \in KS |-> IF Binding(own[ks]) /\ ~Binding(newOwn[ks])
                   THEN 0 ELSE counted[ks]]

(*********************************** time ***************************************)

Tick ==
    /\ left'   = [ks \in KS |-> IF left[ks] = 1 THEN Period(ks) ELSE left[ks] - 1]
    /\ own'    = [ks \in KS |-> Aged(own[ks], NoKey)]
    /\ shared' = Aged(shared, NoHalt)
    /\ counted' = Kept(own')
    /\ UNCHANGED <<raised, active>>

(****************************** the safety layer ********************************)

\* SafetyGateAdapter.on_trade_executed: both switches record a loss, the drawdown
\* guard sees the balance (`dd`: it is at or past the halt threshold), and any
\* refusal among the three turns automatic trading off in the database.
TradeClosed(loss, limits, dd) ==
    LET d == IF loss > 0
             THEN RecordLoss(own, shared, "daily", loss, limits["daily"], left["daily"])
             ELSE [own |-> own, shared |-> shared]
        w == IF loss > 0
             THEN RecordLoss(d.own, d.shared, "weekly", loss, limits["weekly"],
                             left["weekly"])
             ELSE d
        refused(ks, o, s) == loss > 0 /\ Blocked(o, s, ks)
    IN
    /\ \A ks \in KS : own[ks].loss + loss <= LossCap
    /\ dd => "drawdown" \in Raisable \cup raised
    /\ own'    = w.own
    /\ shared' = w.shared
    /\ raised' = IF dd THEN raised \cup {"drawdown"} ELSE raised
    /\ active' = (active /\ ~refused("daily", d.own, d.shared)
                         /\ ~refused("weekly", w.own, w.shared)
                         /\ "drawdown" \notin raised')
    /\ counted' = [ks \in KS |->
                     IF \/ ks = "daily" /\ Blocked(own, shared, ks)
                        \/ ks = "weekly" /\ Blocked(d.own, d.shared, ks)
                     THEN counted[ks] ELSE counted[ks] + loss]
    /\ UNCHANGED left

\* check_order_allowed: the first refusal ends it; on the way it resets a halt
\* that has run out.
CheckOrder ==
    LET d == CheckSwitch(own, shared, "daily")
        w == IF Blocked(own, shared, "daily")
             THEN d
             ELSE CheckSwitch(d.own, d.shared, "weekly")
    IN
    /\ raised \cap {"emergency", "disconnect"} = {}
    /\ own'    = w.own
    /\ shared' = w.shared
    /\ UNCHANGED <<left, raised, active, counted>>

\* Variant: resuming looks at, and empties, the daily switch only.
ResumeDailyOnly ==
    LET d == SetSwitch(own, shared, "daily", Fresh) IN
    /\ ~Blocked(own, shared, "daily")
    /\ own'     = d.own
    /\ shared'  = d.shared
    /\ active'  = TRUE
    /\ counted' = [counted EXCEPT !["daily"] = 0]
    /\ UNCHANGED <<left, raised>>

\* resume_auto_trading: refused while either switch is blocked, else both are
\* emptied and the database flag is set.
Resume ==
    LET d == SetSwitch(own, shared, "daily", Fresh)
        w == SetSwitch(d.own, d.shared, "weekly", Fresh)
    IN
    /\ \A ks \in KS : ~Blocked(own, shared, ks)
    /\ own'     = w.own
    /\ shared'  = w.shared
    /\ active'  = TRUE
    /\ counted' = [ks \in KS |-> 0]
    /\ UNCHANGED <<left, raised>>

\* reset_daily_switch / reset_weekly_switch, the administrator's override.
AdminReset(ks) ==
    LET s == SetSwitch(own, shared, ks, Fresh) IN
    /\ AdminResets
    /\ own'     = s.own
    /\ shared'  = s.shared
    /\ counted' = [counted EXCEPT ![ks] = 0]
    /\ UNCHANGED <<left, raised, active>>

\* trigger_emergency / deactivate_emergency: the global key follows the flag,
\* whoever set it.
EmergencyOn ==
    /\ "emergency" \in Raisable
    /\ raised' = raised \cup {"emergency", "global"}
    /\ UNCHANGED <<left, own, shared, active, counted>>

EmergencyOff ==
    /\ "emergency" \in Raisable
    /\ raised' = raised \ {"emergency", "global"}
    /\ UNCHANGED <<left, own, shared, active, counted>>

\* resume_drawdown.
ResumeDrawdown ==
    /\ raised' = raised \ {"drawdown"}
    /\ UNCHANGED <<left, own, shared, active, counted>>

(****************** the risk engine, the operator and the outage ****************)

\* RiskEngine.validate past CHECK 0, on a path that stops trading.  The losses it
\* judges and the activity flag are the caller's snapshot, so neither constrains
\* which halt it writes.
RiskHalts(trigger) ==
    /\ RiskAllows
    /\ shared' = IF trigger = "consecutive" THEN ManualHalt(trigger)
                 ELSE HaltFor(trigger, left[trigger])
    /\ UNCHANGED <<left, own, raised, active, counted>>

\* CHECK 9 with three or four losses in a row: a cooldown, no halt.
RiskCoolsDown ==
    /\ RiskAllows
    /\ "cooldown" \in Raisable
    /\ raised' = raised \cup {"cooldown"}
    /\ UNCHANGED <<left, own, shared, active, counted>>

\* emergency_stop: the user kill switch, and a manual halt over whatever is there.
OperatorStop ==
    /\ "user" \in Raisable
    /\ raised' = raised \cup {"user"}
    /\ shared' = ManualHalt("manual")
    /\ UNCHANGED <<left, own, active, counted>>

\* resume_trading: deletes the halt, the user kill switch and the cooldown.
OperatorResume ==
    /\ "user" \in Raisable
    /\ raised' = raised \ {"user", "cooldown"}
    /\ shared' = NoHalt
    /\ UNCHANGED <<left, own, active, counted>>

GlobalOn ==
    /\ "global" \in Raisable
    /\ raised' = raised \cup {"global"}
    /\ UNCHANGED <<left, own, shared, active, counted>>

GlobalOff ==
    /\ "global" \in Raisable
    /\ raised' = raised \ {"global"}
    /\ UNCHANGED <<left, own, shared, active, counted>>

\* The exchange-outage guard, seen from the gate (its counter is a module of its
\* own), and the end of a cooldown.
Outage ==
    /\ "disconnect" \in Raisable
    /\ raised' = raised \cup {"disconnect"}
    /\ UNCHANGED <<left, own, shared, active, counted>>

Lapses(stop) ==
    /\ stop \in raised
    /\ raised' = raised \ {stop}
    /\ UNCHANGED <<left, own, shared, active, counted>>

\* Everything that happens without the administrator's override.
Handlers ==
    \/ Tick
    \/ \E loss \in Losses, limits \in Limits, dd \in BOOLEAN :
           TradeClosed(loss, limits, dd)
    \/ CheckOrder
    \/ Resume
    \/ EmergencyOn \/ EmergencyOff \/ ResumeDrawdown
    \/ \E trigger \in KS \cup {"consecutive"} : RiskHalts(trigger)
    \/ RiskCoolsDown \/ OperatorStop \/ OperatorResume
    \/ GlobalOn \/ GlobalOff \/ Outage
    \/ \E stop \in {"cooldown", "disconnect"} : Lapses(stop)

Next == Handlers \/ \E ks \in KS : AdminReset(ks)

Spec == Init /\ [][Next]_vars

(********************************* properties ***********************************)

\* The gate never lets an order through once the losses recorded since a switch
\* was last empty have reached its limit (kill_switch.py record_loss and check,
\* gate.py check_order_allowed), whatever was written to the keys in between.
LossLimitEnforced ==
    \A ks \in KS :
        own[ks].limit > 0 /\ counted[ks] >= own[ks].limit
            => ~GateAllows

\* A halted switch ends at the boundary it was set for, and Redis forgets its key
\* less than a second before that (state.py _compute_ttl rounds down).
ExpiryTracksBoundary ==
    \A ks \in KS : Binding(own[ks]) =>
        /\ own[ks].until = left[ks]
        /\ own[ks].until - own[ks].ttl < Second
        /\ own[ks].ttl - own[ks].until < Second

\* Automatic trading is off in the database as long as a loss halt binds: the
\* adapter turned it off and resume_auto_trading refuses to turn it on.
HaltKeepsTradingOff ==
    (\E ks \in KS : Binding(own[ks])) => ~active

\* What a step may never do: end a binding loss halt of a switch's own, other than
\* by the administrator's reset or by time, and then within a second of the end.
\* No halt of the risk engine, no operator's resume, no user's resume, no order
\* check and no write of the other switch does.
HaltHoldsUntilBoundary ==
    [][\A ks \in KS :
         Binding(own[ks]) /\ ~Binding(own'[ks]) =>
             \/ AdminReset(ks)
             \/ Tick /\ own[ks].until <= Second]_vars
================================================================================
