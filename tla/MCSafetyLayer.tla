----------------------------- MODULE MCSafetyLayer -----------------------------
(* Two situations in one graph, chosen at the start and kept: with the             *)
(* administrator's override and every stop there is, or without the override.      *)
EXTENDS SafetyLayer, FiniteSets

CONSTANT MaxRaised   \* bound: stops in force at once

VARIABLE admin   \* somebody calls the gate's resets directly

all == <<vars, admin>>

\* A limit of both switches, one that only the week reaches, and the zero limits
\* that an event with no balance produces (pipeline.py _fire_post_trade_hook).
MCLimits == {[ks \in KS |-> 2],
             [ks \in KS |-> IF ks = "daily" THEN 3 ELSE 2],
             [ks \in KS |-> 0]}

\* Without the override, fewer of the stops the switches know nothing of.
MCNext ==
    /\ \/ Handlers
       \/ admin /\ \E ks \in KS : AdminReset(ks)
    /\ Cardinality(raised') <= MaxRaised
    /\ admin \/ raised' \subseteq {"user", "drawdown"}
    /\ UNCHANGED admin
MCInit == Init /\ admin \in BOOLEAN
MCSpec == MCInit /\ [][MCNext]_all

\* Seen from outside, each switch is a latch: it adds up losses, shuts when they
\* reach the limit, and opens at the end of its period or by the override, whatever
\* the risk engine and the other switch write to the keys (kill_switch.py, state.py).
DailyLatch == INSTANCE LossLatch WITH
    Length <- Day, Slack <- Second,
    Losses <- Losses \ {0}, Limits <- {limits["daily"] : limits \in Limits},
    shut <- Binding(own["daily"]), remains <- left["daily"], override <- admin,
    total <- IF own["daily"].until = 0 /\ own["daily"].halted
             THEN 0 ELSE own["daily"].loss
WeeklyLatch == INSTANCE LossLatch WITH
    Length <- Week, Slack <- Second,
    Losses <- Losses \ {0}, Limits <- {limits["weekly"] : limits \in Limits},
    shut <- Binding(own["weekly"]), remains <- left["weekly"], override <- admin,
    total <- IF own["weekly"].until = 0 /\ own["weekly"].halted
             THEN 0 ELSE own["weekly"].loss
SwitchesAreLatches == DailyLatch!Spec /\ WeeklyLatch!Spec
================================================================================
