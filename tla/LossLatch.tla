------------------------------- MODULE LossLatch -------------------------------
(* What a loss switch promises, without keys, expiries or the risk engine: it    *)
(* adds up losses while open, shuts when they reach the limit of the moment, and *)
(* once shut opens again only at the end of its period (Slack early at most) or  *)
(* when somebody is entitled to open it.                                         *)
EXTENDS Integers

CONSTANTS
    Length,   \* length of the switch's period
    Slack,    \* how much too early the period may be taken to end
    Losses,   \* the losses that can happen
    Limits    \* the limits a loss can be judged by; 0 is none

VARIABLES
    total,    \* losses added up since the latch was last emptied
    shut,     \* the latch is shut
    remains,  \* how long it is to the end of the period
    override  \* whether somebody may empty a shut latch

vars == <<total, shut, remains, override>>

Init == total = 0 /\ shut = FALSE /\ remains = Length /\ override \in BOOLEAN

\* A loss while open: the latch shuts exactly when the limit of this loss is met.
Lose(loss, limit) ==
    /\ ~shut
    /\ total' = total + loss
    /\ shut'  = (limit > 0 /\ total' >= limit)
    /\ UNCHANGED <<remains, override>>

\* Emptied: an open latch by anyone, a shut one by the override only.
Empty ==
    /\ shut => override
    /\ total' = 0
    /\ shut'  = FALSE
    /\ UNCHANGED <<remains, override>>

\* Time passes; a shut latch opens when the period ends, or just before, and
\* stays shut until then.
Pass ==
    /\ remains' = IF remains = 1 THEN Length ELSE remains - 1
    /\ IF shut
       THEN \/ remains <= Slack /\ shut' = FALSE /\ total' = 0
            \/ remains > 1 /\ UNCHANGED <<total, shut>>
       ELSE UNCHANGED <<total, shut>>
    /\ UNCHANGED override

Next ==
    \/ \E loss \in Losses, limit \in Limits : Lose(loss, limit)
    \/ Empty \/ Pass

Spec == Init /\ [][Next]_vars
================================================================================
