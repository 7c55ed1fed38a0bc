------------------------------- MODULE HaltStore -------------------------------
(* The Redis keys through which the safety layer (backend/app/safety) and the    *)
(* risk engine (agents/risk) stop one user's trading, and what one call on them  *)
(* computes.                                                                     *)
(*                                                                               *)
(*   own[ks]   safety:ks:daily:{user} and safety:ks:weekly:{user}, read and      *)
(*             written by the loss switches only;                                *)
(*   shared    risk:halt:{user}, written by both sides.                          *)
(*                                                                               *)
(* Time is relative: `until` and `ttl` count the ticks left, a tick being        *)
(* 1/Second of a second, because Redis expiries are whole seconds and the        *)
(* truncation is part of what the code does.  ttl = 0 means "no expiry".         *)
EXTENDS Integers

CONSTANTS
    Second,   \* ticks in a second, the unit of a Redis expiry
    Day,      \* ticks in a trading day, 00:00 UTC to 00:00 UTC
    Week      \* ticks in a trading week, Monday to Monday

ASSUME SecondAssumption == Second \in Nat \ {0}
ASSUME DayAssumption    == Day \in Nat \ {0}
ASSUME WeekAssumption   == Week \in Nat \ {0}

\* The two loss switches; each name is also the trigger the switch writes.
KS == {"daily", "weekly"}
Other(ks) == IF ks = "daily" THEN "weekly" ELSE "daily"
Period(ks) == IF ks = "daily" THEN Day ELSE Week

\* Triggers only the risk engine writes: halts that wait for a manual resume.
ManualTriggers == {"consecutive", "manual"}

OwnKey == [present : BOOLEAN, halted : BOOLEAN, until : Nat, ttl : Nat,
           loss : Nat, limit : Nat]
Halt == [trigger : KS \cup ManualTriggers \cup {"none"}, until : Nat, ttl : Nat]

\* An absent key reads as the default state; Fresh is that state, written back.
NoKey  == [present |-> FALSE, halted |-> FALSE, until |-> 0, ttl |-> 0,
           loss |-> 0, limit |-> 0]
Fresh  == [NoKey EXCEPT !.present = TRUE]
NoHalt == [trigger |-> "none", until |-> 0, ttl |-> 0]

\* Variant: every expiry a second long.
TtlOneSecond(until) == Second

\* max(1, int(remaining)) seconds: whole seconds, rounded down, at least one.
Ttl(until) == IF until < Second THEN Second ELSE until - (until % Second)

HaltFor(trigger, until) ==
    [trigger |-> trigger, until |-> until, ttl |-> Ttl(until)]
ManualHalt(trigger) == [trigger |-> trigger, until |-> 0, ttl |-> 0]

\* What get_daily_kill_switch / get_weekly_kill_switch return: the switch's own
\* key, else the shared halt when the risk engine wrote it for this switch.
View(own, shared, ks) ==
    IF own[ks].present THEN own[ks]
    ELSE IF shared.trigger = ks
         THEN [NoKey EXCEPT !.halted = TRUE, !.until = shared.until]
         ELSE NoKey

\* A halt binds while its end lies in the future.
Binding(key) == key.halted /\ key.until > 0
Blocked(own, shared, ks) == Binding(View(own, shared, ks))

\* _sync_shared_halt: a halting switch overwrites the shared halt; any other
\* write deletes it, unless another trigger wrote it or the other switch is
\* still halted.
SyncShared(own, shared, ks, key) ==
    IF key.halted THEN HaltFor(ks, key.until)
    ELSE IF shared.trigger \in KS /\ ~own[Other(ks)].halted
         THEN NoHalt
         ELSE shared

\* set_daily_kill_switch / set_weekly_kill_switch, as the pair of keys after it.
SetSwitch(own, shared, ks, key) ==
    [own    |-> [own EXCEPT ![ks] = key],
     shared |-> SyncShared(own, shared, ks, key)]

\* Variants: the limit only counts once exceeded; a loss is added when read and
\* again when written.
RecordedPastLimit(seen, loss, limit, boundary) ==
    LET total == (IF seen.halted THEN 0 ELSE seen.loss) + loss
        hit   == limit > 0 /\ total > limit
    IN  [present |-> TRUE, halted |-> hit,
         until |-> IF hit THEN boundary ELSE 0,
         ttl   |-> IF hit THEN Ttl(boundary) ELSE 0,
         loss  |-> total, limit |-> limit]
RecordedTwice(seen, loss, limit, boundary) ==
    LET total == seen.loss + 2 * loss
        hit   == limit > 0 /\ total >= limit
    IN  [present |-> TRUE, halted |-> hit,
         until |-> IF hit THEN boundary ELSE 0,
         ttl   |-> IF hit THEN Ttl(boundary) ELSE 0,
         loss  |-> total, limit |-> limit]

\* The key that record_loss writes for a loss, given what it read; `boundary` is
\* the distance to the switch's next 00:00 UTC (day or Monday).
Recorded(seen, loss, limit, boundary) ==
    LET total == (IF seen.halted THEN 0 ELSE seen.loss) + loss
        hit   == limit > 0 /\ total >= limit
    IN  [present |-> TRUE, halted |-> hit,
         until |-> IF hit THEN boundary ELSE 0,
         ttl   |-> IF hit THEN Ttl(boundary) ELSE 0,
         loss  |-> total, limit |-> limit]

\* Variant: a loss is recorded while the switch is halted, too.
RecordLossAlways(own, shared, ks, loss, limit, boundary) ==
    SetSwitch(own, shared, ks, Recorded(View(own, shared, ks), loss, limit, boundary))

\* record_loss: skipped while the switch is halted.
RecordLoss(own, shared, ks, loss, limit, boundary) ==
    IF Blocked(own, shared, ks)
    THEN [own |-> own, shared |-> shared]
    ELSE SetSwitch(own, shared, ks,
                   Recorded(View(own, shared, ks), loss, limit, boundary))

\* Variant: a check resets any halt, without looking at its end.
CheckSwitchAnyHalt(own, shared, ks) ==
    IF View(own, shared, ks).halted
    THEN SetSwitch(own, shared, ks, Fresh)
    ELSE [own |-> own, shared |-> shared]

\* check: a halt past its end is reset, anything else only read.
CheckSwitch(own, shared, ks) ==
    LET seen == View(own, shared, ks)
    IN  IF seen.halted /\ seen.until = 0
        THEN SetSwitch(own, shared, ks, Fresh)
        ELSE [own |-> own, shared |-> shared]

\* Variant: a duration is stored where an end was meant, without an expiry.
AgedNever(key, gone) == key

\* One tick on a key: the time to its end shrinks, and Redis drops the key at the
\* end of its ttl.
Aged(key, gone) ==
    IF key.ttl = 1 THEN gone
    ELSE [key EXCEPT !.ttl   = IF @ = 0 THEN 0 ELSE @ - 1,
                     !.until = IF @ = 0 THEN 0 ELSE @ - 1]
================================================================================
