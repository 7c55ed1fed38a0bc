--------------------------- MODULE SafetyLayerProofs ---------------------------
(* Proofs about SafetyLayer for every length of the day and the week, every      *)
(* grain of the clock, every set of losses, limits and stops: its invariants,    *)
(* its action property, and that it implements LossLatch for each switch.        *)
EXTENDS MCSafetyLayer, TLAPS

(* What is true of a switch's own key between any two handlers, relative to the  *)
(* time its boundary is away and to the losses counted since it was last empty.  *)
KeyInv(key, remains, count) ==
    /\ key \in OwnKey
    /\ ~key.present => key = NoKey /\ count = 0
    /\ key.present /\ ~key.halted =>
          /\ key.ttl = 0 /\ key.until = 0
          /\ key.limit = 0 \/ key.loss < key.limit
          /\ count <= key.loss
    /\ key.halted => key.present /\ key.ttl > 0
    /\ key.halted /\ key.until = 0 => count = 0
    /\ Binding(key) => /\ key.until = remains
                       /\ key.until - key.ttl < Second
                       /\ key.ttl - key.until < Second

Inv ==
    /\ TypeOK
    /\ \A ks \in KS : KeyInv(own[ks], left[ks], counted[ks])
    /\ HaltKeepsTradingOff

--------------------------------------------------------------------------------

(* _compute_ttl: an expiry is at least one second, and rounds the time left down *)
(* by less than a second.                                                        *)
LEMMA TtlBounds ==
    ASSUME NEW until \in Nat \ {0}
    PROVE  /\ Ttl(until) \in Nat \ {0}
           /\ until - Ttl(until) < Second
           /\ Ttl(until) - until < Second
<1>1. Second \in Nat /\ Second > 0
  BY SecondAssumption
<1>2. CASE until < Second
  BY <1>1, <1>2 DEF Ttl
<1>3. CASE ~(until < Second)
  <2>1. until % Second \in 0 .. Second - 1
    BY <1>1
  <2>2. Ttl(until) = until - (until % Second)
    BY <1>3 DEF Ttl
  <2>. QED  BY <1>1, <1>3, <2>1, <2>2
<1>. QED  BY <1>2, <1>3

(* The constants of the store are well typed.                                    *)
LEMMA KeyTypes ==
    /\ NoKey \in OwnKey /\ Fresh \in OwnKey /\ NoHalt \in Halt
    /\ \A ks \in KS : Other(ks) \in KS /\ Period(ks) \in Nat \ {0}
    /\ \A trigger \in ManualTriggers : ManualHalt(trigger) \in Halt
    /\ \A ks \in KS, until \in Nat \ {0} : HaltFor(ks, until) \in Halt
<1>1. \A until \in Nat \ {0} : Ttl(until) \in Nat
  BY TtlBounds
<1>. QED
  BY <1>1, DayAssumption, WeekAssumption
  DEF NoKey, Fresh, NoHalt, OwnKey, Halt, KS, Other, Period, ManualTriggers,
      ManualHalt, HaltFor

(* Writing a switch keeps the shared key well typed.                             *)
LEMMA SyncType ==
    ASSUME NEW o \in [KS -> OwnKey], NEW s \in Halt, NEW ks \in KS,
           NEW key \in OwnKey, key.halted => key.until > 0
    PROVE  SyncShared(o, s, ks, key) \in Halt
<1>1. key.until \in Nat
  BY DEF OwnKey
<1>. QED  BY <1>1, KeyTypes DEF SyncShared

(* The fresh key satisfies the invariant with nothing counted.                   *)
LEMMA FreshKey ==
    ASSUME NEW remains \in Nat \ {0}
    PROVE  KeyInv(Fresh, remains, 0) /\ ~Binding(Fresh)
BY KeyTypes DEF KeyInv, Fresh, NoKey, Binding
(* A recorded loss leaves a key that satisfies the invariant with that loss      *)
(* counted: the key is halted, to the right boundary, exactly when it must be.   *)
LEMMA RecordedKey ==
    ASSUME NEW o \in [KS -> OwnKey], NEW s \in Halt, NEW ks \in KS,
           NEW remains \in Nat \ {0}, NEW count \in Nat,
           KeyInv(o[ks], remains, count), ~Blocked(o, s, ks),
           NEW loss \in Nat, NEW limit \in Nat
    PROVE  LET key == Recorded(View(o, s, ks), loss, limit, remains)
           IN  /\ KeyInv(key, remains, count + loss)
               /\ key.halted => key.until > 0
<1> DEFINE seen  == View(o, s, ks)
           total == (IF seen.halted THEN 0 ELSE seen.loss) + loss
           hit   == limit > 0 /\ total >= limit
           key   == Recorded(seen, loss, limit, remains)
<1>1. total \in Nat /\ count + loss <= total
  <2>1. o[ks] \in OwnKey
    OBVIOUS
  <2>2. CASE o[ks].present
    <3>1. seen = o[ks]
      BY <2>2 DEF View
    <3>. QED
      BY <2>1, <2>2, <3>1 DEF KeyInv, Blocked, Binding, OwnKey
  <2>3. CASE ~o[ks].present
    <3>1. count = 0
      BY <2>3 DEF KeyInv
    <3>2. seen.loss = 0
      BY <2>3 DEF View, NoKey
    <3>. QED  BY <3>1, <3>2
  <2>. QED  BY <2>2, <2>3
<1>2. /\ key = [present |-> TRUE, halted |-> hit,
                until |-> IF hit THEN remains ELSE 0,
                ttl   |-> IF hit THEN Ttl(remains) ELSE 0,
                loss  |-> total, limit |-> limit]
      /\ hit \in BOOLEAN
  BY DEF Recorded
<1> HIDE DEF key, seen, total
<1>3. CASE hit
  <2>1. key = [present |-> TRUE, halted |-> TRUE, until |-> remains,
               ttl |-> Ttl(remains), loss |-> total, limit |-> limit]
    BY <1>2, <1>3
  <2>2. /\ Ttl(remains) \in Nat \ {0}
        /\ remains - Ttl(remains) < Second
        /\ Ttl(remains) - remains < Second
    BY TtlBounds
  <2>. HIDE DEF hit
  <2>3. KeyInv(key, remains, count + loss) /\ (key.halted => key.until > 0)
    BY <1>1, <2>1, <2>2 DEF KeyInv, OwnKey, Binding
  <2>. QED  BY <2>3 DEF key, seen
<1>4. CASE ~hit
  <2>1. key = [present |-> TRUE, halted |-> FALSE, until |-> 0, ttl |-> 0,
               loss |-> total, limit |-> limit]
    BY <1>2, <1>4
  <2>2. limit = 0 \/ total < limit
    BY <1>1, <1>4
  <2>. HIDE DEF hit
  <2>3. KeyInv(key, remains, count + loss) /\ (key.halted => key.until > 0)
    BY <1>1, <2>1, <2>2 DEF KeyInv, OwnKey, Binding
  <2>. QED  BY <2>3 DEF key, seen
<1>. QED  BY <1>3, <1>4

(* record_loss leaves the other switch's key alone, and its own either alone     *)
(* (blocked: nothing is counted) or with the loss counted.                       *)
LEMMA RecordLossStep ==
    ASSUME NEW o \in [KS -> OwnKey], NEW s \in Halt, NEW ks \in KS,
           NEW remains \in Nat \ {0}, NEW count \in Nat,
           KeyInv(o[ks], remains, count),
           NEW loss \in Nat, NEW limit \in Nat,
           NEW r, r = RecordLoss(o, s, ks, loss, limit, remains)
    PROVE  /\ r.own \in [KS -> OwnKey] /\ r.shared \in Halt
           /\ r.own[Other(ks)] = o[Other(ks)]
           /\ KeyInv(r.own[ks], remains,
                     IF Blocked(o, s, ks) THEN count ELSE count + loss)
           /\ Binding(r.own[ks]) => Blocked(r.own, r.shared, ks)
<1> DEFINE key == Recorded(View(o, s, ks), loss, limit, remains)
<1>0. Other(ks) \in KS /\ Other(ks) # ks
  BY DEF KS, Other
<1>1. CASE Blocked(o, s, ks)
  <2>1. r.own = o /\ r.shared = s
    BY <1>1 DEF RecordLoss
  <2>2. Binding(o[ks]) => Blocked(o, s, ks)
    BY <1>1
  <2>. QED  BY <1>1, <2>1, <2>2
<1>2. CASE ~Blocked(o, s, ks)
  <2>1. r = SetSwitch(o, s, ks, key)
    BY <1>2 DEF RecordLoss
  <2>2. KeyInv(key, remains, count + loss) /\ (key.halted => key.until > 0)
    BY <1>2, RecordedKey
  <2>3. key \in OwnKey
    BY <2>2 DEF KeyInv
  <2> HIDE DEF key
  <2>4. r.own = [o EXCEPT ![ks] = key] /\ r.shared = SyncShared(o, s, ks, key)
    BY <2>1 DEF SetSwitch
  <2>5. r.shared \in Halt
    BY <2>2, <2>3, <2>4, SyncType
  <2>6. r.own \in [KS -> OwnKey] /\ r.own[ks] = key
        /\ r.own[Other(ks)] = o[Other(ks)]
    BY <1>0, <2>3, <2>4
  <2>7. Binding(key) => Blocked(r.own, r.shared, ks)
    BY <2>2, <2>6 DEF KeyInv, Binding, Blocked, View
  <2>8. KeyInv(r.own[ks], remains, IF Blocked(o, s, ks) THEN count ELSE count + loss)
    BY <1>2, <2>2, <2>6
  <2>. QED  BY <2>5, <2>6, <2>7, <2>8
<1>. QED  BY <1>1, <1>2
(* Aging a key by one tick while its boundary comes a tick nearer: a binding halt *)
(* is dropped, and its losses with it, only within a second of its end.          *)
LEMMA AgedKey ==
    ASSUME NEW key, NEW remains \in Nat \ {0}, NEW length \in Nat \ {0},
           NEW count \in Nat, KeyInv(key, remains, count)
    PROVE  LET next == Aged(key, NoKey)
               kept == IF Binding(key) /\ ~Binding(next) THEN 0 ELSE count
           IN  /\ KeyInv(next, IF remains = 1 THEN length ELSE remains - 1, kept)
               /\ Binding(next) => Binding(key)
               /\ Binding(key) /\ ~Binding(next) => key.until <= Second
<1> DEFINE next == Aged(key, NoKey)
           kept == IF Binding(key) /\ ~Binding(next) THEN 0 ELSE count
<1>0. key \in OwnKey /\ Second \in Nat \ {0}
  BY SecondAssumption DEF KeyInv
<1>1. CASE key.ttl = 1
  <2>1. next = NoKey
    BY <1>1 DEF Aged
  <2>2. ~Binding(next) /\ next \in OwnKey /\ ~next.present /\ ~next.halted
    BY <2>1, KeyTypes DEF Binding, NoKey
  <2>3. key.halted
    BY <1>1 DEF KeyInv, NoKey
  <2>4. kept = 0
    BY <2>2, <2>3 DEF KeyInv, Binding, OwnKey
  <2>5. Binding(key) => key.until <= Second
    BY <1>0, <1>1 DEF KeyInv, OwnKey
  <2>. QED  BY <2>1, <2>2, <2>4, <2>5 DEF KeyInv, Binding
<1>2. CASE key.ttl # 1
  <2> DEFINE ttl   == IF key.ttl = 0 THEN 0 ELSE key.ttl - 1
             until == IF key.until = 0 THEN 0 ELSE key.until - 1
  <2>1. next = [key EXCEPT !.ttl = ttl, !.until = until]
    BY <1>2 DEF Aged
  <2>0. ttl \in Nat /\ until \in Nat
    BY <1>0 DEF OwnKey
  <2>. HIDE DEF ttl, until, next
  <2>a. next = [present |-> key.present, halted |-> key.halted, until |-> until,
                ttl |-> ttl, loss |-> key.loss, limit |-> key.limit]
    BY <1>0, <2>1 DEF OwnKey
  <2>2. /\ next.present = key.present /\ next.halted = key.halted
        /\ next.loss = key.loss /\ next.limit = key.limit
        /\ next.ttl = IF key.ttl = 0 THEN 0 ELSE key.ttl - 1
        /\ next.until = IF key.until = 0 THEN 0 ELSE key.until - 1
        /\ next \in OwnKey
    BY <1>0, <2>0, <2>a DEF OwnKey, ttl, until
  <2>3. CASE ~key.present
    <3>1. key = NoKey /\ count = 0
      BY <2>3 DEF KeyInv
    <3>2. next = NoKey
      BY <2>a, <3>1 DEF NoKey, ttl, until
    <3>3. ~Binding(next) /\ ~Binding(key) /\ ~next.present /\ ~next.halted
      BY <3>1, <3>2 DEF Binding, NoKey
    <3>4. KeyInv(next, IF remains = 1 THEN length ELSE remains - 1, kept)
      BY <2>2, <3>1, <3>2, <3>3 DEF KeyInv
    <3>. QED  BY <3>3, <3>4 DEF next
  <2>4. CASE key.present /\ ~key.halted
    <3>1. ~Binding(next) /\ ~Binding(key)
      BY <2>2, <2>4 DEF Binding
    <3>2. KeyInv(next, IF remains = 1 THEN length ELSE remains - 1, kept)
      BY <1>0, <2>2, <2>4, <3>1 DEF KeyInv, OwnKey
    <3>. QED  BY <3>1, <3>2 DEF next
  <2>5. CASE key.halted
    <3>1. key.present /\ key.ttl \in Nat /\ key.ttl > 1 /\ key.until \in Nat
      BY <1>0, <1>2, <2>5 DEF KeyInv, OwnKey
    <3>2. CASE Binding(next)
      <4>1. Binding(key) /\ key.until > 1
        BY <2>2, <2>5, <3>1, <3>2 DEF Binding
      <4>2. KeyInv(next, IF remains = 1 THEN length ELSE remains - 1, kept)
        BY <1>0, <2>2, <3>1, <3>2, <4>1 DEF KeyInv
      <4>. QED  BY <3>2, <4>1, <4>2 DEF next
    <3>3. CASE ~Binding(next)
      <4>1. next.until = 0 /\ next.ttl > 0
        BY <2>2, <2>5, <3>1, <3>3 DEF Binding
      <4>2. kept = 0
        BY <2>5, <3>1, <3>3 DEF KeyInv, Binding
      <4>3. KeyInv(next, IF remains = 1 THEN length ELSE remains - 1, kept)
        BY <1>0, <2>2, <2>5, <3>1, <3>3, <4>1, <4>2 DEF KeyInv
      <4>4. Binding(key) => key.until <= Second
        BY <1>0, <2>2, <3>1, <4>1
      <4>. QED  BY <3>3, <4>3, <4>4 DEF next
    <3>. QED  BY <3>2, <3>3
  <2>. QED  BY <2>3, <2>4, <2>5, <1>0 DEF KeyInv, OwnKey
<1>. QED  BY <1>1, <1>2
(* Aging keeps the shared key well typed.                                        *)
LEMMA AgedHalt == ASSUME NEW s \in Halt PROVE Aged(s, NoHalt) \in Halt
<1> DEFINE ttl   == IF s.ttl = 0 THEN 0 ELSE s.ttl - 1
           until == IF s.until = 0 THEN 0 ELSE s.until - 1
<1>1. ttl \in Nat /\ until \in Nat
  BY DEF Halt
<1>2. Aged(s, NoHalt) = NoHalt \/ Aged(s, NoHalt) = [s EXCEPT !.ttl = ttl, !.until = until]
  BY DEF Aged
<1>. HIDE DEF ttl, until
<1>3. [s EXCEPT !.ttl = ttl, !.until = until] \in Halt
  BY <1>1 DEF Halt
<1>. QED  BY <1>2, <1>3, KeyTypes

(* Emptying a switch (a reset, or a check that finds the halt past its end).     *)
LEMMA EmptiedSwitch ==
    ASSUME NEW o \in [KS -> OwnKey], NEW s \in Halt, NEW ks \in KS
    PROVE  LET r == SetSwitch(o, s, ks, Fresh)
           IN  /\ r.own \in [KS -> OwnKey] /\ r.shared \in Halt
               /\ r.own[ks] = Fresh /\ r.own[Other(ks)] = o[Other(ks)]
<1>1. Other(ks) \in KS /\ Other(ks) # ks
  BY DEF KS, Other
<1>2. Fresh \in OwnKey /\ ~Fresh.halted
  BY KeyTypes DEF Fresh, NoKey
<1>3. SyncShared(o, s, ks, Fresh) \in Halt
  BY <1>2, SyncType
<1>. QED  BY <1>1, <1>2, <1>3 DEF SetSwitch

(* An order check changes a switch only by emptying one whose halt has run out.  *)
LEMMA CheckedSwitch ==
    ASSUME NEW o \in [KS -> OwnKey], NEW s \in Halt, NEW ks \in KS,
           NEW remains \in Nat \ {0}, NEW count \in Nat,
           KeyInv(o[ks], remains, count)
    PROVE  LET r == CheckSwitch(o, s, ks)
           IN  /\ r.own \in [KS -> OwnKey] /\ r.shared \in Halt
               /\ r.own[Other(ks)] = o[Other(ks)]
               /\ KeyInv(r.own[ks], remains, count)
               /\ Binding(r.own[ks]) <=> Binding(o[ks])
<1> DEFINE seen == View(o, s, ks)
<1>1. CASE seen.halted /\ seen.until = 0
  <2>1. CheckSwitch(o, s, ks) = SetSwitch(o, s, ks, Fresh)
    BY <1>1 DEF CheckSwitch
  <2>2. count = 0
    BY <1>1 DEF KeyInv, View, NoKey
  <2>3. ~Binding(o[ks])
    BY <1>1 DEF KeyInv, View, NoKey, Binding
  <2>4. KeyInv(Fresh, remains, count) /\ ~Binding(Fresh)
    BY <2>2, FreshKey
  <2>. QED  BY <2>1, <2>3, <2>4, EmptiedSwitch
<1>2. CASE ~(seen.halted /\ seen.until = 0)
  <2>1. CheckSwitch(o, s, ks) = [own |-> o, shared |-> s]
    BY <1>2 DEF CheckSwitch
  <2>2. Other(ks) \in KS
    BY KeyTypes
  <2>. QED  BY <2>1, <2>2
<1>. QED  BY <1>1, <1>2

--------------------------------------------------------------------------------

(* The invariant holds at the start: no key, nothing counted.                    *)
LEMMA InvInit == Init => Inv
<1> SUFFICES ASSUME Init PROVE Inv
  OBVIOUS
<1>1. ~NoKey.present /\ ~NoKey.halted /\ NoKey.until = 0
  BY DEF NoKey
<1>2. TypeOK
  BY KeyTypes DEF Init, TypeOK
<1>3. \A ks \in KS : KeyInv(own[ks], left[ks], counted[ks])
  BY <1>1, KeyTypes DEF Init, KeyInv, Binding
<1>4. HaltKeepsTradingOff
  BY <1>1 DEF Init, HaltKeepsTradingOff, Binding
<1>. QED  BY <1>2, <1>3, <1>4 DEF Inv
(* A tick keeps the invariant; it ends a binding halt only within a second of    *)
(* its end.                                                                      *)
LEMMA InvTick ==
    ASSUME Inv, Tick
    PROVE  /\ Inv'
           /\ \A ks \in KS : Binding(own[ks]) /\ ~Binding(own'[ks])
                              => own[ks].until <= Second
<1>1. \A ks \in KS : left[ks] \in Nat \ {0} /\ Period(ks) \in Nat \ {0}
                     /\ counted[ks] \in Nat /\ KeyInv(own[ks], left[ks], counted[ks])
  BY KeyTypes DEF Inv, TypeOK
<1>2. /\ own'     = [ks \in KS |-> Aged(own[ks], NoKey)]
      /\ left'    = [ks \in KS |-> IF left[ks] = 1 THEN Period(ks) ELSE left[ks] - 1]
      /\ counted' = [ks \in KS |-> IF Binding(own[ks]) /\ ~Binding(own'[ks])
                                   THEN 0 ELSE counted[ks]]
      /\ shared'  = Aged(shared, NoHalt)
      /\ UNCHANGED <<raised, active>>
  BY DEF Tick, Kept
<1>3. \A ks \in KS :
         /\ KeyInv(own'[ks], left'[ks], counted'[ks])
         /\ Binding(own'[ks]) => Binding(own[ks])
         /\ Binding(own[ks]) /\ ~Binding(own'[ks]) => own[ks].until <= Second
  <2> TAKE ks \in KS
  <2>1. /\ own'[ks] = Aged(own[ks], NoKey)
        /\ left'[ks] = IF left[ks] = 1 THEN Period(ks) ELSE left[ks] - 1
        /\ counted'[ks] = IF Binding(own[ks]) /\ ~Binding(own'[ks])
                          THEN 0 ELSE counted[ks]
    BY <1>2
  <2>2. /\ KeyInv(Aged(own[ks], NoKey), IF left[ks] = 1 THEN Period(ks) ELSE left[ks] - 1,
                  IF Binding(own[ks]) /\ ~Binding(Aged(own[ks], NoKey))
                  THEN 0 ELSE counted[ks])
        /\ Binding(Aged(own[ks], NoKey)) => Binding(own[ks])
        /\ Binding(own[ks]) /\ ~Binding(Aged(own[ks], NoKey)) => own[ks].until <= Second
    BY <1>1, AgedKey
  <2>. QED  BY <2>1, <2>2
<1>4. TypeOK'
  <2>1. shared' \in Halt
    BY <1>2, AgedHalt DEF Inv, TypeOK
  <2>2. own' \in [KS -> OwnKey]
    BY <1>2, <1>3 DEF KeyInv
  <2>3. left' \in [KS -> Nat \ {0}] /\ counted' \in [KS -> Nat]
    BY <1>1, <1>2
  <2>. QED  BY <1>2, <2>1, <2>2, <2>3 DEF Inv, TypeOK
<1>5. HaltKeepsTradingOff'
  BY <1>2, <1>3 DEF Inv, HaltKeepsTradingOff
<1>. QED  BY <1>3, <1>4, <1>5 DEF Inv

(* A closed trade keeps the invariant and ends no binding halt.                  *)
LEMMA InvTradeClosed ==
    ASSUME Inv, NEW loss \in Losses, NEW limits \in Limits, NEW dd \in BOOLEAN,
           TradeClosed(loss, limits, dd)
    PROVE  Inv' /\ \A ks \in KS : Binding(own[ks]) => Binding(own'[ks])
<1> DEFINE d == IF loss > 0
                THEN RecordLoss(own, shared, "daily", loss, limits["daily"], left["daily"])
                ELSE [own |-> own, shared |-> shared]
           w == IF loss > 0
                THEN RecordLoss(d.own, d.shared, "weekly", loss, limits["weekly"],
                                left["weekly"])
                ELSE d
           db == Blocked(own, shared, "daily")
           wb == Blocked(d.own, d.shared, "weekly")
<1>1. /\ loss \in Nat /\ limits["daily"] \in Nat /\ limits["weekly"] \in Nat
      /\ "daily" \in KS /\ "weekly" \in KS /\ KS = {"daily", "weekly"}
      /\ Other("daily") = "weekly" /\ Other("weekly") = "daily"
  BY LossesAssumption, LimitsAssumption DEF KS, Other
<1>2. /\ own \in [KS -> OwnKey] /\ shared \in Halt
      /\ \A ks \in KS : left[ks] \in Nat \ {0} /\ counted[ks] \in Nat
                        /\ KeyInv(own[ks], left[ks], counted[ks])
  BY DEF Inv, TypeOK
<1>3. /\ d.own \in [KS -> OwnKey] /\ d.shared \in Halt
      /\ d.own["weekly"] = own["weekly"]
      /\ KeyInv(d.own["daily"], left["daily"],
                IF db THEN counted["daily"] ELSE counted["daily"] + loss)
      /\ loss > 0 /\ Binding(d.own["daily"]) => Blocked(d.own, d.shared, "daily")
      /\ Binding(own["daily"]) => d.own = own
  <2>1. CASE loss > 0
    <3>1. d = RecordLoss(own, shared, "daily", loss, limits["daily"], left["daily"])
      BY <2>1
    <3>2. Binding(own["daily"]) => d.own = own
      BY <1>1, <1>2, <3>1 DEF RecordLoss, Blocked, View, KeyInv, Binding
    <3>. HIDE DEF d
    <3>3. /\ left["daily"] \in Nat \ {0} /\ counted["daily"] \in Nat
          /\ KeyInv(own["daily"], left["daily"], counted["daily"])
      BY <1>1, <1>2
    <3>4. /\ d.own \in [KS -> OwnKey] /\ d.shared \in Halt
          /\ d.own[Other("daily")] = own[Other("daily")]
          /\ KeyInv(d.own["daily"], left["daily"],
                    IF Blocked(own, shared, "daily") THEN counted["daily"]
                    ELSE counted["daily"] + loss)
          /\ Binding(d.own["daily"]) => Blocked(d.own, d.shared, "daily")
      BY <1>1, <1>2, <3>1, <3>3, RecordLossStep
    <3>. QED  BY <1>1, <3>2, <3>4
  <2>2. CASE ~(loss > 0)
    <3>1. d.own = own /\ d.shared = shared /\ loss = 0
      BY <1>1, <2>2
    <3>. QED  BY <1>1, <1>2, <2>2, <3>1
  <2>. QED  BY <2>1, <2>2
<1>. HIDE DEF d
<1>4. /\ w.own \in [KS -> OwnKey] /\ w.shared \in Halt
      /\ w.own["daily"] = d.own["daily"]
      /\ KeyInv(w.own["weekly"], left["weekly"],
                IF wb THEN counted["weekly"] ELSE counted["weekly"] + loss)
      /\ loss > 0 /\ Binding(w.own["weekly"]) => Blocked(w.own, w.shared, "weekly")
      /\ Binding(own["weekly"]) => w.own["weekly"] = own["weekly"]
      /\ loss = 0 => w = d
  <2>1. CASE loss > 0
    <3>1. w = RecordLoss(d.own, d.shared, "weekly", loss, limits["weekly"],
                         left["weekly"])
      BY <2>1
    <3>2. Binding(own["weekly"]) => w.own["weekly"] = own["weekly"]
      BY <1>1, <1>2, <1>3, <3>1 DEF RecordLoss, Blocked, View, KeyInv, Binding
    <3>. HIDE DEF w
    <3>3. KeyInv(d.own["weekly"], left["weekly"], counted["weekly"])
      BY <1>1, <1>2, <1>3
    <3>4. /\ w.own \in [KS -> OwnKey] /\ w.shared \in Halt
          /\ w.own[Other("weekly")] = d.own[Other("weekly")]
          /\ KeyInv(w.own["weekly"], left["weekly"],
                    IF Blocked(d.own, d.shared, "weekly") THEN counted["weekly"]
                    ELSE counted["weekly"] + loss)
          /\ Binding(w.own["weekly"]) => Blocked(w.own, w.shared, "weekly")
      <4>1. left["weekly"] \in Nat \ {0} /\ counted["weekly"] \in Nat
        BY <1>1, <1>2
      <4>2. d.own \in [KS -> OwnKey] /\ d.shared \in Halt
        BY <1>3
      <4>3. "weekly" \in KS /\ loss \in Nat /\ limits["weekly"] \in Nat
        BY <1>1
      <4>. HIDE DEF db, wb
      <4>. QED  BY <3>1, <3>3, <4>1, <4>2, <4>3, RecordLossStep
    <3>. QED  BY <1>1, <2>1, <3>2, <3>4
  <2>2. CASE ~(loss > 0)
    <3>1. w = d /\ loss = 0
      BY <1>1, <2>2
    <3>. QED  BY <1>1, <1>2, <1>3, <2>2, <3>1
  <2>. QED  BY <2>1, <2>2
<1>5. /\ own' = w.own /\ shared' = w.shared /\ left' = left
      /\ raised' = IF dd THEN raised \cup {"drawdown"} ELSE raised
  BY DEF TradeClosed, d
<1>a. active' = (active /\ ~(loss > 0 /\ Blocked(d.own, d.shared, "daily"))
                        /\ ~(loss > 0 /\ Blocked(w.own, w.shared, "weekly"))
                        /\ "drawdown" \notin raised')
  BY Zenon DEF TradeClosed, d
<1>b. counted' = [ks \in KS |-> IF (ks = "daily" /\ db) \/ (ks = "weekly" /\ wb)
                               THEN counted[ks] ELSE counted[ks] + loss]
  BY Zenon DEF TradeClosed, d
<1>. HIDE DEF w
<1>6. counted'["daily"]  = (IF db THEN counted["daily"] ELSE counted["daily"] + loss)
  /\ counted'["weekly"] = (IF wb THEN counted["weekly"] ELSE counted["weekly"] + loss)
  BY <1>1, <1>b
<1>. HIDE DEF db, wb
<1>7. \A ks \in KS : KeyInv(own'[ks], left'[ks], counted'[ks])
  BY <1>1, <1>3, <1>4, <1>5, <1>6
<1>8. \A ks \in KS : Binding(own[ks]) => Binding(own'[ks])
  BY <1>1, <1>3, <1>4, <1>5
<1>9. TypeOK'
  <2>1. counted' \in [KS -> Nat]
    BY <1>1, <1>2, <1>b
  <2>2. raised' \subseteq Stops
    BY <1>5 DEF Inv, TypeOK, Stops
  <2>3. active' \in BOOLEAN
    BY <1>a
  <2>. QED  BY <1>4, <1>5, <2>1, <2>2, <2>3 DEF Inv, TypeOK
<1>10. HaltKeepsTradingOff'
  <2>1. CASE loss > 0
    <3>1. Binding(own'["daily"]) => ~active'
      BY <1>3, <1>4, <1>5, <1>a, <2>1
    <3>2. Binding(own'["weekly"]) => ~active'
      BY <1>4, <1>5, <1>a, <2>1
    <3>. QED  BY <1>1, <3>1, <3>2 DEF HaltKeepsTradingOff
  <2>2. CASE ~(loss > 0)
    <3>1. own' = own
      BY <1>1, <1>4, <1>5, <2>2 DEF d
    <3>. QED  BY <1>a, <3>1 DEF Inv, HaltKeepsTradingOff
  <2>. QED  BY <2>1, <2>2
<1>. QED  BY <1>7, <1>8, <1>9, <1>10 DEF Inv
(* A binding halt of a switch's own blocks, whatever the shared key says.        *)
LEMMA BindingBlocks ==
    ASSUME Inv, NEW ks \in KS, Binding(own[ks])
    PROVE  Blocked(own, shared, ks)
BY DEF Inv, KeyInv, Binding, Blocked, View

(* Handlers that leave the switches' own keys, the clock and the flag alone.     *)
LEMMA InvElsewhere ==
    ASSUME Inv, UNCHANGED <<left, own, active, counted>>,
           shared' \in Halt, raised' \subseteq Stops
    PROVE  Inv'
BY DEF Inv, TypeOK, HaltKeepsTradingOff

(* check_order_allowed keeps the invariant and ends no binding halt.             *)
LEMMA InvCheckOrder ==
    ASSUME Inv, CheckOrder
    PROVE  Inv' /\ \A ks \in KS : Binding(own[ks]) => Binding(own'[ks])
<1> DEFINE d == CheckSwitch(own, shared, "daily")
           w == IF Blocked(own, shared, "daily") THEN d
                ELSE CheckSwitch(d.own, d.shared, "weekly")
<1>1. /\ "daily" \in KS /\ "weekly" \in KS /\ KS = {"daily", "weekly"}
      /\ Other("daily") = "weekly" /\ Other("weekly") = "daily"
  BY DEF KS, Other
<1>2. /\ own \in [KS -> OwnKey] /\ shared \in Halt
      /\ \A ks \in KS : left[ks] \in Nat \ {0} /\ counted[ks] \in Nat
                        /\ KeyInv(own[ks], left[ks], counted[ks])
  BY DEF Inv, TypeOK
<1>3. /\ d.own \in [KS -> OwnKey] /\ d.shared \in Halt
      /\ d.own["weekly"] = own["weekly"]
      /\ KeyInv(d.own["daily"], left["daily"], counted["daily"])
      /\ Binding(d.own["daily"]) <=> Binding(own["daily"])
  <2>. HIDE DEF d
  <2>1. d = CheckSwitch(own, shared, "daily")
    BY DEF d
  <2>. QED  BY <1>1, <1>2, <2>1, CheckedSwitch
<1>. HIDE DEF d
<1>4. /\ w.own \in [KS -> OwnKey] /\ w.shared \in Halt
      /\ w.own["daily"] = d.own["daily"]
      /\ KeyInv(w.own["weekly"], left["weekly"], counted["weekly"])
      /\ Binding(w.own["weekly"]) <=> Binding(own["weekly"])
  <2>0. /\ left["weekly"] \in Nat \ {0} /\ counted["weekly"] \in Nat
        /\ KeyInv(d.own["weekly"], left["weekly"], counted["weekly"])
    BY <1>1, <1>2, <1>3
  <2>1. CASE Blocked(own, shared, "daily")
    <3>1. w = d
      BY <2>1
    <3>. QED  BY <1>3, <2>0, <3>1
  <2>2. CASE ~Blocked(own, shared, "daily")
    <3>1. w = CheckSwitch(d.own, d.shared, "weekly")
      BY <2>2
    <3>. HIDE DEF w
    <3>. QED  BY <1>1, <1>3, <2>0, <3>1, CheckedSwitch
  <2>. QED  BY <2>1, <2>2
<1>5. /\ own' = w.own /\ shared' = w.shared
      /\ UNCHANGED <<left, raised, active, counted>>
  BY DEF CheckOrder, d
<1>. HIDE DEF w
<1>6. \A ks \in KS : /\ KeyInv(own'[ks], left'[ks], counted'[ks])
                     /\ Binding(own'[ks]) <=> Binding(own[ks])
  BY <1>1, <1>3, <1>4, <1>5
<1>7. TypeOK'
  BY <1>4, <1>5 DEF Inv, TypeOK
<1>8. HaltKeepsTradingOff'
  BY <1>5, <1>6 DEF Inv, HaltKeepsTradingOff
<1>. QED  BY <1>6, <1>7, <1>8 DEF Inv

(* resume_auto_trading keeps the invariant, and runs only when no halt binds.    *)
LEMMA InvResume ==
    ASSUME Inv, Resume
    PROVE  Inv' /\ \A ks \in KS : ~Binding(own[ks])
<1> DEFINE d == SetSwitch(own, shared, "daily", Fresh)
           w == SetSwitch(d.own, d.shared, "weekly", Fresh)
<1>1. /\ "daily" \in KS /\ "weekly" \in KS /\ KS = {"daily", "weekly"}
      /\ Other("daily") = "weekly" /\ Other("weekly") = "daily"
  BY DEF KS, Other
<1>2. \A ks \in KS : ~Binding(own[ks])
  BY BindingBlocks DEF Resume
<1>3. d.own \in [KS -> OwnKey] /\ d.shared \in Halt /\ d.own["daily"] = Fresh
  <2>. HIDE DEF d
  <2>1. d = SetSwitch(own, shared, "daily", Fresh)
    BY DEF d
  <2>. QED  BY <1>1, <2>1, EmptiedSwitch DEF Inv, TypeOK
<1>. HIDE DEF d
<1>4. /\ w.own \in [KS -> OwnKey] /\ w.shared \in Halt
      /\ w.own["weekly"] = Fresh /\ w.own["daily"] = d.own["daily"]
  <2>. HIDE DEF w
  <2>1. w = SetSwitch(d.own, d.shared, "weekly", Fresh)
    BY DEF w
  <2>. QED  BY <1>1, <1>3, <2>1, EmptiedSwitch
<1>5. /\ own' = w.own /\ shared' = w.shared /\ active' = TRUE
      /\ counted' = [ks \in KS |-> 0] /\ UNCHANGED <<left, raised>>
  BY DEF Resume, d
<1>. HIDE DEF w
<1>6. \A ks \in KS : KeyInv(own'[ks], left'[ks], counted'[ks]) /\ ~Binding(own'[ks])
  BY <1>1, <1>3, <1>4, <1>5, FreshKey DEF Inv, TypeOK
<1>7. TypeOK'
  BY <1>4, <1>5 DEF Inv, TypeOK
<1>8. HaltKeepsTradingOff'
  BY <1>6 DEF HaltKeepsTradingOff
<1>. QED  BY <1>2, <1>6, <1>7, <1>8 DEF Inv

(* The administrator's reset keeps the invariant and touches one switch.         *)
LEMMA InvAdminReset ==
    ASSUME Inv, NEW k \in KS, AdminReset(k)
    PROVE  Inv' /\ \A ks \in KS : ks # k => own'[ks] = own[ks]
<1>1. \A ks \in KS : ks # k => ks = Other(k)
  BY DEF KS, Other
<1>2. /\ own' \in [KS -> OwnKey] /\ shared' \in Halt
      /\ own'[k] = Fresh /\ own'[Other(k)] = own[Other(k)]
      /\ counted' = [counted EXCEPT ![k] = 0]
      /\ UNCHANGED <<left, raised, active>>
  BY EmptiedSwitch DEF AdminReset, Inv, TypeOK
<1>3. \A ks \in KS : ks # k => own'[ks] = own[ks]
  BY <1>1, <1>2
<1>4. \A ks \in KS : /\ KeyInv(own'[ks], left'[ks], counted'[ks])
                     /\ Binding(own'[ks]) => Binding(own[ks])
  BY <1>2, <1>3, FreshKey DEF Inv, TypeOK
<1>5. TypeOK'
  BY <1>2 DEF Inv, TypeOK
<1>6. HaltKeepsTradingOff'
  BY <1>2, <1>4 DEF Inv, HaltKeepsTradingOff
<1>. QED  BY <1>3, <1>4, <1>5, <1>6 DEF Inv
(* What the remaining handlers do to the shared key is well typed.               *)
LEMMA SharedTypes ==
    ASSUME Inv
    PROVE  /\ \A trigger \in KS : HaltFor(trigger, left[trigger]) \in Halt
           /\ ManualHalt("consecutive") \in Halt /\ ManualHalt("manual") \in Halt
           /\ NoHalt \in Halt /\ shared \in Halt
BY KeyTypes DEF Inv, TypeOK, ManualTriggers

(* What one step does: the invariant is kept, and a binding halt of a switch's   *)
(* own ends only by the administrator's reset or within a second of its end.     *)
LEMMA InvStep ==
    ASSUME Inv, [Next]_vars
    PROVE  /\ Inv'
           /\ \A ks \in KS : Binding(own[ks]) /\ ~Binding(own'[ks]) =>
                 AdminReset(ks) \/ (Tick /\ own[ks].until <= Second)
<1>1. CASE Tick
  BY <1>1, InvTick
<1>2. CASE \E loss \in Losses, limits \in Limits, dd \in BOOLEAN :
              TradeClosed(loss, limits, dd)
  BY <1>2, InvTradeClosed
<1>3. CASE CheckOrder
  BY <1>3, InvCheckOrder
<1>4. CASE Resume
  BY <1>4, InvResume
<1>5. CASE \E ks \in KS : AdminReset(ks)
  <2>1. PICK k \in KS : AdminReset(k)
    BY <1>5
  <2>2. Inv' /\ \A ks \in KS : ks # k => own'[ks] = own[ks]
    BY <2>1, InvAdminReset
  <2>. QED  BY <2>1, <2>2
<1>6. CASE \/ EmergencyOn \/ EmergencyOff \/ ResumeDrawdown
           \/ \E trigger \in KS \cup {"consecutive"} : RiskHalts(trigger)
           \/ RiskCoolsDown \/ OperatorStop \/ OperatorResume
           \/ GlobalOn \/ GlobalOff \/ Outage
           \/ \E stop \in {"cooldown", "disconnect"} : Lapses(stop)
  <2>0. raised \subseteq Stops
    BY DEF Inv, TypeOK
  <2>1. CASE \E trigger \in KS \cup {"consecutive"} : RiskHalts(trigger)
    <3>1. shared' \in Halt /\ UNCHANGED <<left, own, raised, active, counted>>
      BY <2>1, SharedTypes DEF RiskHalts
    <3>. QED  BY <2>0, <3>1, InvElsewhere
  <2>2. CASE OperatorStop \/ OperatorResume
    <3>1. shared' \in Halt /\ raised' \subseteq Stops
          /\ UNCHANGED <<left, own, active, counted>>
      BY <2>0, <2>2, SharedTypes DEF OperatorStop, OperatorResume, Stops
    <3>. QED  BY <3>1, InvElsewhere
  <2>3. CASE \/ EmergencyOn \/ EmergencyOff \/ ResumeDrawdown \/ RiskCoolsDown
             \/ GlobalOn \/ GlobalOff \/ Outage
             \/ \E stop \in {"cooldown", "disconnect"} : Lapses(stop)
    <3>1. raised' \subseteq Stops
          /\ UNCHANGED <<left, own, shared, active, counted>>
      BY <2>0, <2>3 DEF EmergencyOn, EmergencyOff, ResumeDrawdown, RiskCoolsDown,
                        GlobalOn, GlobalOff, Outage, Lapses, Stops
    <3>. QED  BY <3>1, SharedTypes, InvElsewhere
  <2>. QED  BY <1>6, <2>1, <2>2, <2>3
<1>7. CASE UNCHANGED vars
  BY <1>7 DEF vars, Inv, TypeOK, HaltKeepsTradingOff
<1>. QED  BY <1>1, <1>2, <1>3, <1>4, <1>5, <1>6, <1>7 DEF Next, Handlers

--------------------------------------------------------------------------------

(* The inductive invariant holds in every reachable state.                       *)
THEOREM Invariance == Spec => []Inv
<1>1. Init => Inv
  BY InvInit
<1>2. Inv /\ [Next]_vars => Inv'
  BY InvStep
<1>. QED  BY <1>1, <1>2, PTL DEF Spec

(* Every variable keeps its type.                                                *)
THEOREM TypeCorrect == Spec => []TypeOK
<1>1. Inv => TypeOK
  BY DEF Inv
<1>. QED  BY <1>1, Invariance, PTL

(* The gate refuses orders once the counted losses have reached a limit, for all *)
(* losses, limits and period lengths and whatever the risk engine and the        *)
(* operator do to the shared key.                                                *)
THEOREM LossLimit == Spec => []LossLimitEnforced
<1>1. Inv => LossLimitEnforced
  <2> SUFFICES ASSUME Inv, NEW ks \in KS,
                      own[ks].limit > 0, counted[ks] >= own[ks].limit
               PROVE  Blocked(own, shared, ks)
    BY DEF LossLimitEnforced, GateAllows
  <2>1. own[ks] \in OwnKey /\ counted[ks] \in Nat /\ KeyInv(own[ks], left[ks], counted[ks])
    BY DEF Inv, TypeOK
  <2>2. own[ks].limit \in Nat /\ own[ks].loss \in Nat /\ own[ks].until \in Nat
    BY <2>1 DEF OwnKey
  <2>3. own[ks].present
    BY <2>1, <2>2 DEF KeyInv, NoKey
  <2>4. own[ks].halted /\ own[ks].until # 0
    BY <2>1, <2>2, <2>3 DEF KeyInv
  <2>5. Binding(own[ks])
    BY <2>2, <2>4 DEF Binding
  <2>. QED  BY <2>5, BindingBlocks
<1>. QED  BY <1>1, Invariance, PTL

(* A halted switch's key expires within a second of the boundary it was set for. *)
THEOREM ExpiryTracks == Spec => []ExpiryTracksBoundary
<1>1. Inv => ExpiryTracksBoundary
  BY DEF Inv, KeyInv, ExpiryTracksBoundary
<1>. QED  BY <1>1, Invariance, PTL

(* Automatic trading stays off while a loss halt binds.                          *)
THEOREM TradingOff == Spec => []HaltKeepsTradingOff
<1>1. Inv => HaltKeepsTradingOff
  BY DEF Inv
<1>. QED  BY <1>1, Invariance, PTL

(* No handler but the administrator's reset ends a binding loss halt before the  *)
(* last second of its period.                                                    *)
THEOREM HaltHolds == Spec => HaltHoldsUntilBoundary
<1>1. Inv /\ [Next]_vars =>
        [\A ks \in KS :
           Binding(own[ks]) /\ ~Binding(own'[ks]) =>
               \/ AdminReset(ks)
               \/ Tick /\ own[ks].until <= Second]_vars
  BY InvStep
<1>. QED  BY <1>1, Invariance, PTL DEF Spec, HaltHoldsUntilBoundary

--------------------------------------------------------------------------------
(* The refinement: what run safety_layer checks on a small instance.             *)

(* The refinement mapping of one key, and what LossLatch allows it in a step.         *)
Total(key) == IF key.until = 0 /\ key.halted THEN 0 ELSE key.loss

Loses(ks) ==
    \E loss \in Losses \ {0}, limits \in Limits :
        /\ ~Binding(own[ks])
        /\ Total(own'[ks]) = Total(own[ks]) + loss
        /\ Binding(own'[ks]) <=> limits[ks] > 0 /\ Total(own'[ks]) >= limits[ks]
        /\ left'[ks] = left[ks]

Empties(ks, may) ==
    /\ Binding(own[ks]) => may
    /\ Total(own'[ks]) = 0 /\ ~Binding(own'[ks]) /\ left'[ks] = left[ks]

Passes(ks) ==
    /\ left'[ks] = IF left[ks] = 1 THEN Period(ks) ELSE left[ks] - 1
    /\ IF Binding(own[ks])
       THEN \/ left[ks] <= Second /\ ~Binding(own'[ks]) /\ Total(own'[ks]) = 0
            \/ left[ks] > 1 /\ Binding(own'[ks]) /\ Total(own'[ks]) = Total(own[ks])
       ELSE ~Binding(own'[ks]) /\ Total(own'[ks]) = Total(own[ks])

Rests(ks) == own'[ks] = own[ks] /\ left'[ks] = left[ks]

Latched(ks, may) == Loses(ks) \/ Empties(ks, may) \/ Passes(ks) \/ Rests(ks)

--------------------------------------------------------------------------------
(* What single calls do to the key as the latch sees it.                              *)

LEMMA SwitchFacts ==
    /\ KS = {"daily", "weekly"} /\ \A ks \in KS : Other(ks) \in KS /\ Other(ks) # ks
    /\ Other("daily") = "weekly" /\ Other("weekly") = "daily"
BY DEF KS, Other

LEMMA FreshTotal == Total(Fresh) = 0 /\ ~Binding(Fresh) /\ Total(NoKey) = 0 /\ ~Binding(NoKey)
BY DEF Total, Binding, Fresh, NoKey

(* record_loss, when it is not skipped: the loss is added, and the latch shuts when   *)
(* the limit is met.                                                                  *)
LEMMA RecordedTotal ==
    ASSUME NEW o \in [KS -> OwnKey], NEW s \in Halt, NEW ks \in KS,
           NEW remains \in Nat \ {0}, NEW count \in Nat,
           KeyInv(o[ks], remains, count), ~Blocked(o, s, ks),
           NEW loss \in Nat, NEW limit \in Nat
    PROVE  LET key == Recorded(View(o, s, ks), loss, limit, remains)
           IN  /\ ~Binding(o[ks])
               /\ Total(key) = Total(o[ks]) + loss
               /\ Binding(key) <=> limit > 0 /\ Total(key) >= limit
<1> DEFINE seen  == View(o, s, ks)
           total == (IF seen.halted THEN 0 ELSE seen.loss) + loss
           hit   == limit > 0 /\ total >= limit
           key   == Recorded(seen, loss, limit, remains)
<1>1. o[ks] \in OwnKey
  OBVIOUS
<1>2. ~Binding(o[ks]) /\ total = Total(o[ks]) + loss /\ total \in Nat
  <2>1. CASE o[ks].present
    <3>1. seen = o[ks]
      BY <2>1 DEF View
    <3>2. ~Binding(o[ks])
      BY <3>1 DEF Blocked
    <3>3. o[ks].halted <=> o[ks].until = 0 /\ o[ks].halted
      BY <1>1, <3>2 DEF Binding, OwnKey
    <3> QED BY <1>1, <3>1, <3>2, <3>3 DEF Total, OwnKey
  <2>2. CASE ~o[ks].present
    <3>1. o[ks] = NoKey
      BY <2>2 DEF KeyInv
    <3>2. seen.loss = 0
      BY <2>2 DEF View, NoKey
    <3> QED BY <3>1, <3>2, FreshTotal
  <2> QED BY <2>1, <2>2
<1>3. key = [present |-> TRUE, halted |-> hit, until |-> IF hit THEN remains ELSE 0,
             ttl |-> IF hit THEN Ttl(remains) ELSE 0, loss |-> total, limit |-> limit]
  BY DEF Recorded
<1> HIDE DEF key, total, seen
<1>4. Total(key) = total /\ (Binding(key) <=> hit)
  <2>1. key.loss = total /\ (key.halted <=> hit) /\ key.until = IF hit THEN remains ELSE 0
    BY <1>3
  <2> HIDE DEF hit
  <2> QED BY <2>1 DEF Total, Binding
<1> QED BY <1>2, <1>4 DEF key, seen

(* record_loss as a whole: skipped, or a step of the latch; the other switch rests.   *)
LEMMA RecordLossTotal ==
    ASSUME NEW o \in [KS -> OwnKey], NEW s \in Halt, NEW ks \in KS,
           NEW remains \in Nat \ {0}, NEW count \in Nat,
           KeyInv(o[ks], remains, count), NEW loss \in Nat, NEW limit \in Nat,
           NEW r, r = RecordLoss(o, s, ks, loss, limit, remains)
    PROVE  /\ r.own[Other(ks)] = o[Other(ks)]
           /\ \/ r.own[ks] = o[ks]
              \/ /\ ~Binding(o[ks])
                 /\ Total(r.own[ks]) = Total(o[ks]) + loss
                 /\ Binding(r.own[ks]) <=> limit > 0 /\ Total(r.own[ks]) >= limit
<1>1. r.own[Other(ks)] = o[Other(ks)]
  BY RecordLossStep
<1>2. CASE Blocked(o, s, ks)
  BY <1>1, <1>2 DEF RecordLoss
<1>3. CASE ~Blocked(o, s, ks)
  <2> DEFINE key == Recorded(View(o, s, ks), loss, limit, remains)
  <2>1. r.own = [o EXCEPT ![ks] = key]
    BY <1>3 DEF RecordLoss, SetSwitch
  <2>2. /\ ~Binding(o[ks]) /\ Total(key) = Total(o[ks]) + loss
        /\ Binding(key) <=> limit > 0 /\ Total(key) >= limit
    BY <1>3, RecordedTotal
  <2> HIDE DEF key
  <2>3. r.own[ks] = key
    BY <2>1
  <2> QED BY <1>1, <2>2, <2>3
<1> QED BY <1>2, <1>3

(* An order check leaves a switch alone or empties one that does not bind.            *)
LEMMA CheckedTotal ==
    ASSUME NEW o \in [KS -> OwnKey], NEW s \in Halt, NEW ks \in KS,
           NEW remains \in Nat \ {0}, NEW count \in Nat,
           KeyInv(o[ks], remains, count), NEW r, r = CheckSwitch(o, s, ks)
    PROVE  /\ r.own \in [KS -> OwnKey] /\ r.shared \in Halt
           /\ r.own[Other(ks)] = o[Other(ks)]
           /\ \/ r.own[ks] = o[ks]
              \/ ~Binding(o[ks]) /\ r.own[ks] = Fresh
<1>1. /\ r.own \in [KS -> OwnKey] /\ r.shared \in Halt /\ r.own[Other(ks)] = o[Other(ks)]
      /\ Binding(r.own[ks]) <=> Binding(o[ks])
  BY CheckedSwitch
<1>2. CASE r = [own |-> o, shared |-> s]
  BY <1>1, <1>2
<1>3. CASE r = SetSwitch(o, s, ks, Fresh)
  <2>1. r.own[ks] = Fresh
    BY <1>3, EmptiedSwitch
  <2> QED BY <1>1, <2>1, FreshTotal
<1> QED BY <1>2, <1>3 DEF CheckSwitch

(* A tick on a key: a latch that is shut stays so until the end of the period, or     *)
(* opens, emptied, within a second of it; one that is open is left alone.             *)
LEMMA AgedTotal ==
    ASSUME NEW key, NEW remains \in Nat \ {0}, NEW count \in Nat, KeyInv(key, remains, count)
    PROVE  LET next == Aged(key, NoKey)
           IN  IF Binding(key)
               THEN \/ remains <= Second /\ ~Binding(next) /\ Total(next) = 0
                    \/ remains > 1 /\ Binding(next) /\ Total(next) = Total(key)
               ELSE ~Binding(next) /\ Total(next) = Total(key)
<1> DEFINE next == Aged(key, NoKey)
<1>1. key \in OwnKey
  BY DEF KeyInv
<1>2. Binding(key) => key.until = remains
  BY DEF KeyInv
<1>3. Binding(key) /\ ~Binding(next) => key.until <= Second
  BY AgedKey
<1>4. CASE key.ttl = 1
  <2>1. next = NoKey
    BY <1>4 DEF Aged
  <2>2. key.halted
    BY <1>4 DEF KeyInv, NoKey
  <2>3. ~Binding(key) => Total(key) = 0
    BY <1>1, <2>2 DEF Binding, Total, OwnKey
  <2> HIDE DEF next
  <2>4. Total(next) = 0 /\ ~Binding(next)
    BY <2>1, FreshTotal
  <2> QED BY <1>2, <1>3, <2>3, <2>4 DEF next
<1>5. CASE key.ttl # 1
  <2> DEFINE ttl   == IF key.ttl = 0 THEN 0 ELSE key.ttl - 1
             until == IF key.until = 0 THEN 0 ELSE key.until - 1
  <2>1. next = [key EXCEPT !.ttl = ttl, !.until = until]
    BY <1>5 DEF Aged
  <2> HIDE DEF ttl, until, next
  <2>2. next.halted = key.halted /\ next.loss = key.loss /\ next.until = until
    BY <1>1, <2>1 DEF OwnKey
  <2>3. key.until \in Nat /\ until = IF key.until = 0 THEN 0 ELSE key.until - 1
    BY <1>1 DEF OwnKey, until
  <2>4. CASE Binding(key)
    <3>1. key.halted /\ key.until > 0 /\ key.until = remains
      BY <1>2, <2>4 DEF Binding
    <3>2. CASE key.until = 1
      <4>1. next.halted /\ next.until = 0
        BY <2>2, <2>3, <3>1, <3>2
      <4>2. ~Binding(next) /\ Total(next) = 0
        BY <4>1 DEF Binding, Total
      <4>3. remains <= Second
        BY <3>1, <3>2, SecondAssumption
      <4> QED BY <2>4, <4>2, <4>3 DEF next
    <3>3. CASE key.until > 1
      <4>1. next.halted /\ next.until > 0 /\ next.loss = key.loss
        BY <2>2, <2>3, <3>1, <3>3
      <4>2. Binding(next) /\ Total(next) = Total(key)
        BY <2>3, <3>1, <4>1 DEF Binding, Total
      <4> QED BY <2>4, <3>1, <3>3, <4>2 DEF next
    <3> QED BY <2>3, <3>1, <3>2, <3>3
  <2>5. CASE ~Binding(key)
    <3>1. key.halted => key.until = 0
      BY <2>3, <2>5 DEF Binding
    <3>2. next.halted => next.until = 0
      BY <2>2, <2>3, <3>1
    <3>3. ~Binding(next)
      BY <3>2 DEF Binding
    <3>4. Total(next) = Total(key)
      BY <2>2, <3>1, <3>2 DEF Total
    <3> QED BY <2>5, <3>3, <3>4 DEF next
  <2> QED BY <2>4, <2>5
<1> QED BY <1>4, <1>5
--------------------------------------------------------------------------------
(* What the handlers do to each switch.                                               *)

LEMMA InvFacts ==
    ASSUME Inv
    PROVE  /\ own \in [KS -> OwnKey] /\ shared \in Halt
           /\ \A ks \in KS : /\ left[ks] \in Nat \ {0} /\ counted[ks] \in Nat
                            /\ KeyInv(own[ks], left[ks], counted[ks])
BY DEF Inv, TypeOK

LEMMA TickLatched ==
    ASSUME Inv, Tick, NEW ks \in KS
    PROVE  Passes(ks)
<1>1. /\ own'[ks] = Aged(own[ks], NoKey)
      /\ left'[ks] = IF left[ks] = 1 THEN Period(ks) ELSE left[ks] - 1
  BY DEF Tick
<1> QED BY <1>1, InvFacts, AgedTotal DEF Passes

LEMMA TradeClosedLatched ==
    ASSUME Inv, NEW loss \in Losses, NEW limits \in Limits, NEW dd \in BOOLEAN,
           TradeClosed(loss, limits, dd), NEW ks \in KS
    PROVE  Loses(ks) \/ Rests(ks)
<1> DEFINE d == IF loss > 0
                THEN RecordLoss(own, shared, "daily", loss, limits["daily"], left["daily"])
                ELSE [own |-> own, shared |-> shared]
           w == IF loss > 0
                THEN RecordLoss(d.own, d.shared, "weekly", loss, limits["weekly"],
                                left["weekly"])
                ELSE d
<1>1. own' = w.own /\ left' = left
  BY DEF TradeClosed, d
<1>2. loss \in Nat /\ limits["daily"] \in Nat /\ limits["weekly"] \in Nat
      /\ "daily" \in KS /\ "weekly" \in KS
  BY LossesAssumption, LimitsAssumption, SwitchFacts
<1>3. CASE loss = 0
  BY <1>1, <1>3 DEF Rests
<1>4. CASE loss > 0
  <2>1. d = RecordLoss(own, shared, "daily", loss, limits["daily"], left["daily"])
    BY <1>4
  <2>2. w = RecordLoss(d.own, d.shared, "weekly", loss, limits["weekly"], left["weekly"])
    BY <1>4
  <2> HIDE DEF d, w
  <2>3. /\ left["daily"] \in Nat \ {0} /\ counted["daily"] \in Nat
        /\ KeyInv(own["daily"], left["daily"], counted["daily"])
        /\ left["weekly"] \in Nat \ {0} /\ counted["weekly"] \in Nat
        /\ KeyInv(own["weekly"], left["weekly"], counted["weekly"])
        /\ own \in [KS -> OwnKey] /\ shared \in Halt
    BY <1>2, InvFacts
  <2>4. d.own \in [KS -> OwnKey] /\ d.shared \in Halt
    BY <1>2, <2>1, <2>3, RecordLossStep
  <2>5. /\ d.own["weekly"] = own["weekly"]
        /\ \/ d.own["daily"] = own["daily"]
           \/ /\ ~Binding(own["daily"])
              /\ Total(d.own["daily"]) = Total(own["daily"]) + loss
              /\ Binding(d.own["daily"]) <=>
                    limits["daily"] > 0 /\ Total(d.own["daily"]) >= limits["daily"]
    BY <1>2, <2>1, <2>3, RecordLossTotal, SwitchFacts
  <2>6. KeyInv(d.own["weekly"], left["weekly"], counted["weekly"])
    BY <2>3, <2>5
  <2>7. /\ w.own["daily"] = d.own["daily"]
        /\ \/ w.own["weekly"] = d.own["weekly"]
           \/ /\ ~Binding(d.own["weekly"])
              /\ Total(w.own["weekly"]) = Total(d.own["weekly"]) + loss
              /\ Binding(w.own["weekly"]) <=>
                    limits["weekly"] > 0 /\ Total(w.own["weekly"]) >= limits["weekly"]
    <3>1. /\ w.own[Other("weekly")] = d.own[Other("weekly")]
          /\ \/ w.own["weekly"] = d.own["weekly"]
             \/ /\ ~Binding(d.own["weekly"])
                /\ Total(w.own["weekly"]) = Total(d.own["weekly"]) + loss
                /\ Binding(w.own["weekly"]) <=>
                      limits["weekly"] > 0 /\ Total(w.own["weekly"]) >= limits["weekly"]
      <4>1. left["weekly"] \in Nat \ {0} /\ counted["weekly"] \in Nat
        BY <2>3
      <4>2. "weekly" \in KS /\ loss \in Nat /\ limits["weekly"] \in Nat
        BY <1>2
      <4> QED BY <2>2, <2>4, <2>6, <4>1, <4>2, RecordLossTotal
    <3> QED BY <3>1, SwitchFacts
  <2>8. loss \in Losses \ {0}
    BY <1>4
  <2>9. CASE ks = "daily"
    BY <1>1, <2>5, <2>7, <2>8, <2>9 DEF Loses, Rests
  <2>10. CASE ks = "weekly"
    BY <1>1, <2>5, <2>7, <2>8, <2>10 DEF Loses, Rests
  <2> QED BY <2>9, <2>10, SwitchFacts
<1> QED BY <1>2, <1>3, <1>4

LEMMA CheckOrderLatched ==
    ASSUME Inv, CheckOrder, NEW ks \in KS, NEW may \in BOOLEAN
    PROVE  Empties(ks, may) \/ Rests(ks)
<1> DEFINE d == CheckSwitch(own, shared, "daily")
           w == IF Blocked(own, shared, "daily") THEN d
                ELSE CheckSwitch(d.own, d.shared, "weekly")
<1>1. own' = w.own /\ left' = left
  BY DEF CheckOrder, d
<1>2. /\ "daily" \in KS /\ "weekly" \in KS
      /\ left["daily"] \in Nat \ {0} /\ counted["daily"] \in Nat
      /\ KeyInv(own["daily"], left["daily"], counted["daily"])
      /\ left["weekly"] \in Nat \ {0} /\ counted["weekly"] \in Nat
      /\ KeyInv(own["weekly"], left["weekly"], counted["weekly"])
      /\ own \in [KS -> OwnKey] /\ shared \in Halt
  BY InvFacts, SwitchFacts
<1>3. d = CheckSwitch(own, shared, "daily")
  OBVIOUS
<1> HIDE DEF d
<1>4. /\ d.own \in [KS -> OwnKey] /\ d.shared \in Halt /\ d.own["weekly"] = own["weekly"]
      /\ \/ d.own["daily"] = own["daily"]
         \/ ~Binding(own["daily"]) /\ d.own["daily"] = Fresh
  BY <1>2, <1>3, CheckedTotal, SwitchFacts
<1>5. /\ w.own["daily"] = d.own["daily"]
      /\ \/ w.own["weekly"] = own["weekly"]
         \/ ~Binding(own["weekly"]) /\ w.own["weekly"] = Fresh
  <2>1. CASE Blocked(own, shared, "daily")
    BY <1>4, <2>1
  <2>2. CASE ~Blocked(own, shared, "daily")
    <3>1. w = CheckSwitch(d.own, d.shared, "weekly")
      BY <2>2
    <3> HIDE DEF w
    <3>2. KeyInv(d.own["weekly"], left["weekly"], counted["weekly"])
      BY <1>2, <1>4
    <3> QED BY <1>2, <1>4, <3>1, <3>2, CheckedTotal, SwitchFacts
  <2> QED BY <2>1, <2>2
<1> HIDE DEF w
<1>6. CASE ks = "daily"
  BY <1>1, <1>4, <1>5, <1>6, FreshTotal DEF Empties, Rests
<1>7. CASE ks = "weekly"
  BY <1>1, <1>5, <1>7, FreshTotal DEF Empties, Rests
<1> QED BY <1>6, <1>7, SwitchFacts

LEMMA ResumeLatched ==
    ASSUME Inv, Resume, NEW ks \in KS, NEW may \in BOOLEAN
    PROVE  Empties(ks, may)
<1> DEFINE d == SetSwitch(own, shared, "daily", Fresh)
           w == SetSwitch(d.own, d.shared, "weekly", Fresh)
<1>1. own' = w.own /\ left' = left /\ ~Binding(own[ks])
  BY InvResume DEF Resume, d
<1>2. /\ "daily" \in KS /\ "weekly" \in KS /\ own \in [KS -> OwnKey] /\ shared \in Halt
  BY InvFacts, SwitchFacts
<1>3. d.own = [own EXCEPT !["daily"] = Fresh] /\ w.own = [d.own EXCEPT !["weekly"] = Fresh]
  BY DEF SetSwitch
<1> HIDE DEF d, w
<1>4. own'["daily"] = Fresh /\ own'["weekly"] = Fresh
  BY <1>1, <1>2, <1>3, SwitchFacts
<1> QED BY <1>1, <1>4, SwitchFacts, FreshTotal DEF Empties

LEMMA AdminLatched ==
    ASSUME Inv, NEW k \in KS, AdminReset(k), NEW ks \in KS
    PROVE  Empties(ks, TRUE) \/ Rests(ks)
<1>1. own' = [own EXCEPT ![k] = Fresh] /\ left' = left
  BY DEF AdminReset, SetSwitch
<1> QED BY <1>1, InvFacts, FreshTotal DEF Empties, Rests

(* The other handlers touch neither a switch's own key nor its period.                *)
LEMMA OthersRest ==
    ASSUME \/ EmergencyOn \/ EmergencyOff \/ ResumeDrawdown
           \/ \E trigger \in KS \cup {"consecutive"} : RiskHalts(trigger)
           \/ RiskCoolsDown \/ OperatorStop \/ OperatorResume
           \/ GlobalOn \/ GlobalOff \/ Outage
           \/ \E stop \in {"cooldown", "disconnect"} : Lapses(stop),
           NEW ks \in KS
    PROVE  Rests(ks)
BY DEF EmergencyOn, EmergencyOff, ResumeDrawdown, RiskHalts, RiskCoolsDown, OperatorStop,
       OperatorResume, GlobalOn, GlobalOff, Outage, Lapses, Rests

(* A step of the safety layer is a step of each latch, or none.                       *)
LEMMA HandlersLatched ==
    ASSUME Inv, Handlers, NEW ks \in KS, NEW may \in BOOLEAN
    PROVE  Latched(ks, may)
<1>1. CASE Tick
  BY <1>1, TickLatched DEF Latched
<1>2. CASE \E loss \in Losses, limits \in Limits, dd \in BOOLEAN : TradeClosed(loss, limits, dd)
  BY <1>2, TradeClosedLatched DEF Latched
<1>3. CASE CheckOrder
  BY <1>3, CheckOrderLatched DEF Latched
<1>4. CASE Resume
  BY <1>4, ResumeLatched DEF Latched
<1>5. CASE ~(Tick \/ CheckOrder \/ Resume)
           /\ ~\E loss \in Losses, limits \in Limits, dd \in BOOLEAN : TradeClosed(loss, limits, dd)
  BY <1>5, OthersRest DEF Handlers, Latched
<1> QED BY <1>1, <1>2, <1>3, <1>4, <1>5

LEMMA StepLatched ==
    ASSUME Inv, [MCNext]_all, admin \in BOOLEAN, NEW ks \in KS
    PROVE  Latched(ks, admin) /\ admin' = admin
<1>1. CASE MCNext
  <2>1. admin' = admin /\ (Handlers \/ (admin /\ \E k \in KS : AdminReset(k)))
    BY <1>1 DEF MCNext
  <2>2. CASE Handlers
    BY <2>1, <2>2, HandlersLatched
  <2>3. CASE admin /\ \E k \in KS : AdminReset(k)
    <3>1. Empties(ks, TRUE) \/ Rests(ks)
      BY <2>3, AdminLatched
    <3>2. admin = TRUE
      BY <2>3
    <3> QED BY <2>1, <3>1, <3>2 DEF Latched
  <2> QED BY <2>1, <2>2, <2>3
<1>2. CASE UNCHANGED all
  BY <1>2 DEF all, vars, Latched, Rests
<1> QED BY <1>1, <1>2
--------------------------------------------------------------------------------
(* A step of the latches is a step of LossLatch under the mapping.                    *)

LEMMA DailyLatchStep ==
    ASSUME Inv, [MCNext]_all, admin \in BOOLEAN
    PROVE  [DailyLatch!Next]_DailyLatch!vars
<1>1. Latched("daily", admin) /\ admin' = admin /\ "daily" \in KS /\ Period("daily") = Day
  BY StepLatched, SwitchFacts DEF Period
<1>2. CASE Loses("daily")
  <2>1. PICK loss \in Losses \ {0}, limits \in Limits :
           /\ ~Binding(own["daily"])
           /\ Total(own'["daily"]) = Total(own["daily"]) + loss
           /\ Binding(own'["daily"]) <=>
                 limits["daily"] > 0 /\ Total(own'["daily"]) >= limits["daily"]
           /\ left'["daily"] = left["daily"]
    BY <1>2 DEF Loses
  <2>2. DailyLatch!Lose(loss, limits["daily"])
    BY <1>1, <2>1 DEF DailyLatch!Lose, Total, Binding
  <2> QED BY <2>2 DEF DailyLatch!Next
<1>3. CASE Empties("daily", admin)
  <2>1. DailyLatch!Empty
    BY <1>1, <1>3 DEF DailyLatch!Empty, Empties, Total, Binding
  <2> QED BY <2>1 DEF DailyLatch!Next
<1>4. CASE Passes("daily")
  <2>1. DailyLatch!Pass
    BY <1>1, <1>4 DEF DailyLatch!Pass, Passes, Total, Binding
  <2> QED BY <2>1 DEF DailyLatch!Next
<1>5. CASE Rests("daily")
  BY <1>1, <1>5 DEF DailyLatch!vars, Rests
<1> QED BY <1>1, <1>2, <1>3, <1>4, <1>5 DEF Latched

LEMMA WeeklyLatchStep ==
    ASSUME Inv, [MCNext]_all, admin \in BOOLEAN
    PROVE  [WeeklyLatch!Next]_WeeklyLatch!vars
<1>1. Latched("weekly", admin) /\ admin' = admin /\ "weekly" \in KS /\ Period("weekly") = Week
  BY StepLatched, SwitchFacts DEF Period
<1>2. CASE Loses("weekly")
  <2>1. PICK loss \in Losses \ {0}, limits \in Limits :
           /\ ~Binding(own["weekly"])
           /\ Total(own'["weekly"]) = Total(own["weekly"]) + loss
           /\ Binding(own'["weekly"]) <=>
                 limits["weekly"] > 0 /\ Total(own'["weekly"]) >= limits["weekly"]
           /\ left'["weekly"] = left["weekly"]
    BY <1>2 DEF Loses
  <2>2. WeeklyLatch!Lose(loss, limits["weekly"])
    BY <1>1, <2>1 DEF WeeklyLatch!Lose, Total, Binding
  <2> QED BY <2>2 DEF WeeklyLatch!Next
<1>3. CASE Empties("weekly", admin)
  <2>1. WeeklyLatch!Empty
    BY <1>1, <1>3 DEF WeeklyLatch!Empty, Empties, Total, Binding
  <2> QED BY <2>1 DEF WeeklyLatch!Next
<1>4. CASE Passes("weekly")
  <2>1. WeeklyLatch!Pass
    BY <1>1, <1>4 DEF WeeklyLatch!Pass, Passes, Total, Binding
  <2> QED BY <2>1 DEF WeeklyLatch!Next
<1>5. CASE Rests("weekly")
  BY <1>1, <1>5 DEF WeeklyLatch!vars, Rests
<1> QED BY <1>1, <1>2, <1>3, <1>4, <1>5 DEF Latched

LEMMA LatchInit == MCInit => DailyLatch!Init /\ WeeklyLatch!Init
BY FreshTotal, SwitchFacts
   DEF MCInit, Init, DailyLatch!Init, WeeklyLatch!Init, Total, Period, Binding, NoKey

(* Each switch, seen through its key, is a loss latch: no interleaving of trades, order *)
(* checks, resumes, halts of the risk engine, operators and time makes it do what       *)
(* LossLatch does not (kill_switch.py record_loss, check and reset; state.py).           *)
THEOREM Refinement == MCSpec => SwitchesAreLatches
<1> DEFINE SInv == Inv /\ admin \in BOOLEAN
<1>1. MCInit => SInv
  BY InvInit DEF MCInit
<1>2. SInv /\ [MCNext]_all => SInv'
  <2> SUFFICES ASSUME SInv, [MCNext]_all PROVE SInv'
    OBVIOUS
  <2>1. [Next]_vars
    BY DEF MCNext, Next, all
  <2>2. admin' = admin
    BY DEF MCNext, all
  <2> QED BY <2>1, <2>2, InvStep
<1>3. SInv /\ [MCNext]_all
         => [DailyLatch!Next]_DailyLatch!vars /\ [WeeklyLatch!Next]_WeeklyLatch!vars
  BY DailyLatchStep, WeeklyLatchStep
<1> HIDE DEF SInv
<1> QED BY <1>1, <1>2, <1>3, LatchInit, PTL
        DEF MCSpec, SwitchesAreLatches, DailyLatch!Spec, WeeklyLatch!Spec
================================================================================
