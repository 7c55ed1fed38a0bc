---------------------------- MODULE SafetyRaceProofs ----------------------------
(* Proofs about SafetyRace and the two situations of MCSafetyRace, for any number of  *)
(* workers, every set of losses and limits, and every length of the periods: that no  *)
(* interleaving of read-modify-writes invents a loss, and that a halt lasts until its *)
(* boundary as long as a single worker records trades.                                *)
EXTENDS MCSafetyRace, SumTheorems

--------------------------------------------------------------------------------
(* The invariants.                                                                    *)

\* The handlers that read and write the switches, and where each can be.
Switching == {"record", "check", "resume"}

Stage(j) ==
    /\ j.at = "idle" => j.job = "none"
    /\ j.at \in {"getOwn", "getShared", "setOwn", "setShared", "peekShared",
                 "peekOther", "delShared", "flag"} => j.job \in Switching
    /\ j.at \in {"riskRead", "riskSet"} => j.job = "risk"
    /\ j.at = "flag" => j.ks = "weekly"
    /\ j.at \in {"setOwn", "setShared", "peekShared", "peekOther", "delShared"} =>
          j.key.present
    /\ j.job # "record" => j.key.loss = 0

TypeInv == TypeOK /\ \A w \in Workers : Stage(work[w])

\* What a worker may still add to a switch: a recorded loss goes to the daily switch
\* first, and is written to each of them once.
Unwritten(j) == j.at \in {"getOwn", "getShared", "setOwn"}
Pending(j, ks) ==
    j.job = "record" /\ IF j.ks = ks THEN Unwritten(j) ELSE ks = "weekly"
Owed(j, ks) == IF Pending(j, ks) THEN j.loss ELSE 0
Due(ks) == SumFunctionOnSet([w \in Workers |-> Owed(work[w], ks)], Workers)

\* A key that is about to be written holds what it was read with, and the worker's
\* own loss.
Held(j, ks) == IF j.at = "setOwn" /\ j.ks = ks THEN j.key.loss - Owed(j, ks) ELSE 0

Accounted ==
    \A ks \in KS : /\ own[ks].loss + Due(ks) <= charged[ks]
                   /\ \A w \in Workers : Held(work[w], ks) + Due(ks) <= charged[ks]

--------------------------------------------------------------------------------
(* Types.                                                                             *)

(* The two switches.                                                                  *)
LEMMA Switches ==
    /\ KS = {"daily", "weekly"}
    /\ \A ks \in KS : Other(ks) \in KS /\ Period(ks) \in Nat \ {0}
BY DayAssumption, WeekAssumption DEF KS, Other, Period

(* An expiry is at least a tick, and less than a second short of the time left.       *)
LEMMA TtlBounds ==
    ASSUME NEW until \in Nat
    PROVE  Ttl(until) \in Nat \ {0} /\ until < Ttl(until) + Second
<1>1. Second \in Nat /\ Second > 0
  BY SecondAssumption
<1>2. CASE until < Second
  BY <1>1, <1>2 DEF Ttl
<1>3. CASE ~(until < Second)
  <2>1. until % Second \in 0 .. Second - 1
    BY <1>1
  <2> QED
    BY <1>1, <1>3, <2>1 DEF Ttl
<1> QED
  BY <1>2, <1>3

(* The constants of the store.                                                        *)
LEMMA KeyTypes ==
    /\ NoKey \in OwnKey /\ ~NoKey.halted /\ NoKey.loss = 0 /\ ~NoKey.present
    /\ Fresh \in OwnKey /\ ~Fresh.halted /\ Fresh.loss = 0 /\ Fresh.present
    /\ NoHalt \in Halt /\ Idle \in Work /\ Stage(Idle)
    /\ \A ks \in KS, until \in Nat : HaltFor(ks, until) \in Halt
<1>1. \A until \in Nat : Ttl(until) \in Nat
  BY TtlBounds
<1> QED
  BY <1>1, Switches DEF NoKey, Fresh, NoHalt, OwnKey, Halt, ManualTriggers, HaltFor, Idle,
                        Work, Stage, AllJobs, Places

(* What a switch shows is a key, and one without a loss unless the switch has its own. *)
LEMMA ViewType ==
    ASSUME NEW o \in [KS -> OwnKey], NEW s \in Halt, NEW ks \in KS
    PROVE  LET seen == View([o EXCEPT ![ks] = NoKey], s, ks)
           IN  seen \in OwnKey /\ seen.loss = 0
<1>1. [o EXCEPT ![ks] = NoKey] [ks] = NoKey
  OBVIOUS
<1> QED
  BY <1>1, KeyTypes DEF View, NoKey, OwnKey, Halt

(* A recorded key: it holds the loss it was read with, and the new one.               *)
LEMMA RecordedKey ==
    ASSUME NEW seen \in OwnKey, NEW loss \in Nat, NEW limit \in Nat, NEW boundary \in Nat
    PROVE  LET key == Recorded(seen, loss, limit, boundary)
           IN  /\ key \in OwnKey /\ key.present
               /\ key.loss <= seen.loss + loss
<1>1. Ttl(boundary) \in Nat
  BY TtlBounds
<1> QED
  BY <1>1 DEF Recorded, OwnKey

(* A handler that moves on is at a place of its own, and owes no more than before.    *)
LEMMA Advanced ==
    ASSUME NEW j \in Work, j.job \in Switching, j.job # "record" => j.key.loss = 0,
           j.job = "resume" => j.key.present
    PROVE  /\ Advance(j) \in Work /\ Stage(Advance(j))
           /\ \A ks \in KS : Owed(Advance(j), ks) <= Owed(j, ks) /\ Held(Advance(j), ks) <= 0
<1> DEFINE a == Advance(j)
<1>1. CASE j.ks = "daily"
  <2>1. a = [j EXCEPT !.ks = "weekly", !.at = IF j.job = "resume" THEN "setOwn" ELSE "getOwn"]
    BY <1>1 DEF Advance
  <2>2. a \in Work
    BY <2>1, Switches DEF Work, Places
  <2>3. /\ a.job = j.job /\ a.key = j.key /\ a.loss = j.loss /\ a.ks = "weekly"
        /\ a.at = IF j.job = "resume" THEN "setOwn" ELSE "getOwn"
    BY <2>1 DEF Work
  <2> HIDE DEF a
  <2>4. j.loss \in Nat /\ j.key.loss \in Int
    BY DEF Work, OwnKey
  <2>5. Stage(a)
    BY <1>1, <2>3 DEF Stage, Switching
  <2>6. ASSUME NEW ks \in KS PROVE Owed(a, ks) <= Owed(j, ks) /\ Held(a, ks) <= 0
    BY <1>1, <2>3, <2>4, Switches DEF Switching, Owed, Pending, Unwritten, Held
  <2> QED
    BY <2>2, <2>5, <2>6 DEF a
<1>2. CASE j.ks = "weekly" /\ (j.job = "resume" \/ j.refused)
  <2>1. a = [j EXCEPT !.at = "flag"]
    BY <1>2 DEF Advance
  <2>2. a \in Work
    BY <2>1 DEF Work, Places
  <2>3. a.job = j.job /\ a.key = j.key /\ a.loss = j.loss /\ a.ks = j.ks /\ a.at = "flag"
    BY <2>1 DEF Work
  <2> HIDE DEF a
  <2>4. j.loss \in Nat /\ j.key.loss \in Int
    BY DEF Work, OwnKey
  <2>5. Stage(a)
    BY <1>2, <2>3 DEF Stage, Switching
  <2>6. ASSUME NEW ks \in KS PROVE Owed(a, ks) <= Owed(j, ks) /\ Held(a, ks) <= 0
    BY <1>2, <2>3, <2>4, Switches DEF Switching, Owed, Pending, Unwritten, Held
  <2> QED
    BY <2>2, <2>5, <2>6 DEF a
<1>3. CASE j.ks = "weekly" /\ ~(j.job = "resume" \/ j.refused)
  <2>1. a = Idle
    BY <1>3 DEF Advance
  <2>2. Idle.job = "none" /\ Idle.at = "idle"
    BY DEF Idle
  <2>3. j.loss \in Nat
    BY DEF Work
  <2> HIDE DEF a
  <2>4. \A ks \in KS : Owed(a, ks) <= Owed(j, ks) /\ Held(a, ks) <= 0
    BY <2>1, <2>2, <2>3 DEF Owed, Pending, Held
  <2> QED
    BY <2>1, <2>4, KeyTypes DEF a
<1> QED
  BY <1>1, <1>2, <1>3, Switches DEF Work

(* What a handler does next with what it read: the key it will write holds no more    *)
(* than that and its own loss.                                                        *)
LEMMA Decided ==
    ASSUME NEW j \in Work, j.job \in Switching, j.job # "record" => j.key.loss = 0,
           j.at \in {"getOwn", "getShared"}, NEW seen \in OwnKey, left[j.ks] \in Nat
    PROVE  /\ Decide(j, seen) \in Work /\ Stage(Decide(j, seen))
           /\ \A ks \in KS : /\ Owed(Decide(j, seen), ks) <= Owed(j, ks)
                             /\ Held(Decide(j, seen), ks) <= IF ks = j.ks THEN seen.loss ELSE 0
<1> DEFINE d == Decide(j, seen)
<1>1. j.loss \in Nat /\ j.key.loss \in Int /\ seen.loss \in Nat /\ j.ks \in KS /\ j.limits[j.ks] \in Nat
  BY DEF Work, OwnKey
<1>2. CASE j.job = "record" /\ Binding(seen)
  <2> DEFINE r == [j EXCEPT !.refused = TRUE]
  <2>1. r \in Work /\ r.job = j.job /\ r.key = j.key /\ r.ks = j.ks /\ r.at = j.at /\ r.loss = j.loss
    BY DEF Work
  <2>2. d = Advance(r)
    BY <1>2 DEF Decide
  <2> HIDE DEF d, r
  <2>3. /\ d \in Work /\ Stage(d)
        /\ \A ks \in KS : Owed(d, ks) <= Owed(r, ks) /\ Held(d, ks) <= 0
    BY <1>2, <2>1, <2>2, Advanced
  <2>4. \A ks \in KS : Owed(r, ks) = Owed(j, ks)
    BY <2>1 DEF Owed, Pending, Unwritten
  <2>5. \A ks \in KS : Held(d, ks) \in Int
    BY <2>3 DEF Held, Owed, Work, OwnKey
  <2> QED
    BY <1>1, <2>3, <2>4, <2>5 DEF d
<1>3. CASE j.job = "record" /\ ~Binding(seen)
  <2> DEFINE key == Recorded(seen, j.loss, j.limits[j.ks], left[j.ks])
  <2>1. key \in OwnKey /\ key.present /\ key.loss <= seen.loss + j.loss
    BY <1>1, RecordedKey
  <2>2. d = [j EXCEPT !.at = "setOwn", !.key = key, !.refused = @ \/ key.halted]
    BY <1>3 DEF Decide
  <2> HIDE DEF key
  <2>3. d \in Work /\ d.job = j.job /\ d.key = key /\ d.ks = j.ks /\ d.at = "setOwn" /\ d.loss = j.loss
    BY <2>1, <2>2 DEF Work, Places, OwnKey
  <2> HIDE DEF d
  <2>4. Stage(d)
    BY <1>3, <2>1, <2>3 DEF Stage, Switching
  <2>5. key.loss \in Int
    BY <2>1 DEF OwnKey
  <2>6. ASSUME NEW ks \in KS
        PROVE  Owed(d, ks) <= Owed(j, ks) /\ Held(d, ks) <= IF ks = j.ks THEN seen.loss ELSE 0
    BY <1>1, <1>3, <2>1, <2>3, <2>5 DEF Owed, Pending, Unwritten, Held
  <2> QED
    BY <2>3, <2>4, <2>6 DEF d
<1>4. CASE j.job \in {"check", "resume"}
  <2>1. \A ks \in KS : Owed(j, ks) = 0
    BY <1>4 DEF Owed, Pending
  <2>2. CASE Binding(seen)
    <3>1. d = Idle
      BY <1>4, <2>2 DEF Decide
    <3>2. Idle.job = "none" /\ Idle.at = "idle"
      BY DEF Idle
    <3> HIDE DEF d
    <3> QED
      BY <1>1, <2>1, <3>1, <3>2, KeyTypes DEF Owed, Pending, Held, d
  <2>3. CASE \/ j.job = "check" /\ ~Binding(seen) /\ seen.halted
             \/ j.job = "resume" /\ ~Binding(seen) /\ j.ks # "daily"
    <3>1. PICK ks \in KS : d = [j EXCEPT !.ks = ks, !.at = "setOwn", !.key = Fresh]
      <4>1. CASE j.job = "check"
        <5>1. d = [j EXCEPT !.at = "setOwn", !.key = Fresh]
          BY <2>3, <4>1 DEF Decide
        <5>2. d = [j EXCEPT !.ks = j.ks, !.at = "setOwn", !.key = Fresh]
          BY <5>1 DEF Work
        <5> QED
          BY <1>1, <5>2
      <4>2. CASE j.job = "resume"
        <5>1. d = [j EXCEPT !.ks = "daily", !.at = "setOwn", !.key = Fresh]
          BY <2>3, <4>2 DEF Decide
        <5> QED
          BY <5>1, Switches
      <4> QED
        BY <1>4, <4>1, <4>2
    <3>2. d \in Work /\ d.job = j.job /\ d.key = Fresh /\ d.at = "setOwn"
      BY <3>1, KeyTypes DEF Work, Places
    <3> HIDE DEF d
    <3>3. Stage(d)
      BY <1>4, <3>2, KeyTypes DEF Stage, Switching
    <3> QED
      BY <1>1, <1>4, <2>1, <3>2, <3>3, KeyTypes DEF Owed, Pending, Held, d
  <2>4. CASE j.job = "check" /\ ~Binding(seen) /\ ~seen.halted
    <3>1. d = Advance(j)
      BY <2>4 DEF Decide
    <3>2. /\ d \in Work /\ Stage(d)
          /\ \A ks \in KS : Owed(d, ks) <= Owed(j, ks) /\ Held(d, ks) <= 0
      BY <2>4, <3>1, Advanced
    <3> HIDE DEF d
    <3>3. \A ks \in KS : Held(d, ks) \in Int
      BY <3>2 DEF Held, Owed, Work, OwnKey
    <3> QED
      BY <1>1, <3>2, <3>3 DEF d
  <2>5. CASE j.job = "resume" /\ ~Binding(seen) /\ j.ks = "daily"
    <3>1. d = [j EXCEPT !.ks = "weekly", !.at = "getOwn"]
      BY <2>5 DEF Decide
    <3>2. d \in Work /\ d.job = j.job /\ d.key = j.key /\ d.at = "getOwn"
      BY <3>1, Switches DEF Work, Places
    <3> HIDE DEF d
    <3>3. Stage(d)
      BY <2>5, <3>2 DEF Stage, Switching
    <3> QED
      BY <1>1, <1>4, <2>1, <3>2, <3>3 DEF Owed, Pending, Held, d
  <2> QED
    BY <1>4, <2>2, <2>3, <2>4, <2>5
<1> QED
  BY <1>2, <1>3, <1>4 DEF Switching

--------------------------------------------------------------------------------
(* What is owed in all.                                                               *)

(* What a worker owes is a natural number, and so is what all of them owe.            *)
LEMMA OwedType ==
    ASSUME NEW j \in Work, NEW ks \in KS
    PROVE  Owed(j, ks) \in Nat /\ Held(j, ks) \in Int
BY DEF Owed, Held, Work, OwnKey

LEMMA DueType ==
    ASSUME work \in [Workers -> Work], NEW ks \in KS
    PROVE  Due(ks) \in Nat
<1> DEFINE f == [w \in Workers |-> Owed(work[w], ks)]
<1>1. \A w \in Workers : f[w] \in Nat
  BY OwedType
<1> HIDE DEF f
<1>2. SumFunctionOnSet(f, Workers) \in Nat
  BY <1>1, WorkersAssumption, SumIsNatural
<1> QED
  BY <1>2 DEF Due, f

(* When one worker goes on, what is owed changes by what it does.                     *)
LEMMA DueGoes ==
    ASSUME work \in [Workers -> Work], NEW w \in Workers, NEW j \in Work, Goes(w, j), NEW ks \in KS
    PROVE  Due(ks)' = Due(ks) - Owed(work[w], ks) + Owed(j, ks)
<1> DEFINE f == [x \in Workers |-> Owed(work[x], ks)]
           g == [x \in Workers |-> Owed(work'[x], ks)]
<1>1. work' \in [Workers -> Work] /\ work'[w] = j /\ \A x \in Workers \ {w} : work'[x] = work[x]
  BY DEF Goes
<1>2. \A x \in Workers : f[x] \in Int /\ g[x] \in Int
  BY <1>1, OwedType
<1>3. \A x \in Workers \ {w} : g[x] = f[x]
  BY <1>1
<1>4. f[w] = Owed(work[w], ks) /\ g[w] = Owed(j, ks)
  BY <1>1
<1>5. Due(ks) = SumFunctionOnSet(f, Workers) /\ Due(ks)' = SumFunctionOnSet(g, Workers)
  BY DEF Due
<1> HIDE DEF f, g
<1>6. SumFunctionOnSet(g, Workers) = SumFunctionOnSet(f, Workers) - f[w] + g[w]
  BY <1>2, <1>3, WorkersAssumption, SumOfChanged
<1> QED
  BY <1>4, <1>5, <1>6

(* The books stay in order when a worker goes on without owing more, whether it reads *)
(* a switch's losses, has them written, or leaves them alone.                         *)
LEMMA AccountedGoes ==
    ASSUME TypeInv, Accounted, NEW w \in Workers, NEW j \in Work, Goes(w, j), charged' = charged,
           \A ks \in KS :
              /\ Owed(j, ks) <= Owed(work[w], ks)
              /\ Held(j, ks) <= own[ks].loss
              /\ \/ own'[ks].loss <= own[ks].loss
                 \/ own'[ks].loss <= Held(work[w], ks) + Owed(work[w], ks) - Owed(j, ks)
              /\ own'[ks].loss \in Nat
    PROVE  Accounted'
<1> SUFFICES ASSUME NEW ks \in KS
             PROVE  /\ own'[ks].loss + Due(ks)' <= charged[ks]
                    /\ \A x \in Workers : Held(work'[x], ks) + Due(ks)' <= charged[ks]
  BY DEF Accounted
<1>1. work \in [Workers -> Work] /\ own[ks].loss \in Nat /\ charged[ks] \in Nat
  BY DEF TypeInv, TypeOK, OwnKey
<1>2. /\ Due(ks) \in Nat /\ Owed(j, ks) \in Nat /\ Held(j, ks) \in Int
      /\ \A x \in Workers : Owed(work[x], ks) \in Nat /\ Held(work[x], ks) \in Int
  BY <1>1, DueType, OwedType
<1>3. Due(ks)' = Due(ks) - Owed(work[w], ks) + Owed(j, ks)
  BY <1>1, DueGoes
<1>4. /\ own[ks].loss + Due(ks) <= charged[ks]
      /\ \A x \in Workers : Held(work[x], ks) + Due(ks) <= charged[ks]
  BY DEF Accounted
<1>5. \A x \in Workers : work'[x] = IF x = w THEN j ELSE work[x]
  BY <1>1 DEF Goes
<1>6. own'[ks].loss + Due(ks)' <= charged[ks]
  BY <1>1, <1>2, <1>3, <1>4
<1>7. \A x \in Workers : Held(work'[x], ks) + Due(ks)' <= charged[ks]
  BY <1>1, <1>2, <1>3, <1>4, <1>5
<1> QED
  BY <1>6, <1>7

--------------------------------------------------------------------------------
(* The steps.                                                                         *)

(* The initial state.                                                                 *)
LEMMA Start == Init => TypeInv /\ Accounted
<1> SUFFICES ASSUME Init PROVE TypeInv /\ Accounted
  OBVIOUS
<1>1. TypeInv
  BY KeyTypes, Switches, BoundsAssumption DEF Init, TypeInv, TypeOK
<1>2. ASSUME NEW ks \in KS
      PROVE  own[ks].loss + Due(ks) <= charged[ks] /\ \A w \in Workers : Held(work[w], ks) = 0
  <2> DEFINE f == [w \in Workers |-> Owed(work[w], ks)]
  <2>1. \A w \in Workers : f[w] = 0
    BY DEF Init, Owed, Pending, Idle
  <2> HIDE DEF f
  <2>2. SumFunctionOnSet(f, Workers) <= 0 * Cardinality(Workers)
    BY <2>1, WorkersAssumption, SumOfAtMost
  <2>3. Cardinality(Workers) \in Nat
    BY WorkersAssumption, FS_CardinalityType
  <2>4. Due(ks) <= 0 /\ Due(ks) \in Nat
    BY <1>1, <2>2, <2>3, DueType DEF Due, f, TypeInv, TypeOK
  <2> QED
    BY <2>4, KeyTypes DEF Init, Held, Idle
<1>3. \A ks \in KS : charged[ks] = 0 /\ own[ks].loss = 0 /\ Due(ks) \in Nat
  BY <1>1, DueType, KeyTypes DEF Init, TypeInv, TypeOK
<1> QED
  BY <1>1, <1>2, <1>3 DEF Accounted

(* A worker that goes on leaves the others where they are.                            *)
LEMMA TypeGoes ==
    ASSUME TypeInv, NEW w \in Workers, NEW j \in Work, Stage(j), Goes(w, j)
    PROVE  work' \in [Workers -> Work] /\ \A x \in Workers : Stage(work'[x])
BY DEF TypeInv, TypeOK, Goes

(* A handler that takes up a closed trade: what it owes is charged.                   *)
LEMMA StartRecordStep ==
    ASSUME TypeInv, Accounted, NEW w \in Workers, NEW loss \in Losses, NEW limits \in Limits,
           StartRecord(w, loss, limits)
    PROVE  TypeInv' /\ Accounted'
<1> DEFINE j == [Idle EXCEPT !.job = "record", !.at = "getOwn", !.loss = loss, !.limits = limits]
<1>1. loss \in Nat /\ limits \in [KS -> Nat]
  BY LossesAssumption, LimitsAssumption
<1>2. j \in Work /\ j.job = "record" /\ j.at = "getOwn" /\ j.loss = loss /\ j.ks = "daily"
  BY <1>1, KeyTypes DEF Work, Idle, AllJobs, Places
<1>3. Goes(w, j)
  BY DEF StartRecord
<1> HIDE DEF j
<1>4. Stage(j)
  BY <1>2 DEF Stage, Switching
<1>5. TypeInv'
  <2>1. charged' \in [KS -> Nat] /\ budget' \in 0 .. Budget
    BY <1>1, BoundsAssumption DEF StartRecord, TypeInv, TypeOK
  <2> QED
    BY <1>2, <1>3, <1>4, <2>1, TypeGoes DEF StartRecord, TypeInv, TypeOK
<1>6. ASSUME NEW ks \in KS
      PROVE  /\ own'[ks].loss + Due(ks)' <= charged'[ks]
             /\ \A x \in Workers : Held(work'[x], ks) + Due(ks)' <= charged'[ks]
  <2>1. work \in [Workers -> Work] /\ own[ks].loss \in Nat /\ charged[ks] \in Nat
    BY DEF TypeInv, TypeOK, OwnKey
  <2>2. work[w].job = "none" /\ work[w].at = "idle"
    BY DEF StartRecord, At, TypeInv, Stage
  <2>3. Owed(work[w], ks) = 0
    BY <2>2 DEF Owed, Pending
  <2>4. Owed(j, ks) = loss /\ Held(j, ks) = 0
    BY <1>2, Switches DEF Owed, Pending, Unwritten, Held
  <2>5. Due(ks)' = Due(ks) - Owed(work[w], ks) + Owed(j, ks)
    BY <1>2, <1>3, <2>1, DueGoes
  <2>6. charged'[ks] = charged[ks] + loss /\ own'[ks] = own[ks]
    BY DEF StartRecord
  <2>7. /\ own[ks].loss + Due(ks) <= charged[ks]
        /\ \A x \in Workers : Held(work[x], ks) + Due(ks) <= charged[ks]
    BY DEF Accounted
  <2>8. Due(ks) \in Nat /\ \A x \in Workers : Held(work[x], ks) \in Int
    BY <2>1, DueType, OwedType
  <2>9. \A x \in Workers : work'[x] = IF x = w THEN j ELSE work[x]
    BY <1>3, <2>1 DEF Goes
  <2> QED
    BY <1>1, <2>1, <2>3, <2>4, <2>5, <2>6, <2>7, <2>8, <2>9
<1> QED
  BY <1>5, <1>6 DEF Accounted

(* A step of a worker that leaves the switches' own keys alone: its new state is      *)
(* typed, it owes no more, and holds no more than what a switch has.                  *)
LEMMA OwnStays ==
    ASSUME TypeInv, Accounted, NEW w \in Workers, NEW j \in Work, Stage(j), Goes(w, j),
           UNCHANGED <<left, own, charged>>, shared' \in Halt, active' \in BOOLEAN,
           budget' \in 0 .. Budget, crashes' \in 0 .. Crashes,
           \A ks \in KS : /\ Owed(j, ks) <= Owed(work[w], ks)
                          /\ Held(j, ks) <= own[ks].loss
    PROVE  TypeInv' /\ Accounted'
<1>1. \A ks \in KS : own[ks].loss \in Nat
  BY DEF TypeInv, TypeOK, OwnKey
<1>2. Accounted'
  BY <1>1, AccountedGoes
<1> QED
  BY <1>2, TypeGoes DEF TypeInv, TypeOK

(* What the invariant says of one worker and of the store.                            *)
LEMMA WorkerFacts ==
    ASSUME TypeInv, NEW w \in Workers
    PROVE  /\ work[w] \in Work /\ Stage(work[w]) /\ work[w].ks \in KS
           /\ left[work[w].ks] \in Nat /\ own[work[w].ks] \in OwnKey
           /\ own \in [KS -> OwnKey] /\ shared \in Halt /\ active \in BOOLEAN
           /\ budget \in 0 .. Budget /\ crashes \in 0 .. Crashes
           /\ \A ks \in KS : own[ks].loss \in Nat /\ Owed(work[w], ks) \in Nat
BY OwedType DEF TypeInv, TypeOK, Work, OwnKey

(* A worker that leaves its handler.                                                  *)
LEMMA Leaves ==
    ASSUME TypeInv, Accounted, NEW w \in Workers, Goes(w, Idle),
           UNCHANGED <<left, own, charged>>, shared' \in Halt, active' \in BOOLEAN,
           budget' \in 0 .. Budget, crashes' \in 0 .. Crashes
    PROVE  TypeInv' /\ Accounted'
<1>1. Idle.job = "none" /\ Idle.at = "idle"
  BY DEF Idle
<1>2. \A ks \in KS : Owed(Idle, ks) = 0 /\ Held(Idle, ks) = 0
  BY <1>1 DEF Owed, Pending, Held
<1> QED
  BY <1>2, KeyTypes, WorkerFacts, OwnStays

(* A worker that only goes to another place of the same handler.                      *)
LEMMA Walks ==
    ASSUME TypeInv, Accounted, NEW w \in Workers, NEW place \in Places,
           Goes(w, [work[w] EXCEPT !.at = place]), Stage([work[w] EXCEPT !.at = place]),
           Unwritten(work[w]) \/ place \notin {"getOwn", "getShared", "setOwn"}, place # "setOwn",
           UNCHANGED <<left, own, charged>>, shared' \in Halt, active' \in BOOLEAN,
           budget' \in 0 .. Budget, crashes' \in 0 .. Crashes
    PROVE  TypeInv' /\ Accounted'
<1> DEFINE j == [work[w] EXCEPT !.at = place]
<1>1. /\ j \in Work /\ j.at = place /\ j.job = work[w].job /\ j.ks = work[w].ks
      /\ j.loss = work[w].loss
  BY WorkerFacts DEF Work
<1> HIDE DEF j
<1>2. \A ks \in KS : Owed(j, ks) <= Owed(work[w], ks) /\ Held(j, ks) <= own[ks].loss
  <2> SUFFICES ASSUME NEW ks \in KS
               PROVE  Owed(j, ks) <= Owed(work[w], ks) /\ Held(j, ks) <= own[ks].loss
    OBVIOUS
  <2>1. work[w].loss \in Nat /\ own[ks].loss \in Nat
    BY WorkerFacts DEF Work
  <2>2. Pending(j, ks) => Pending(work[w], ks)
    BY <1>1 DEF Pending, Unwritten
  <2> QED
    BY <1>1, <2>1, <2>2 DEF Owed, Held
<1> QED
  BY <1>1, <1>2, OwnStays DEF j

(* A worker that has done with a switch.                                              *)
LEMMA MovesOn ==
    ASSUME TypeInv, Accounted, NEW w \in Workers, Goes(w, Advance(work[w])),
           work[w].at \in {"setShared", "peekShared", "peekOther", "delShared"},
           UNCHANGED <<left, own, charged, active, budget, crashes>>, shared' \in Halt
    PROVE  TypeInv' /\ Accounted'
<1> DEFINE j == Advance(work[w])
<1>1. /\ j \in Work /\ Stage(j)
      /\ \A ks \in KS : Owed(j, ks) <= Owed(work[w], ks) /\ Held(j, ks) <= 0
  BY WorkerFacts, Advanced DEF Stage
<1> HIDE DEF j
<1>2. \A ks \in KS : Held(j, ks) <= own[ks].loss
  BY <1>1, OwedType, WorkerFacts
<1> QED
  BY <1>1, <1>2, WorkerFacts, OwnStays DEF j

(* A worker that has read a switch.                                                   *)
LEMMA Reads ==
    ASSUME TypeInv, Accounted, NEW w \in Workers, NEW seen \in OwnKey,
           Goes(w, Decide(work[w], seen)), work[w].at \in {"getOwn", "getShared"},
           seen.loss <= own[work[w].ks].loss,
           UNCHANGED <<left, own, charged, active, budget, crashes, shared>>
    PROVE  TypeInv' /\ Accounted'
<1> DEFINE j == Decide(work[w], seen)
<1>1. /\ j \in Work /\ Stage(j)
      /\ \A ks \in KS : /\ Owed(j, ks) <= Owed(work[w], ks)
                        /\ Held(j, ks) <= IF ks = work[w].ks THEN seen.loss ELSE 0
  BY WorkerFacts, Decided DEF Stage
<1> HIDE DEF j
<1>2. seen.loss \in Nat
  BY DEF OwnKey
<1>3. \A ks \in KS : Held(j, ks) <= own[ks].loss
  BY <1>1, <1>2, OwedType, WorkerFacts
<1> QED
  BY <1>1, <1>3, WorkerFacts, OwnStays DEF j

(* A worker that writes a switch's own key: the one step that pays what it owes.      *)
LEMMA SetOwnStep ==
    ASSUME TypeInv, Accounted, NEW w \in Workers, SetOwn(w)
    PROVE  TypeInv' /\ Accounted'
<1> DEFINE k   == work[w].key
           key == IF k.halted THEN [k EXCEPT !.ttl = Ttl(k.until)] ELSE k
           j   == [work[w] EXCEPT !.at = IF key.halted THEN "setShared" ELSE "peekShared"]
<1>1. key \in OwnKey /\ key.loss = k.loss
  <2>1. k \in OwnKey /\ k.until \in Nat
    BY WorkerFacts DEF Work, OwnKey
  <2>2. Ttl(k.until) \in Nat
    BY <2>1, TtlBounds
  <2> QED
    BY <2>1, <2>2 DEF OwnKey
<1>2. /\ own' = [own EXCEPT ![work[w].ks] = key] /\ Goes(w, j) /\ work[w].at = "setOwn"
      /\ UNCHANGED <<left, budget, crashes, charged, shared, active>>
  BY DEF SetOwn, At, Stays
<1> HIDE DEF key
<1>3. /\ j \in Work /\ j.at \in {"setShared", "peekShared"} /\ j.job = work[w].job
      /\ j.ks = work[w].ks /\ j.loss = work[w].loss /\ j.key = k
  BY WorkerFacts DEF Work, Places
<1> HIDE DEF j
<1>4. Stage(j)
  BY <1>2, <1>3, WorkerFacts DEF Stage
<1>5. ASSUME NEW ks \in KS
      PROVE  /\ Owed(j, ks) <= Owed(work[w], ks)
             /\ Held(j, ks) <= own[ks].loss
             /\ \/ own'[ks].loss <= own[ks].loss
                \/ own'[ks].loss <= Held(work[w], ks) + Owed(work[w], ks) - Owed(j, ks)
             /\ own'[ks].loss \in Nat
  <2>1. /\ work[w].loss \in Nat /\ own[ks].loss \in Nat /\ k.loss \in Nat /\ key.loss \in Nat
        /\ work[w].ks \in KS /\ own \in [KS -> OwnKey]
    BY <1>1, WorkerFacts DEF Work, OwnKey
  <2>2. Owed(j, ks) <= Owed(work[w], ks) /\ Held(j, ks) <= own[ks].loss
    BY <1>2, <1>3, <2>1 DEF Owed, Pending, Unwritten, Held
  <2>3. CASE ks = work[w].ks
    <3>1. own'[ks].loss = k.loss
      BY <1>1, <1>2, <2>1, <2>3
    <3>2. Owed(j, ks) = 0
      BY <1>3, <2>3 DEF Owed, Pending, Unwritten
    <3>3. Held(work[w], ks) = k.loss - Owed(work[w], ks)
      BY <1>2, <2>3 DEF Held
    <3>4. Owed(work[w], ks) \in Nat
      BY WorkerFacts
    <3> QED
      BY <2>1, <2>2, <3>1, <3>2, <3>3, <3>4
  <2>4. CASE ks # work[w].ks
    BY <1>2, <2>1, <2>2, <2>4
  <2> QED
    BY <2>3, <2>4
<1>6. Accounted'
  BY <1>2, <1>3, <1>5, AccountedGoes
<1>7. own' \in [KS -> OwnKey]
  BY <1>1, <1>2, WorkerFacts
<1> QED
  BY <1>2, <1>3, <1>4, <1>6, <1>7, TypeGoes DEF TypeInv, TypeOK

(* A key that grows a tick older.                                                     *)
Before(n) == IF n = 0 THEN 0 ELSE n - 1

LEMMA AgedKeys ==
    /\ \A key \in OwnKey : /\ Aged(key, NoKey) \in OwnKey
                           /\ Aged(key, NoKey).loss <= key.loss
    /\ \A key \in Halt : Aged(key, NoHalt) \in Halt
<1>1. \A n \in Nat : Before(n) \in Nat
  BY DEF Before
<1>2. ASSUME NEW key \in OwnKey
      PROVE  Aged(key, NoKey) \in OwnKey /\ Aged(key, NoKey).loss <= key.loss
  <2> DEFINE a == [key EXCEPT !.ttl = Before(key.ttl), !.until = Before(key.until)]
  <2>1. Before(key.ttl) \in Nat /\ Before(key.until) \in Nat /\ key.loss \in Nat
    BY <1>1 DEF OwnKey
  <2>2. a \in OwnKey /\ a.loss = key.loss
    BY <2>1 DEF OwnKey
  <2>3. Aged(key, NoKey) = IF key.ttl = 1 THEN NoKey ELSE a
    BY DEF Aged, Before
  <2> HIDE DEF a
  <2> QED
    BY <2>1, <2>2, <2>3, KeyTypes
<1>3. ASSUME NEW key \in Halt PROVE Aged(key, NoHalt) \in Halt
  <2> DEFINE a == [key EXCEPT !.ttl = Before(key.ttl), !.until = Before(key.until)]
  <2>1. Before(key.ttl) \in Nat /\ Before(key.until) \in Nat
    BY <1>1 DEF Halt
  <2>2. a \in Halt
    BY <2>1 DEF Halt
  <2>3. Aged(key, NoHalt) = IF key.ttl = 1 THEN NoHalt ELSE a
    BY DEF Aged, Before
  <2> HIDE DEF a
  <2> QED
    BY <2>2, <2>3, KeyTypes
<1> QED
  BY <1>2, <1>3

(* Time passes: the ends of the halts that are about to be written come nearer.       *)
LEMMA TickStep ==
    ASSUME TypeInv, Accounted, Tick
    PROVE  TypeInv' /\ Accounted'
<1> DEFINE Later(j) == [j EXCEPT !.key.until = IF @ = 0 THEN 0 ELSE @ - 1]
<1>3. ASSUME NEW j \in Work
      PROVE  /\ Later(j) \in Work /\ Later(j).job = j.job /\ Later(j).at = j.at
             /\ Later(j).ks = j.ks /\ Later(j).loss = j.loss
             /\ Later(j).key.loss = j.key.loss /\ Later(j).key.present = j.key.present
  BY DEF Work, OwnKey
<1>4. work' = [w \in Workers |-> Later(work[w])]
  BY DEF Tick
<1> HIDE DEF Later
<1>5. \A w \in Workers : work[w] \in Work /\ Stage(work[w])
  BY DEF TypeInv, TypeOK
<1>6. work' \in [Workers -> Work] /\ \A w \in Workers : Stage(work'[w])
  BY <1>3, <1>4, <1>5 DEF Stage
<1>7. TypeInv'
  <2>1. left' \in [KS -> Nat \ {0}]
    <3>1. left' = [ks \in KS |-> IF left[ks] = 1 THEN Period(ks) ELSE left[ks] - 1]
      BY DEF Tick
    <3>2. ASSUME NEW ks \in KS
          PROVE  (IF left[ks] = 1 THEN Period(ks) ELSE left[ks] - 1) \in Nat \ {0}
      <4>1. left[ks] \in Nat \ {0} /\ Period(ks) \in Nat \ {0}
        BY Switches DEF TypeInv, TypeOK
      <4> QED
        BY <4>1
    <3> QED
      BY <3>1, <3>2
  <2>2. own' \in [KS -> OwnKey] /\ shared' \in Halt
    BY AgedKeys DEF Tick, TypeInv, TypeOK
  <2> QED
    BY <1>6, <2>1, <2>2 DEF Tick, TypeInv, TypeOK
<1>8. ASSUME NEW ks \in KS
      PROVE  /\ own'[ks].loss + Due(ks)' <= charged'[ks]
             /\ \A w \in Workers : Held(work'[w], ks) + Due(ks)' <= charged'[ks]
  <2> DEFINE f == [w \in Workers |-> Owed(work[w], ks)]
             g == [w \in Workers |-> Owed(work'[w], ks)]
  <2>1. \A w \in Workers : Owed(work'[w], ks) = Owed(work[w], ks) /\ Held(work'[w], ks) = Held(work[w], ks)
    BY <1>3, <1>4, <1>5 DEF Owed, Pending, Unwritten, Held
  <2>2. f = g
    BY <2>1
  <2>3. Due(ks)' = Due(ks)
    <3>1. Due(ks) = SumFunctionOnSet(f, Workers) /\ Due(ks)' = SumFunctionOnSet(g, Workers)
      BY DEF Due
    <3> HIDE DEF f, g
    <3> QED
      BY <2>2, <3>1
  <2>4. own[ks] \in OwnKey /\ charged[ks] \in Nat /\ charged' = charged /\ Due(ks) \in Nat
    BY DueType DEF Tick, TypeInv, TypeOK
  <2>5. own'[ks].loss <= own[ks].loss /\ own'[ks].loss \in Nat /\ own[ks].loss \in Nat
    BY AgedKeys, <2>4 DEF Tick, OwnKey, TypeInv, TypeOK
  <2>6. /\ own[ks].loss + Due(ks) <= charged[ks]
        /\ \A w \in Workers : Held(work[w], ks) + Due(ks) <= charged[ks]
    BY DEF Accounted
  <2> QED
    BY <2>1, <2>3, <2>4, <2>5, <2>6
<1> QED
  BY <1>7, <1>8 DEF Accounted

(* Every command of a worker.                                                         *)
LEMMA CommandStep ==
    ASSUME TypeInv, Accounted, NEW w \in Workers, Command(w)
    PROVE  TypeInv' /\ Accounted'
<1>1. Stage(work[w]) /\ work[w] \in Work /\ work[w].ks \in KS
  BY WorkerFacts
<1>2. CASE GetOwn(w)
  <2>1. CASE own[work[w].ks].present
    BY <1>2, <2>1, WorkerFacts, Reads DEF GetOwn, At, Stays, OwnKey
  <2>2. CASE ~own[work[w].ks].present
    <3> DEFINE j == [work[w] EXCEPT !.at = "getShared"]
    <3>1. Goes(w, j) /\ work[w].at = "getOwn"
      BY <1>2, <2>2 DEF GetOwn, At
    <3>2. j \in Work /\ j.at = "getShared" /\ j.job = work[w].job /\ j.key = work[w].key
      BY <1>1 DEF Work, Places
    <3>3. Stage(j)
      BY <1>1, <3>1, <3>2 DEF Stage
    <3>4. UNCHANGED <<left, own, charged, active, budget, crashes, shared>>
      BY <1>2 DEF GetOwn, Stays
    <3> QED
      BY <3>1, <3>3, <3>4, WorkerFacts, Walks DEF Unwritten, Places
  <2> QED
    BY <2>1, <2>2
<1>3. CASE GetShared(w)
  <2> DEFINE seen == View([own EXCEPT ![work[w].ks] = NoKey], shared, work[w].ks)
  <2>1. seen \in OwnKey /\ seen.loss = 0 /\ own[work[w].ks].loss \in Nat
    BY WorkerFacts, ViewType
  <2>2. /\ Goes(w, Decide(work[w], seen)) /\ work[w].at = "getShared"
        /\ UNCHANGED <<left, own, charged, active, budget, crashes, shared>>
    BY <1>3 DEF GetShared, At, Stays
  <2> HIDE DEF seen
  <2> QED
    BY <2>1, <2>2, Reads
<1>4. CASE SetOwn(w)
  BY <1>4, SetOwnStep
<1>5. CASE SetShared(w) \/ DelShared(w)
  <2>1. work[w].key.until \in Nat
    BY <1>1 DEF Work, OwnKey
  <2>2. shared' \in Halt
    BY <1>1, <1>5, <2>1, KeyTypes DEF SetShared, DelShared
  <2> QED
    BY <1>5, <2>2, MovesOn DEF SetShared, DelShared, At, Stays
<1>6. CASE PeekShared(w)
  <2>1. CASE shared.trigger \in KS
    <3> DEFINE j == [work[w] EXCEPT !.at = "peekOther"]
    <3>1. Goes(w, j) /\ work[w].at = "peekShared"
      BY <1>6, <2>1 DEF PeekShared, At
    <3>2. j \in Work /\ j.at = "peekOther" /\ j.job = work[w].job /\ j.key = work[w].key
      BY <1>1 DEF Work, Places
    <3>3. Stage(j)
      BY <1>1, <3>1, <3>2 DEF Stage
    <3>4. UNCHANGED <<left, own, charged, active, budget, crashes, shared>>
      BY <1>6 DEF PeekShared, Stays
    <3> QED
      BY <3>1, <3>3, <3>4, WorkerFacts, Walks DEF Places
  <2>2. CASE shared.trigger \notin KS
    BY <1>6, <2>2, WorkerFacts, MovesOn DEF PeekShared, At, Stays
  <2> QED
    BY <2>1, <2>2
<1>7. CASE PeekOther(w)
  <2>1. CASE own[Other(work[w].ks)].halted
    BY <1>7, <2>1, WorkerFacts, MovesOn DEF PeekOther, At, Stays
  <2>2. CASE ~own[Other(work[w].ks)].halted
    <3> DEFINE j == [work[w] EXCEPT !.at = "delShared"]
    <3>1. Goes(w, j) /\ work[w].at = "peekOther"
      BY <1>7, <2>2 DEF PeekOther, At
    <3>2. j \in Work /\ j.at = "delShared" /\ j.job = work[w].job /\ j.key = work[w].key
      BY <1>1 DEF Work, Places
    <3>3. Stage(j)
      BY <1>1, <3>1, <3>2 DEF Stage
    <3>4. UNCHANGED <<left, own, charged, active, budget, crashes, shared>>
      BY <1>7 DEF PeekOther, Stays
    <3> QED
      BY <3>1, <3>3, <3>4, WorkerFacts, Walks DEF Places
  <2> QED
    BY <2>1, <2>2
<1>8. CASE Flag(w)
  <2>1. active' \in BOOLEAN
    BY <1>8 DEF Flag
  <2> QED
    BY <1>8, <2>1, WorkerFacts, Leaves DEF Flag, Stays
<1>9. CASE RiskRead(w)
  <2>1. CASE shared.trigger = "none"
    <3> DEFINE j == [work[w] EXCEPT !.at = "riskSet"]
    <3>1. Goes(w, j) /\ work[w].at = "riskRead"
      BY <1>9, <2>1 DEF RiskRead, At
    <3>2. j \in Work /\ j.at = "riskSet" /\ j.job = work[w].job /\ j.key = work[w].key
      BY <1>1 DEF Work, Places
    <3>3. Stage(j)
      BY <1>1, <3>1, <3>2 DEF Stage
    <3>4. UNCHANGED <<left, own, charged, active, budget, crashes, shared>>
      BY <1>9 DEF RiskRead, Stays
    <3> QED
      BY <3>1, <3>3, <3>4, WorkerFacts, Walks DEF Places
  <2>2. CASE shared.trigger # "none"
    BY <1>9, <2>2, WorkerFacts, Leaves DEF RiskRead, Stays
  <2> QED
    BY <2>1, <2>2
<1>10. CASE \E ks \in KS : RiskSet(w, ks)
  <2>1. shared' \in Halt
    BY <1>10, KeyTypes DEF RiskSet, TypeInv, TypeOK
  <2> QED
    BY <1>10, <2>1, WorkerFacts, Leaves DEF RiskSet, Stays
<1> QED
  BY <1>2, <1>3, <1>4, <1>5, <1>6, <1>7, <1>8, <1>9, <1>10 DEF Command

(* Every step.                                                                        *)
LEMMA Step ==
    ASSUME TypeInv, Accounted, [Next]_vars
    PROVE  TypeInv' /\ Accounted'
<1>1. CASE \E w \in Workers, loss \in Losses, limits \in Limits : StartRecord(w, loss, limits)
  BY <1>1, StartRecordStep
<1>2. ASSUME NEW w \in Workers, NEW job \in Jobs, StartOther(w, job)
      PROVE  TypeInv' /\ Accounted'
  <2> DEFINE j == [Idle EXCEPT !.job = job,
                               !.at = IF job = "risk" THEN "riskRead" ELSE "getOwn"]
  <2>1. /\ job \in AllJobs \ {"record"} /\ Goes(w, j) /\ budget' = budget - 1 /\ budget > 0
        /\ UNCHANGED <<left, own, shared, active, crashes, charged>>
    BY <1>2, JobsAssumption DEF StartOther
  <2>2. /\ j \in Work /\ j.job = job /\ j.key = NoKey
        /\ j.at = IF job = "risk" THEN "riskRead" ELSE "getOwn"
    BY <2>1, KeyTypes DEF Work, Idle, AllJobs, Places
  <2> HIDE DEF j
  <2>3. Stage(j)
    BY <2>1, <2>2, KeyTypes DEF Stage, Switching, AllJobs
  <2>4. \A ks \in KS : Owed(j, ks) = 0 /\ Held(j, ks) = 0
    BY <2>1, <2>2 DEF Owed, Pending, Held
  <2>5. budget' \in 0 .. Budget
    BY <2>1, WorkerFacts, BoundsAssumption
  <2> QED
    BY <2>1, <2>2, <2>3, <2>4, <2>5, WorkerFacts, OwnStays
<1>3. CASE \E w \in Workers : Command(w)
  BY <1>3, CommandStep
<1>4. CASE Tick
  BY <1>4, TickStep
<1>5. ASSUME NEW w \in Workers, Crash(w)
      PROVE  TypeInv' /\ Accounted'
  <2>1. crashes' \in 0 .. Crashes
    BY <1>5, WorkerFacts, BoundsAssumption DEF Crash
  <2> QED
    BY <1>5, <2>1, WorkerFacts, Leaves DEF Crash
<1>6. CASE UNCHANGED vars
  <2>1. \A ks \in KS : Due(ks)' = Due(ks)
    BY <1>6 DEF vars, Due
  <2> QED
    BY <1>6, <2>1 DEF vars, TypeInv, TypeOK, Accounted
<1> QED
  BY <1>1, <1>2, <1>3, <1>4, <1>5, <1>6 DEF Next

(* The invariant holds in every reachable state, of SafetyRace and of both situations. *)
THEOREM RaceInvariance == Spec => [](TypeInv /\ Accounted)
<1>1. TypeInv /\ Accounted /\ [Next]_vars => (TypeInv /\ Accounted)'
  BY Step
<1> QED
  BY Start, <1>1, PTL DEF Spec

(* Every variable keeps its type.                                                     *)
THEOREM RaceTypes == Spec => []TypeOK
<1>1. TypeInv => TypeOK
  BY DEF TypeInv
<1> QED
  BY RaceInvariance, <1>1, PTL

(* No interleaving of the read-modify-writes of any number of workers, with crashes    *)
(* in between, books more on a switch than what the trades have lost.                  *)
THEOREM NothingInvented == Spec => []NoInventedLoss
<1>1. TypeInv /\ Accounted => NoInventedLoss
  <2> SUFFICES ASSUME TypeInv, Accounted, NEW ks \in KS
               PROVE  own[ks].loss <= charged[ks]
    BY DEF NoInventedLoss
  <2>1. own[ks].loss \in Nat /\ charged[ks] \in Nat /\ Due(ks) \in Nat
    BY DueType DEF TypeInv, TypeOK, OwnKey
  <2> QED
    BY <2>1 DEF Accounted
<1> QED
  BY RaceInvariance, <1>1, PTL

--------------------------------------------------------------------------------
(* A single recorder.                                                                 *)

\* Only r records trades, and the others run the risk engine's checks.
Quiet(r) ==
    \A w \in Workers : /\ work[w].job \in {"none", "record", "risk"}
                       /\ w # r => work[w].job # "record"

\* A halted key's expiry is less than a second short of the halt's end.
SoundKey(key) ==
    key.halted => key.present /\ key.ttl > 0 /\ key.until < key.ttl + Second

\* What r has read is still so: no halt binds the switch it is about to write.
Lone(r) ==
    /\ Quiet(r)
    /\ \A ks \in KS : SoundKey(own[ks])
    /\ work[r].at \in {"getShared", "setOwn"} => ~Binding(own[work[r].ks])

(* A key that grows older stays sound, does not bind anew, and stops binding within a *)
(* second of the halt's end.                                                          *)
LEMMA AgedSound ==
    ASSUME NEW key \in OwnKey, SoundKey(key)
    PROVE  LET aged == Aged(key, NoKey)
           IN  /\ SoundKey(aged)
               /\ Binding(aged) => Binding(key)
               /\ Binding(key) /\ ~Binding(aged) => key.until <= Second
<1> DEFINE a == [key EXCEPT !.ttl = Before(key.ttl), !.until = Before(key.until)]
<1>1. Aged(key, NoKey) = IF key.ttl = 1 THEN NoKey ELSE a
  BY DEF Aged, Before
<1>2. key.ttl \in Nat /\ key.until \in Nat /\ Second \in Nat \ {0}
  BY SecondAssumption DEF OwnKey
<1>3. /\ a.ttl = Before(key.ttl) /\ a.until = Before(key.until)
      /\ a.halted = key.halted /\ a.present = key.present
  BY DEF OwnKey
<1> HIDE DEF a
<1>4. CASE key.ttl = 1
  <2>1. SoundKey(NoKey) /\ ~Binding(NoKey)
    BY KeyTypes DEF SoundKey, Binding
  <2> QED
    BY <1>1, <1>2, <1>4, <2>1 DEF SoundKey, Binding
<1>5. CASE key.ttl # 1
  <2>1. SoundKey(a)
    BY <1>2, <1>3, <1>5 DEF SoundKey, Before
  <2>2. Binding(a) => Binding(key)
    BY <1>2, <1>3 DEF Binding, Before
  <2>3. Binding(key) /\ ~Binding(a) => key.until <= Second
    BY <1>2, <1>3 DEF Binding, Before
  <2> QED
    BY <1>1, <1>5, <2>1, <2>2, <2>3
<1> QED
  BY <1>4, <1>5

(* A recorded key is sound, whatever it is aged by before it is written.              *)
LEMMA WrittenSound ==
    ASSUME NEW key \in OwnKey, key.present
    PROVE  SoundKey(IF key.halted THEN [key EXCEPT !.ttl = Ttl(key.until)] ELSE key)
<1>1. key.until \in Nat /\ Second \in Nat \ {0}
  BY SecondAssumption DEF OwnKey
<1>2. Ttl(key.until) \in Nat \ {0} /\ key.until < Ttl(key.until) + Second
  BY <1>1, TtlBounds
<1>3. CASE key.halted
  <2> DEFINE k == [key EXCEPT !.ttl = Ttl(key.until)]
  <2>1. k.until = key.until /\ k.ttl = Ttl(key.until) /\ k.present
    BY DEF OwnKey
  <2> HIDE DEF k
  <2>2. SoundKey(k)
    BY <1>1, <1>2, <2>1 DEF SoundKey
  <2> QED
    BY <1>3, <2>2 DEF k
<1>4. CASE ~key.halted
  BY <1>4 DEF SoundKey
<1> QED
  BY <1>3, <1>4

(* When r is the only one to record, a step keeps what r has read true, and only time *)
(* ends a binding halt.                                                               *)
LEMMA LoneStep ==
    ASSUME NEW r \in Workers, TypeInv, Lone(r), [Next]_vars, Quiet(r)'
    PROVE  Lone(r)' /\ HaltKept
<1>1. /\ own \in [KS -> OwnKey]
      /\ \A w \in Workers : work[w] \in Work /\ Stage(work[w]) /\ work[w].ks \in KS
      /\ \A w \in Workers \ {r} : work[w].at \in {"idle", "riskRead", "riskSet"}
      /\ Stage(work[r]) /\ work[r].job \in {"none", "record", "risk"}
  BY WorkerFacts DEF TypeInv, TypeOK, Lone, Quiet, Stage, Switching, Work, Places
<1>2. CASE Tick
  <2>1. \A ks \in KS : own'[ks] = Aged(own[ks], NoKey) /\ own[ks] \in OwnKey
    BY <1>1, <1>2 DEF Tick
  <2>2. \A ks \in KS : /\ SoundKey(own'[ks])
                       /\ Binding(own'[ks]) => Binding(own[ks])
                       /\ Binding(own[ks]) /\ ~Binding(own'[ks]) => own[ks].until <= Second
    BY <2>1, AgedSound DEF Lone
  <2>3. work'[r].at = work[r].at /\ work'[r].ks = work[r].ks
    BY <1>1, <1>2 DEF Tick, Work
  <2> QED
    BY <1>1, <1>2, <2>2, <2>3 DEF Lone, HaltKept
<1>3. CASE SetOwn(r)
  <2> DEFINE k   == work[r].key
             key == IF k.halted THEN [k EXCEPT !.ttl = Ttl(k.until)] ELSE k
             j   == [work[r] EXCEPT !.at = IF key.halted THEN "setShared" ELSE "peekShared"]
  <2>1. own' = [own EXCEPT ![work[r].ks] = key] /\ Goes(r, j) /\ work[r].at = "setOwn"
    BY <1>3 DEF SetOwn, At
  <2>2. SoundKey(key)
    <3>1. k \in OwnKey /\ k.present
      BY <1>1, <2>1 DEF Work, Stage
    <3> QED
      BY <3>1, WrittenSound
  <2> HIDE DEF key
  <2>3. work'[r].at \notin {"getShared", "setOwn"}
    BY <1>1, <2>1 DEF Goes, Work, TypeInv, TypeOK
  <2>4. ~Binding(own[work[r].ks])
    BY <2>1 DEF Lone
  <2>5. \A ks \in KS : own'[ks] = IF ks = work[r].ks THEN key ELSE own[ks]
    BY <1>1, <2>1
  <2> QED
    BY <2>2, <2>3, <2>4, <2>5 DEF Lone, HaltKept
<1>4. CASE own' = own /\ work'[r].at \notin {"getShared", "setOwn"}
  BY <1>4 DEF Lone, HaltKept
<1>5. CASE GetOwn(r) \/ GetShared(r)
  <2>1. own' = own /\ work[r].job = "record" /\ work[r].at \in {"getOwn", "getShared"}
    BY <1>1, <1>5 DEF GetOwn, GetShared, At, Stage, Switching
  <2>2. PICK seen \in OwnKey :
           /\ Goes(r, Decide(work[r], seen)) \/ Goes(r, [work[r] EXCEPT !.at = "getShared"])
           /\ Binding(own[work[r].ks]) => seen = own[work[r].ks] /\ Goes(r, Decide(work[r], seen))
    <3>1. CASE GetOwn(r) /\ own[work[r].ks].present
      BY <1>1, <3>1 DEF GetOwn
    <3>2. CASE GetOwn(r) /\ ~own[work[r].ks].present
      <4>1. ~Binding(own[work[r].ks])
        BY <1>1, <3>2 DEF Lone, SoundKey, Binding
      <4> QED
        BY <1>1, <3>2, <4>1 DEF GetOwn
    <3>3. CASE GetShared(r)
      <4> DEFINE seen == View([own EXCEPT ![work[r].ks] = NoKey], shared, work[r].ks)
      <4>1. seen \in OwnKey
        BY WorkerFacts, ViewType
      <4>2. Goes(r, Decide(work[r], seen)) /\ work[r].at = "getShared"
        BY <3>3 DEF GetShared, At
      <4>3. ~Binding(own[work[r].ks])
        BY <4>2 DEF Lone
      <4> QED
        BY <4>1, <4>2, <4>3
    <3> QED
      BY <1>5, <3>1, <3>2, <3>3
  <2>3. CASE Binding(own[work[r].ks])
    <3>1. work'[r] = Decide(work[r], seen) /\ Binding(seen)
      BY <2>2, <2>3 DEF Goes, TypeInv, TypeOK
    <3>2. Decide(work[r], seen) = Advance([work[r] EXCEPT !.refused = TRUE])
      BY <2>1, <3>1 DEF Decide
    <3> DEFINE j == [work[r] EXCEPT !.refused = TRUE]
    <3>3. j.job = "record" /\ j \in Work
      BY <1>1, <2>1 DEF Work
    <3>4. Advance(j).at \notin {"getShared", "setOwn"}
      <4>1. CASE j.ks = "daily"
        BY <3>3, <4>1 DEF Advance, Work
      <4>2. CASE j.ks # "daily" /\ j.refused
        BY <3>3, <4>2 DEF Advance, Work
      <4>3. CASE j.ks # "daily" /\ ~j.refused
        BY <3>3, <4>3 DEF Advance, Idle
      <4> QED
        BY <4>1, <4>2, <4>3
    <3> QED
      BY <2>1, <3>1, <3>2, <3>4 DEF Lone, HaltKept
  <2>4. CASE ~Binding(own[work[r].ks])
    <3>1. work'[r].at \in {"getShared", "setOwn"} => work'[r].ks = work[r].ks
      <4>1. CASE Goes(r, [work[r] EXCEPT !.at = "getShared"])
        BY <1>1, <4>1 DEF Goes, Work, TypeInv, TypeOK
      <4>2. CASE Goes(r, Decide(work[r], seen)) /\ Binding(seen)
        <5> DEFINE j == [work[r] EXCEPT !.refused = TRUE]
        <5>1. work'[r] = Advance(j) /\ j \in Work /\ j.job = "record" /\ j.refused
          BY <1>1, <2>1, <4>2 DEF Goes, Decide, Work, TypeInv, TypeOK
        <5> HIDE DEF j
        <5>2. Advance(j).at \notin {"getShared", "setOwn"}
          BY <5>1 DEF Advance, Work
        <5> QED
          BY <5>1, <5>2
      <4>3. CASE Goes(r, Decide(work[r], seen)) /\ ~Binding(seen)
        BY <1>1, <2>1, <4>3 DEF Goes, Decide, Work, TypeInv, TypeOK
      <4> QED
        BY <2>2, <4>1, <4>2, <4>3
    <3> QED
      BY <2>1, <2>4, <3>1 DEF Lone, HaltKept
  <2> QED
    BY <2>3, <2>4
<1>6. CASE UNCHANGED vars
  BY <1>6 DEF vars, Lone, HaltKept
<1>7. ASSUME NEW w \in Workers, w # r, Command(w) \/ Crash(w)
      PROVE  Lone(r)' /\ HaltKept
  <2>1. own' = own /\ work'[r] = work[r]
    <3>1. Flag(w) \/ RiskRead(w) \/ (\E ks \in KS : RiskSet(w, ks)) \/ Crash(w)
      BY <1>1, <1>7 DEF Command, GetOwn, GetShared, SetOwn, SetShared, PeekShared, PeekOther,
                        DelShared, At
    <3> QED
      BY <1>7, <3>1 DEF Flag, RiskRead, RiskSet, Crash, Goes, TypeInv, TypeOK
  <2> QED
    BY <2>1 DEF Lone, HaltKept
<1>8. ASSUME NEW w \in Workers, \/ \E loss \in Losses, limits \in Limits : StartRecord(w, loss, limits)
                                \/ \E job \in Jobs : StartOther(w, job)
      PROVE  Lone(r)' /\ HaltKept
  <2>1. own' = own /\ (work'[r] = work[r] \/ work'[r].at \in {"getOwn", "riskRead"})
    BY <1>8 DEF StartRecord, StartOther, Goes, TypeInv, TypeOK, Idle
  <2> QED
    BY <2>1 DEF Lone, HaltKept
<1>9. CASE SetShared(r) \/ PeekShared(r) \/ PeekOther(r) \/ DelShared(r)
  <2>1. work[r].job = "record" /\ own' = own
    BY <1>1, <1>9 DEF SetShared, PeekShared, PeekOther, DelShared, At, Stage, Switching, Stays
  <2>2. Advance(work[r]).at \notin {"getShared", "setOwn"}
    BY <1>1, <2>1 DEF Advance, Work, Idle
  <2>3. work'[r] = Advance(work[r]) \/ work'[r].at \in {"peekOther", "delShared"}
    BY <1>1, <1>9 DEF SetShared, PeekShared, PeekOther, DelShared, Goes, Work, TypeInv, TypeOK
  <2> QED
    BY <1>4, <2>1, <2>2, <2>3
<1>10. CASE Flag(r) \/ RiskRead(r) \/ (\E ks \in KS : RiskSet(r, ks)) \/ Crash(r)
  <2>1. own' = own /\ work'[r].at \notin {"getShared", "setOwn"}
    BY <1>1, <1>10 DEF Flag, RiskRead, RiskSet, Crash, Goes, Idle, Work, TypeInv, TypeOK
  <2> QED
    BY <1>4, <2>1
<1> QED
  BY <1>2, <1>3, <1>5, <1>6, <1>7, <1>8, <1>9, <1>10 DEF Next, Command

(* A handler goes on as the same handler, or ends.                                    *)
LEMMA SameJob ==
    ASSUME NEW j \in Work
    PROVE  /\ Advance(j).job \in {j.job, "none"}
           /\ j.job \in Switching => \A seen \in OwnKey : Decide(j, seen).job \in {j.job, "none"}
<1>1. ASSUME NEW i \in Work PROVE Advance(i).job \in {i.job, "none"}
  BY DEF Advance, Idle, Work
<1>2. ASSUME j.job \in Switching, NEW seen \in OwnKey PROVE Decide(j, seen).job \in {j.job, "none"}
  <2> DEFINE r == [j EXCEPT !.refused = TRUE]
  <2>1. r \in Work /\ r.job = j.job
    BY DEF Work
  <2>2. Advance(r).job \in {j.job, "none"} /\ Advance(j).job \in {j.job, "none"}
    BY <1>1, <2>1
  <2>3. CASE j.job = "record" /\ Binding(seen)
    BY <2>2, <2>3 DEF Decide
  <2>4. CASE j.job = "record" /\ ~Binding(seen)
    BY <2>4 DEF Decide, Work
  <2>5. CASE j.job = "check"
    BY <2>2, <2>5 DEF Decide, Work, Idle
  <2>6. CASE j.job = "resume"
    BY <2>6 DEF Decide, Work, Idle
  <2> QED
    BY <1>2, <2>3, <2>4, <2>5, <2>6 DEF Switching
<1> QED
  BY <1>1, <1>2

(* What a step does to the job of a worker.                                           *)
LEMMA JobsOfAStep ==
    ASSUME TypeInv, [Next]_vars, NEW w \in Workers
    PROVE  \/ work'[w].job \in {work[w].job, "none"}
           \/ w \in Recorders /\ work'[w].job \in Jobs
           \/ work'[w].job \in Jobs \ {"record"}
<1>1. work \in [Workers -> Work] /\ \A x \in Workers : Stage(work[x])
  BY DEF TypeInv, TypeOK
<1>2. ASSUME NEW x \in Workers, NEW j, Goes(x, j), j.job \in {work[x].job, "none"}
      PROVE  work'[w].job \in {work[w].job, "none"}
  BY <1>1, <1>2 DEF Goes
<1>3. ASSUME NEW x \in Workers, Command(x) \/ Crash(x)
      PROVE  work'[w].job \in {work[w].job, "none"}
  <2>1. \E j : Goes(x, j) /\ j.job \in {work[x].job, "none"}
    <3>1. Idle.job = "none" /\ Advance(work[x]).job \in {work[x].job, "none"} /\ work[x] \in Work
      BY <1>1, SameJob DEF Idle
    <3>2. CASE Flag(x) \/ (\E ks \in KS : RiskSet(x, ks)) \/ Crash(x)
      BY <3>1, <3>2 DEF Flag, RiskSet, Crash
    <3>3. CASE SetShared(x) \/ PeekShared(x) \/ PeekOther(x) \/ DelShared(x) \/ RiskRead(x) \/ SetOwn(x)
      <4>1. \/ Goes(x, Idle) \/ Goes(x, Advance(work[x]))
            \/ \E place \in Places : Goes(x, [work[x] EXCEPT !.at = place])
        BY <3>3 DEF SetShared, PeekShared, PeekOther, DelShared, RiskRead, SetOwn, Places
      <4>2. \A place \in Places : [work[x] EXCEPT !.at = place].job = work[x].job
        BY <3>1 DEF Work
      <4> QED
        BY <3>1, <4>1, <4>2
    <3>4. CASE GetOwn(x) \/ GetShared(x)
      <4>1. work[x].job \in Switching
        BY <1>1, <3>4 DEF Stage, GetOwn, GetShared, At
      <4>2. \/ Goes(x, [work[x] EXCEPT !.at = "getShared"])
            \/ \E seen \in OwnKey : Goes(x, Decide(work[x], seen))
        <5>1. CASE GetOwn(x)
          BY <5>1, WorkerFacts DEF GetOwn
        <5>2. CASE GetShared(x)
          BY <5>2, WorkerFacts, ViewType DEF GetShared
        <5> QED
          BY <3>4, <5>1, <5>2
      <4>3. [work[x] EXCEPT !.at = "getShared"].job = work[x].job
        BY <3>1 DEF Work
      <4>4. \A seen \in OwnKey : Decide(work[x], seen).job \in {work[x].job, "none"}
        BY <3>1, <4>1, SameJob
      <4> QED
        BY <4>2, <4>3, <4>4
    <3> QED
      BY <1>3, <3>2, <3>3, <3>4 DEF Command
  <2> QED
    BY <1>2, <2>1
<1>4. CASE Tick
  BY <1>1, <1>4 DEF Tick, Work
<1>5. ASSUME NEW x \in Workers, NEW loss \in Losses, NEW limits \in Limits,
             StartRecord(x, loss, limits)
      PROVE  (w = x /\ w \in Recorders /\ work'[w].job \in Jobs) \/ work'[w] = work[w]
  <2>1. [Idle EXCEPT !.job = "record", !.at = "getOwn", !.loss = loss, !.limits = limits].job = "record"
    BY DEF Idle
  <2> QED
    BY <1>1, <1>5, <2>1 DEF StartRecord, Goes
<1>6. ASSUME NEW x \in Workers, NEW job \in Jobs, StartOther(x, job)
      PROVE  work'[w].job \in Jobs \ {"record"} \/ work'[w] = work[w]
  <2>1. [Idle EXCEPT !.job = job, !.at = IF job = "risk" THEN "riskRead" ELSE "getOwn"].job = job
    BY DEF Idle
  <2> QED
    BY <1>1, <1>6, <2>1 DEF StartOther, Goes
<1>7. CASE UNCHANGED vars
  BY <1>7 DEF vars
<1> QED
  BY <1>3, <1>4, <1>5, <1>6, <1>7 DEF Next

(* As long as a single worker records trades and nobody checks or resumes, a halt     *)
(* lasts until its boundary: whatever halts the risk engine of any number of other    *)
(* workers writes in between, and wherever workers are killed.                        *)
THEOREM LoneRecorder ==
    ASSUME NEW r \in Workers, Recorders = {r}, Jobs \subseteq {"record", "risk"}
    PROVE  Spec => HaltSurvivesRaces
<1>1. Init => Lone(r)
  BY KeyTypes DEF Init, Lone, Quiet, SoundKey, Idle
<1>2. TypeInv /\ Lone(r) /\ [Next]_vars => Lone(r)' /\ HaltKept
  <2> SUFFICES ASSUME TypeInv, Lone(r), [Next]_vars PROVE Quiet(r)'
    BY LoneStep
  <2>1. ASSUME NEW w \in Workers
        PROVE  /\ work'[w].job \in {"none", "record", "risk"}
               /\ w # r => work'[w].job # "record"
    <3>1. work[w].job \in {"none", "record", "risk"} /\ (w # r => work[w].job # "record")
      BY DEF Lone, Quiet
    <3>2. CASE work'[w].job = work[w].job
      BY <3>1, <3>2
    <3>3. CASE work'[w].job = "none"
      BY <3>3
    <3>4. CASE w = r /\ work'[w].job \in Jobs
      BY <3>4
    <3>5. CASE work'[w].job \in Jobs \ {"record"}
      BY <3>5
    <3> QED
      BY <3>2, <3>3, <3>4, <3>5, JobsOfAStep
  <2> QED
    BY <2>1 DEF Quiet
<1>3. Lone(r) /\ TypeInv /\ [Next]_vars => [HaltKept]_vars
  BY <1>2
<1> QED
  BY RaceInvariance, <1>1, <1>2, <1>3, PTL DEF Spec, HaltSurvivesRaces

(* The same of the situation that a run explores: two workers, of which one records.  *)
THEOREM HaltSurvivesAlone ==
    ASSUME Workers = {w1, w2}
    PROVE  MCSpec => HaltSurvivesWhenAlone
<1>1. MCInit => TypeInv /\ Accounted /\ (alone => Lone(w1))
  <2>1. Init => Lone(w1)
    BY KeyTypes DEF Init, Lone, Quiet, SoundKey, Idle
  <2> QED
    BY <2>1, Start DEF MCInit
<1>2. ASSUME TypeInv, Accounted, alone => Lone(w1), [MCNext]_all
      PROVE  /\ (TypeInv /\ Accounted /\ (alone => Lone(w1)))'
             /\ [alone => HaltKept]_all
  <2>1. [Next]_vars /\ alone' = alone
    BY <1>2 DEF MCNext, all
  <2>2. TypeInv' /\ Accounted'
    BY <1>2, <2>1, Step
  <2>3. CASE alone /\ MCNext
    <3>1. Quiet(w1)'
      BY <2>3 DEF MCNext, Situation, Quiet
    <3> QED
      BY <1>2, <2>1, <2>2, <2>3, <3>1, LoneStep
  <2>4. CASE ~alone
    BY <2>1, <2>2, <2>4
  <2>5. CASE UNCHANGED all
    BY <1>2, <2>2, <2>5 DEF all, vars, Lone, Quiet
  <2> QED
    BY <1>2, <2>3, <2>4, <2>5
<1> QED
  BY <1>1, <1>2, PTL DEF MCSpec, HaltSurvivesWhenAlone
================================================================================
