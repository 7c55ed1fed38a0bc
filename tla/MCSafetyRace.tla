----------------------------- MODULE MCSafetyRace ------------------------------
(* Two situations in one graph, chosen at the start and kept: either both workers *)
(* record trades, run any handler and may be killed, or a single one records      *)
(* trades while the other runs the risk engine's checks, and nobody is killed.    *)
EXTENDS SafetyRace

CONSTANTS w1, w2   \* the workers

VARIABLE alone     \* only w1 records trades

all == <<vars, alone>>

\* A limit that one big or two small losses reach, alone for the day or for both.
MCLimits == {[ks \in KS |-> 2], [ks \in KS |-> IF ks = "daily" THEN 2 ELSE 3]}
OneLimit == {[ks \in KS |-> 2]}

\* One more handler fits into the smaller situation.
Situation ==
    IF alone
    THEN crashes' = crashes /\ work'[w2].job # "record"
         /\ \A w \in Workers : work'[w].job \in {"none", "record", "risk"}
    ELSE budget' > 0 /\ \A w \in Workers : \A ks \in KS : work'[w].limits[ks] < 3

MCNext == Next /\ Situation /\ UNCHANGED alone
MCInit == Init /\ alone \in BOOLEAN
MCSpec == MCInit /\ [][MCNext]_all
MCFairSpec ==
    /\ MCSpec
    /\ WF_all(Tick /\ UNCHANGED alone)
    /\ \A w \in Workers : WF_all(Command(w) /\ UNCHANGED alone)

\* kill_switch.py:7-8, as far as it goes: with a single process recording trades,
\* whatever halts the risk engine writes in between, a switch's halt lasts until its
\* boundary. (With two of them it does not: HaltSurvivesRaces.)
HaltSurvivesWhenAlone == [][alone => HaltKept]_all
================================================================================
