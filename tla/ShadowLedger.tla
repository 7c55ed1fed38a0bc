----------------------------- MODULE ShadowLedger ------------------------------
(* What simulated trading promises of its book, without transactions, sessions,   *)
(* retries, locks or workers.  A run is entered in a single step, together with    *)
(* its answer, and is entered once; a trade is closed once, and for its age only   *)
(* when it is old; and what is open stays below a ceiling.                         *)
EXTENDS Integers, Functions

CONSTANTS
    Signals,     \* what a run may trade on
    Old,         \* the key of a trade older than the book's rules
    Risks,       \* worst losses a trade can be given
    Limited,     \* whether the open risk is limited
    Ceiling,     \* to how much
    Experiment   \* whether a trade may have a copy with other exits

Keys == Signals \X {"baseline_v1", "fast_exit_v2"} \cup {Old}
Trade(s) == <<s, "baseline_v1">>
Copy(s)  == <<s, "fast_exit_v2">>

VARIABLES
    book,   \* the trades, by key: status and risk
    told,   \* the answer given for each signal
    late    \* the copies that are past their time

vars == <<book, told, late>>

Nothing    == [status |-> "none", risk |-> 0]
Refused    == [status |-> "REJECTED", risk |-> 0]
Open(risk) == [status |-> "OPEN", risk |-> risk]
Trades     == {Open(risk) : risk \in Risks}
IsOpen(k)  == book[k].status = "OPEN"
OpenRisk(b) == SumFunction([k \in Keys |-> IF b[k].status = "OPEN" THEN b[k].risk ELSE 0])

\* A run that says "executed" has left a trade, one that says "rejected", or was
\* killed and says nothing, has left none; one of which something failed once its
\* trade was saved may have left it or not.
Answers == {"executed", "rejected", "silent", "in doubt"}
Agrees(answer, trade) ==
    /\ answer = "executed" => trade # Nothing
    /\ answer \in {"rejected", "silent"} => trade = Nothing

Init ==
    /\ book \in {[k \in Keys |-> Nothing], [k \in Keys |-> IF k = Old THEN Open(0) ELSE Nothing]}
    /\ told = [s \in Signals |-> "pending"]
    /\ late = {}

\* A run is over: it has left nothing, a trade, or a trade and its copy.
Enter(s) ==
    /\ told[s] = "pending" /\ told'[s] # "pending"
    /\ book[Trade(s)] = Nothing /\ book[Copy(s)] = Nothing
    /\ \E answer \in Answers, trade \in Trades \cup {Nothing},
          copy \in Trades \cup {Nothing, Refused} :
         /\ Agrees(answer, trade)
         /\ copy # Nothing => Experiment /\ trade # Nothing
         /\ told' = [told EXCEPT ![s] = answer]
         /\ book' = [book EXCEPT ![Trade(s)] = trade, ![Copy(s)] = copy]
    /\ Limited => OpenRisk(book') <= Ceiling
    /\ UNCHANGED late

\* Some of the open trades are closed.
Close ==
    /\ book' # book /\ UNCHANGED told
    /\ \E closed \in SUBSET {k \in Keys : IsOpen(k)} :
         \E end \in [closed -> {"TP_HIT", "SL_HIT", "MAX_HOLD"}] :
            /\ \A k \in closed : end[k] = "MAX_HOLD" => k \in late
            /\ book' = [k \in Keys |-> IF k \in closed THEN [book[k] EXCEPT !.status = end[k]]
                                        ELSE book[k]]
            /\ late' = late \ closed

\* An open copy is past its time.
Age(s) ==
    /\ IsOpen(Copy(s))
    /\ late' = late \cup {Copy(s)}
    /\ UNCHANGED <<book, told>>

Next == (\E s \in Signals : Enter(s) \/ Age(s)) \/ Close

Spec == Init /\ [][Next]_vars
================================================================================
