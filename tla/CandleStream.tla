------------------------------ MODULE CandleStream -----------------------------
(* The candle consumer: a process that reads the stream candle:close as the one    *)
(* consumer of a group, hands each message to Celery as an analysis cycle and      *)
(* acknowledges it. Redis keeps what was delivered and not acknowledged (the PEL). *)
(* Who writes candle:close is outside the repository: the collector's publisher    *)
(* writes stream:analysis_trigger. A message is its place in the stream.           *)
EXTENDS Integers, Sequences, FiniteSets, SequencesExt

CONSTANTS
    BatchSize,                        \* BATCH_SIZE
    MaxMessages, MaxStops, MaxErrors  \* bounds: messages, ends of the process, failures

ASSUME StreamAssumption == /\ BatchSize \in Nat \ {0}
                           /\ {MaxMessages, MaxStops, MaxErrors} \subseteq Nat

VARIABLES
    written,   \* messages in the stream
    group,     \* the group: made or not, the last message before it (first) and the
               \* last it has delivered
    pending,   \* delivered, not acknowledged
    batch,     \* messages of the reply the process has yet to handle
    at,        \* where the process is: "off", "reading", "price", "send", "ack"
    cycles,    \* analysis cycles enqueued for each message
    stops, errors

streamVars == <<written, group, pending, batch, at, cycles, stops, errors>>

Messages == 1 .. MaxMessages
New == group.last < written    \* there are messages the group has not delivered

\* The last message of the next reply, and the reply in the order of the stream.
Upto == IF written - group.last > BatchSize THEN group.last + BatchSize ELSE written
Reply == [i \in 1 .. (Upto - group.last) |-> group.last + i]
Delivered == group' = [group EXCEPT !.last = Upto]

StreamInit ==
    /\ written = 0 /\ group = [made |-> FALSE, first |-> 0, last |-> 0] /\ pending = {}
    /\ batch = <<>> /\ at = "off" /\ cycles = [m \in Messages |-> 0]
    /\ stops = 0 /\ errors = 0

\* A candle closes somewhere: XADD.
Write == /\ written < MaxMessages /\ written' = written + 1
         /\ UNCHANGED <<group, pending, batch, at, cycles, stops, errors>>

\* Variant: each start makes the group anew.
StartAtEnd == /\ at = "off" /\ at' = "reading"
              /\ group' = [made |-> TRUE, first |-> group.first, last |-> written]
              /\ UNCHANGED <<written, pending, batch, cycles, stops, errors>>

\* consume up to its loop: a group created now starts at the end of the stream ("$"),
\* one that exists is left as it is.
Start == /\ at = "off" /\ at' = "reading"
         /\ group' = IF group.made THEN group
                     ELSE [made |-> TRUE, first |-> written, last |-> written]
         /\ UNCHANGED <<written, pending, batch, cycles, stops, errors>>

\* What comes after a reply, a message or a failure.
Proceed(rest) == /\ batch' = rest /\ at' = IF rest = <<>> THEN "reading" ELSE "price"

\* Variant: what is pending is read again.
ReadPendingToo ==
    /\ at = "reading" /\ (New \/ pending # {})
    /\ Delivered /\ pending' = pending \cup (group.last + 1 .. Upto)
    /\ Proceed(SetToSeq(pending) \o Reply)
    /\ UNCHANGED <<written, cycles, stops, errors>>

\* XREADGROUP with ">": only what the group has never delivered.
Read ==
    /\ at = "reading" /\ New
    /\ Delivered /\ pending' = pending \cup (group.last + 1 .. Upto)
    /\ Proceed(Reply)
    /\ UNCHANGED <<written, cycles, stops, errors>>

\* Redis has delivered them, and the reply is lost: the loop sleeps and reads on.
ReadLost ==
    /\ at = "reading" /\ New /\ errors < MaxErrors /\ errors' = errors + 1
    /\ Delivered /\ pending' = pending \cup (group.last + 1 .. Upto)
    /\ UNCHANGED <<written, batch, at, cycles, stops>>

\* _process_message, its two calls, and the acknowledgement.
CachePrice == /\ at = "price" /\ at' = "send"
              /\ UNCHANGED <<written, group, pending, batch, cycles, stops, errors>>

Enqueued == cycles' = [cycles EXCEPT ![Head(batch)] = @ + 1]

Send == /\ at = "send" /\ at' = "ack" /\ Enqueued
        /\ UNCHANGED <<written, group, pending, batch, stops, errors>>

Ack == /\ at = "ack"
       /\ pending' = pending \ {Head(batch)}
       /\ Proceed(Tail(batch))
       /\ UNCHANGED <<written, group, cycles, stops, errors>>

\* A call that raises leaves the message to the PEL and goes on with the next one;
\* the broker and Redis may have done what was asked.
Fails ==
    /\ at \in {"price", "send", "ack"} /\ errors < MaxErrors /\ errors' = errors + 1
    /\ \/ UNCHANGED <<cycles, pending>>
       \/ at = "send" /\ Enqueued /\ UNCHANGED pending
       \/ at = "ack" /\ pending' = pending \ {Head(batch)} /\ UNCHANGED cycles
    /\ Proceed(Tail(batch))
    /\ UNCHANGED <<written, group, stops>>

\* A signal, a crash, a deployment: the rest of the batch is forgotten.
Stop == /\ at # "off" /\ stops < MaxStops /\ stops' = stops + 1
        /\ at' = "off" /\ batch' = <<>>
        /\ UNCHANGED <<written, group, pending, cycles, errors>>

Consume == Read \/ CachePrice \/ Send \/ Ack
StreamNext == Write \/ Start \/ Consume \/ ReadLost \/ Fails \/ Stop

\* A process that runs goes on. Nothing in the repository starts it.
StreamFairness == WF_streamVars(Consume)
StreamSpec == StreamInit /\ [][StreamNext]_streamVars /\ StreamFairness

(********************************* properties ***********************************)

LeftBehind == pending \ ToSet(batch)

\* However the process fails and restarts, a message the group has delivered starts at
\* most one cycle of analysis, and exactly one if it was acknowledged.
AnalysedOnce ==
    \A m \in Messages : /\ cycles[m] <= 1
                        /\ m \in (group.first + 1 .. group.last) \ pending => cycles[m] = 1

\* Provided somebody starts the process again whenever it has ended, a message written
\* once there is a group is analysed, or left to the PEL, in the end: a process that was
\* down, however often, finds what was written meanwhile (_ensure_group keeps the group).
EveryMessageEnds ==
    \A m \in Messages : []<>(at # "off") =>
        ((group.made /\ m = written /\ m > group.last) ~> (cycles[m] > 0 \/ m \in LeftBehind))
================================================================================
