------------------------------- MODULE CandleFeed ------------------------------
(* MarketDataCollector: candles from the exchange's WebSocket into the ohlcv table *)
(* and onto the trigger stream, with lost connections, restarts and the backfill   *)
(* that follows a reconnection. One symbol and one interval: every message and row *)
(* belongs to one of them and the code treats them alike. The caches that expire   *)
(* by themselves and the order book are left out.                                  *)
EXTENDS Integers, FiniteSets, FiniteSetsExt

CONSTANTS
    Length,       \* of a candle, in units of the clock
    Page,         \* candles the exchange returns to one request (_MAX_KLINES_PER_REQUEST)
    MaxTime, MaxDrops, MaxFailures   \* bounds: time, disconnections, failures

ASSUME FeedAssumption == /\ {Length, Page} \subseteq Nat \ {0}
                         /\ {MaxTime, MaxDrops, MaxFailures} \subseteq Nat

VARIABLES
    clock,
    link,      \* "up", "down": the WebSocket; "new": connected, not yet backfilled
    heard,     \* _last_kline_received; Never in a new process
    closing,   \* the exchange owes the closing message of this candle; Nothing
    ohlcv,     \* candle -> "none", "part", "full": its row in the table
    triggers,  \* candles published to stream:analysis_trigger
    cut,       \* ghost: candles that were open when a connection was lost
    spoilt,    \* ghost: candles a failure kept from the table
    beyond,    \* ghost: candles a backfill did not reach
    drops, failures

feedVars ==
    <<clock, link, heard, closing, ohlcv, triggers, cut, spoilt, beyond, drops, failures>>
tables   == <<ohlcv, triggers, spoilt, beyond>>

Never   == -1
Nothing == -1
Candles == 0 .. MaxTime \div Length
Current == clock \div Length
Over(k) == (k + 1) * Length <= clock

(******************************* the collector **********************************)

\* _handle_kline for the candle in progress.
Update == /\ link = "up" /\ closing = Nothing
          /\ heard' = clock
          /\ UNCHANGED <<clock, link, closing, tables, cut, drops, failures>>

\* The caches are written first: when Redis fails there, _dispatch swallows the whole
\* message, and a closed candle is neither stored nor announced.
Swallowed ==
    /\ link = "up" /\ closing # Nothing
    /\ failures < MaxFailures /\ failures' = failures + 1
    /\ spoilt' = spoilt \cup {closing} /\ closing' = Nothing
    /\ UNCHANGED <<clock, link, heard, ohlcv, triggers, cut, beyond, drops>>

\* _handle_kline for a closed candle. persist_kline and publish_candle_close each
\* swallow their own failure and what follows is done all the same.
CandleClosed ==
    /\ link = "up" /\ closing # Nothing
    /\ heard' = clock
    /\ \E saved, told \in BOOLEAN :
          LET both == (IF saved THEN 0 ELSE 1) + (IF told THEN 0 ELSE 1) IN
          /\ failures + both <= MaxFailures /\ failures' = failures + both
          /\ ohlcv' = IF saved THEN [ohlcv EXCEPT ![closing] = "full"] ELSE ohlcv
          /\ spoilt' = IF saved THEN spoilt ELSE spoilt \cup {closing}
          /\ triggers' = IF told THEN triggers \cup {closing} ELSE triggers
    /\ closing' = Nothing
    /\ UNCHANGED <<clock, link, cut, beyond, drops>>

\* A message lost with its connection is not sent again.
Lost == cut \cup {Current} \cup (IF closing = Nothing THEN {} ELSE {closing})

Drop == /\ link \in {"up", "new"} /\ drops < MaxDrops
        /\ link' = "down" /\ drops' = drops + 1
        /\ cut' = Lost /\ closing' = Nothing
        /\ UNCHANGED <<clock, heard, tables, failures>>

\* The process ends: what it had heard goes with it.
Crash == /\ drops < MaxDrops
         /\ link' = "down" /\ heard' = Never /\ drops' = drops + 1
         /\ cut' = IF link = "down" THEN cut ELSE Lost
         /\ closing' = Nothing
         /\ UNCHANGED <<clock, tables, failures>>

\* websockets.connect, after the pause of the back-off.
Connect == /\ link = "down" /\ link' = "new"
           /\ UNCHANGED <<clock, heard, closing, tables, cut, drops, failures>>

\* get_latest_kline_time: MAX(time) is the opening of the newest row.
Latest == LET stored == {k \in Candles : ohlcv[k] # "none"}
          IN  IF stored = {} THEN Never ELSE Max(stored) * Length

\* Variant: the candles from now on.
SinceNow == clock

Since == IF heard # Never THEN heard ELSE Latest

\* get_klines: the candles that open at startTime or later, the one in progress
\* included, and of these the first page only: the loop stops once it has `limit` of
\* them, and limit is the size of a page. parse_kline_rest calls each of them closed.
Missed(since)   == {k \in Candles : k * Length >= since /\ k <= Current}
Returned(since) == {k \in Missed(since) : k < Min(Missed(since)) + Page}

Recovered(set) == [k \in Candles |-> IF k \notin set THEN ohlcv[k]
                                     ELSE IF Over(k) THEN "full" ELSE "part"]

\* _backfill_missing. A failure of the requests or of the table recovers nothing.
Backfill ==
    /\ link = "new" /\ link' = "up"
    /\ IF Since = Never
       THEN UNCHANGED <<ohlcv, spoilt, beyond, failures>>
       ELSE \/ /\ ohlcv' = Recovered(Returned(Since))
               /\ beyond' = beyond \cup (Missed(Since) \ Returned(Since))
               /\ UNCHANGED <<spoilt, failures>>
            \/ /\ failures < MaxFailures /\ failures' = failures + 1
               /\ spoilt' = spoilt \cup Missed(Since)
               /\ UNCHANGED <<ohlcv, beyond>>
    /\ UNCHANGED <<clock, heard, closing, triggers, cut, drops>>

(*********************************** time ***************************************)

\* At the end of a candle the exchange sends its closing message on a connection
\* that stands, and it is the next one the collector handles, after the backfill.
Tick ==
    /\ clock < MaxTime /\ closing = Nothing
    /\ clock' = clock + 1
    /\ closing' = IF (clock + 1) % Length = 0 /\ link # "down" THEN Current ELSE Nothing
    /\ UNCHANGED <<link, heard, tables, cut, drops, failures>>

FeedInit ==
    /\ clock = 0 /\ link = "down" /\ heard = Never /\ closing = Nothing
    /\ ohlcv = [k \in Candles |-> "none"]
    /\ triggers = {} /\ cut = {} /\ spoilt = {} /\ beyond = {} /\ drops = 0 /\ failures = 0

FeedNext ==
    Update \/ CandleClosed \/ Swallowed \/ Drop \/ Crash \/ Connect \/ Backfill \/ Tick

FeedSpec == FeedInit /\ [][FeedNext]_feedVars

(********************************* properties ***********************************)

\* The first candle the collector ever heard of.
First == Min({k \in Candles : ohlcv[k] # "none"} \cup {MaxTime})

\* Once a reconnection has caught up, a candle between the first one stored and now
\* is missing from the table, or stored before it was over, only if a connection was
\* lost while it was open, a failure kept it out, or the collector was away for more
\* than a page: other candles that opened and closed meanwhile are all recovered.
HolesHaveCause ==
    link = "up" /\ closing = Nothing =>
        \A k \in Candles : First < k /\ Over(k) /\ ohlcv[k] # "full"
                                => k \in cut \cup spoilt \cup beyond
================================================================================
