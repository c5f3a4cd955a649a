----------------------------- MODULE GoldLoader -----------------------------
(***************************************************************************)
(* The gold-loader, for one forward curve: the consume loop ("main") that  *)
(* puts each event into the tumbling window of its timestamp, and the      *)
(* daemon thread ("poller") that takes the expired windows, keeps the      *)
(* authoritative snapshots and merges them into Snowflake.                 *)
(*                                                                         *)
(* Time advances in steps of one window.  An event may be read long after  *)
(* its window: it then opens the window again.                             *)
(***************************************************************************)
EXTENDS Integers, FiniteSetsExt

CONSTANTS
    MaxOffset,        \* the log holds offsets 1..MaxOffset
    Malformed,        \* offsets whose bytes do not deserialise
    MaxWindow,        \* events fall in windows 1..MaxWindow
    WindowOf,         \* the window of each event's timestamp
    TenorOf,          \* the tenor of each event
    Poor,             \* events with a quality score below min_quality_score
    MinPct,           \* min_completeness, in percent
    AuthPct,          \* auth_completeness_threshold, in percent
    ExpectedTenors,   \* expected_tenors_per_curve, 0 to learn it
    MaxNow,           \* bound: the clock stops there
    MaxFailures,      \* bound: MERGEs that raised
    MaxStops          \* bound: times the process stops and is started again

Offsets == 1..MaxOffset
WellFormed == Offsets \ Malformed
Windows == 1..MaxWindow

ASSUME GoldAssumption ==
    /\ MaxOffset \in Nat /\ MaxWindow \in Nat
    /\ Malformed \subseteq Offsets
    /\ WindowOf \in [Offsets -> Windows]
    /\ DOMAIN TenorOf = Offsets
    /\ Poor \subseteq Offsets
    /\ MinPct \in 0..100 /\ AuthPct \in 0..100
    /\ {ExpectedTenors, MaxFailures, MaxStops} \subseteq Nat
    /\ MaxNow \in Nat \ {0}

VARIABLES
    position,      \* the next offset the consumer polls
    committed,     \* the offset committed for the consumer group
    windows,       \* the events each open window received
    learned,       \* the largest number of tenors of a window taken so far
    mainPc,        \* where the consume loop is
    pollerPc,      \* where the poller is
    draining,      \* the poller is in its final drain
    batch,         \* the snapshots the poller is merging, by window
    connected,     \* SnowflakeClient._conn is not None
    stopping,      \* shutdown_event
    gold,          \* the events behind each row of FORWARD_CURVE_SNAPSHOTS
    now,           \* the clock, in windows
    failures,      \* MERGEs that raised so far
    stops,         \* times the process stopped so far
    loaded,        \* history: events that were in a row
    passedOver,    \* history: superseded in their window, or not authoritative
    unloaded,      \* history: in a batch that load_batch() gave up
    lost           \* history: in memory when the process stopped

readerVars == <<position, committed, mainPc>>
pollerVars == <<pollerPc, draining, batch, connected>>
assemblerVars == <<windows, learned>>
tableVars == <<gold, failures, loaded, unloaded>>
vars == <<readerVars, pollerVars, assemblerVars, stopping, tableVars, now, stops,
          passedOver, lost>>

Empty == [w \in Windows |-> {}]
InWindows == UNION {windows[w] : w \in Windows}
InBatch == UNION {batch[w] : w \in Windows}

Init ==
    /\ position = 1
    /\ committed = 1
    /\ windows = Empty
    /\ learned = 0
    /\ mainPc = "poll"
    /\ pollerPc = "wait"
    /\ draining = FALSE
    /\ batch = Empty
    /\ connected \in BOOLEAN
    /\ stopping = FALSE
    /\ gold = Empty
    /\ now = 1
    /\ failures = 0
    /\ stops = 0
    /\ loaded = {} /\ passedOver = {} /\ unloaded = {} /\ lost = {}

-----------------------------------------------------------------------------
(* The consume loop.                                                       *)

\* add() puts the event into its window; a message that does not deserialise is
\* only committed.  No event is read before its window began.
Poll ==
    /\ mainPc = "poll" /\ mainPc' = "commit"
    /\ ~stopping
    /\ position <= MaxOffset
    /\ position' = position + 1
    /\ IF position \in Malformed
       THEN UNCHANGED windows
       ELSE /\ WindowOf[position] <= now
            /\ windows' = [windows EXCEPT ![WindowOf[position]] = @ \cup {position}]
    /\ UNCHANGED <<committed, pollerVars, learned, stopping, tableVars, now, stops,
                   passedOver, lost>>

NextAfterCommit == position + 1
NothingStored == committed
NextToRead == position

Commit ==
    /\ mainPc = "commit" /\ mainPc' = "poll"
    /\ committed' = NextToRead
    /\ UNCHANGED <<position, pollerVars, assemblerVars, stopping, tableVars, now,
                   stops, passedOver, lost>>

-----------------------------------------------------------------------------
(* SnapshotAssembler.get_ready_snapshots() and GoldLoader.flush_ready().   *)

\* Two windows passed since the end of this one.
Expired(w) == now - (w + 1) >= 2
Due == {w \in Windows : windows[w] # {} /\ Expired(w)}

\* One price per tenor: the last to arrive.
Latest(w) ==
    {o \in windows[w] : \A n \in windows[w] : TenorOf[n] = TenorOf[o] => n <= o}
Tenors(w) == Cardinality(Latest(w))

\* Windows are taken in the order they were opened, and each one counts towards
\* what is expected of itself and of the later ones.
ExpectedOfItself(w) == Tenors(w)
Expected(w) ==
    IF ExpectedTenors > 0 THEN ExpectedTenors
    ELSE Max({learned} \cup {Tenors(v) : v \in {u \in Due : Min(windows[u]) <= Min(windows[w])}})

\* Completeness is capped at one.
Reaches(w, pct) == Tenors(w) >= Expected(w) \/ 100 * Tenors(w) >= pct * Expected(w)
Authoritative(w) ==
    /\ Reaches(w, MinPct)
    /\ Reaches(w, AuthPct)
    /\ Latest(w) \cap Poor = {}

AllTaken == Empty
Untaken == [w \in Windows |-> IF w \in Due THEN {} ELSE windows[w]]

AfterFlush == IF draining THEN "done" ELSE "wait"

\* Under the lock every expired window is removed; the authoritative snapshots
\* are what there is to load.
TakeExpired ==
    LET ready == {w \in Due : Authoritative(w)}
        kept == UNION {Latest(w) : w \in ready}
    IN /\ pollerPc \in {"wait", "drain"}
       /\ pollerPc = "wait" => ~stopping
       /\ pollerPc' = IF ready = {} THEN AfterFlush ELSE "merge"
       /\ pollerPc = "wait" => Due # {}
       /\ batch' = [w \in Windows |-> IF w \in ready THEN Latest(w) ELSE {}]
       /\ windows' = Untaken
       /\ learned' = IF ExpectedTenors > 0 THEN learned
                     ELSE Max({learned} \cup {Tenors(w) : w \in Due})
       /\ passedOver' = passedOver \cup ((UNION {windows[w] : w \in Due}) \ kept)
       /\ UNCHANGED <<readerVars, draining, connected, stopping, tableVars, now, stops, lost>>

-----------------------------------------------------------------------------
(* SnowflakeClient.load_batch().                                           *)

\* MERGE INTO on (curve_name, as_of): one row per window.
Merged == [w \in Windows |-> IF batch[w] # {} THEN batch[w] ELSE gold[w]]

\* With a connection, or once connect() made one, the MERGE returns.
Merge ==
    /\ pollerPc \in {"merge", "again"}
    /\ pollerPc' = AfterFlush
    /\ connected' = TRUE
    /\ gold' = Merged
    /\ loaded' = loaded \cup InBatch
    /\ batch' = Empty
    /\ UNCHANGED <<readerVars, draining, assemblerVars, stopping, failures, unloaded,
                   now, stops, passedOver, lost>>

Fails == failures < MaxFailures /\ failures' = failures + 1

\* The MERGE raises, and may have been applied all the same.
MergeRaises ==
    /\ Fails
    /\ \/ UNCHANGED <<gold, loaded>>
       \/ gold' = Merged /\ loaded' = loaded \cup InBatch

\* The client forgets its connection and tries once more.
FirstMergeRaises ==
    /\ pollerPc = "merge" /\ pollerPc' = "again"
    /\ MergeRaises
    /\ connected' = FALSE
    /\ UNCHANGED <<readerVars, draining, batch, assemblerVars, stopping, unloaded,
                   now, stops, passedOver, lost>>

\* load_batch() raises SnowflakeLoadError: there is no connection and all
\* attempts to make one fail, or the second MERGE raises.
LoadFails ==
    \/ /\ pollerPc \in {"merge", "again"}
       /\ ~connected
       /\ Fails
       /\ UNCHANGED <<gold, loaded, connected>>
    \/ /\ pollerPc = "again"
       /\ MergeRaises
       /\ connected' = TRUE

GiveUpEndsThread ==
    /\ LoadFails
    /\ pollerPc' = "done"
    /\ unloaded' = unloaded \cup InBatch
    /\ batch' = Empty
    /\ UNCHANGED <<readerVars, draining, assemblerVars, stopping, now, stops,
                   passedOver, lost>>
\* The error leaves flush_ready(), and with it the snapshots; the poller logs it.
GiveUp ==
    /\ LoadFails
    /\ pollerPc' = AfterFlush
    /\ unloaded' = unloaded \cup InBatch
    /\ batch' = Empty
    /\ UNCHANGED <<readerVars, draining, assemblerVars, stopping, now, stops,
                   passedOver, lost>>

-----------------------------------------------------------------------------
(* The clock, shutdown, crash and restart.                                 *)

Tick ==
    /\ now < MaxNow
    /\ now' = now + 1
    /\ UNCHANGED <<readerVars, pollerVars, assemblerVars, stopping, tableVars, stops,
                   passedOver, lost>>

Sigterm ==
    /\ ~stopping
    /\ stops < MaxStops
    /\ stopping' = TRUE
    /\ UNCHANGED <<readerVars, pollerVars, assemblerVars, tableVars, now, stops,
                   passedOver, lost>>

\* The consume loop sees the flag, or a commit raises, and main is in `finally`.
LeaveLoop ==
    /\ \/ mainPc = "poll" /\ stopping
       \/ mainPc = "commit" /\ (stopping \/ stops < MaxStops)
    /\ mainPc' = "join"
    /\ stopping' = TRUE
    /\ UNCHANGED <<position, committed, pollerVars, assemblerVars, tableVars, now,
                   stops, passedOver, lost>>

\* The poller leaves its loop for the final flush_ready().
StartDrain ==
    /\ stopping
    /\ pollerPc = "wait" /\ pollerPc' = "drain"
    /\ draining' = TRUE
    /\ UNCHANGED <<readerVars, batch, connected, assemblerVars, stopping, tableVars, now, stops,
                   passedOver, lost>>

\* Memory is gone - the open windows, the batch, what was learned - and a new
\* process resumes from the committed offset.
Restart ==
    /\ position' = committed
    /\ mainPc' = "poll"
    /\ pollerPc' = "wait"
    /\ draining' = FALSE
    /\ batch' = Empty
    /\ connected' \in BOOLEAN
    /\ windows' = Empty
    /\ learned' = 0
    /\ stopping' = FALSE
    /\ stops' = stops + 1
    /\ lost' = lost \cup InWindows \cup InBatch
    /\ UNCHANGED <<committed, tableVars, now, passedOver>>

\* join() returned - the drain is over, or thirty seconds passed - and main closes
\* the client, under the load of a poller that is still at it: a MERGE it breaks is
\* one of those that raise.
CloseClient ==
    /\ mainPc = "join" /\ mainPc' = "exit"
    /\ connected' = FALSE
    /\ UNCHANGED <<position, committed, pollerPc, draining, batch, assemblerVars, stopping,
                   tableVars, now, stops, passedOver, lost>>

\* sys.exit() ends the poller wherever it is.
Exit == mainPc = "exit" /\ Restart

Crash == stops < MaxStops /\ Restart

Next ==
    \/ Poll \/ Commit
    \/ TakeExpired \/ Merge \/ FirstMergeRaises \/ GiveUp
    \/ Tick
    \/ Sigterm \/ LeaveLoop \/ StartDrain \/ CloseClient \/ Exit \/ Crash

Spec == Init /\ [][Next]_vars

MainStep == Poll \/ Commit \/ (stopping /\ LeaveLoop) \/ CloseClient \/ Exit
PollerStep == TakeExpired \/ Merge \/ StartDrain

\* Time passes and both threads are scheduled.  Nothing obliges a MERGE to fail,
\* the process to be stopped or a commit to raise.
FairSpec == Spec /\ WF_now(Tick) /\ WF_vars(MainStep) /\ WF_vars(PollerStep)

-----------------------------------------------------------------------------
(* Correctness.                                                            *)

TypeOK ==
    /\ {position, committed} \subseteq 1..MaxOffset + 1
    /\ windows \in [Windows -> SUBSET WellFormed]
    /\ learned \in Nat
    /\ mainPc \in {"poll", "commit", "join", "exit"}
    /\ pollerPc \in {"wait", "drain", "merge", "again", "done"}
    /\ {draining, connected, stopping} \subseteq BOOLEAN
    /\ batch \in [Windows -> SUBSET WellFormed]
    /\ gold \in [Windows -> SUBSET WellFormed]
    /\ now \in 1..MaxNow
    /\ failures \in 0..MaxFailures /\ stops \in Nat
    /\ {loaded, passedOver, unloaded, lost} \subseteq SUBSET WellFormed

\* Each event that was read is in a window, in the batch, was in a row, or was
\* given up for a reason: superseded, not authoritative, a load that failed
\* twice, a stop.  Events that arrive while the poller merges are not among the
\* windows it took.
NothingMislaid ==
    \A o \in WellFormed :
        o < position =>
            o \in InWindows \cup InBatch \cup loaded \cup passedOver \cup unloaded \cup lost

\* A late event may replace the row of its window, but never by an older price of
\* a tenor - not by a retry, and not by what is read again after a restart.
PricesNeverGoBack ==
    [][\A w \in Windows : \A o \in gold[w], n \in gold'[w] :
            TenorOf[o] = TenorOf[n] => o <= n]_gold

\* As long as the process runs, a row is never replaced by a snapshot that is
\* less complete than the threshold allows: an event that opens its window again
\* cannot shrink the curve.  (A restarted process has forgotten how many tenors
\* to expect, and may: hence the condition.  The claim is made for tenors that are
\* learned: an expected_tenors_per_curve below what the curve really has lets a
\* row shrink to it.)
RowsDoNotCollapse ==
    [][stops = 0 =>
        \A w \in Windows :
            100 * Cardinality(gold'[w]) >= AuthPct * Cardinality(gold[w])]_gold

\* No window stays open and no snapshot stays in the poller's hands, whichever
\* loads fail: the poller survives them.
EveryWindowCloses == <>[](InWindows = {} /\ InBatch = {})

\* The claim of main.py:111: when a load fails, "the next poll cycle will retry".
NextPollRetries == stops = 0 => unloaded \subseteq loaded \cup InWindows \cup InBatch
=============================================================================
