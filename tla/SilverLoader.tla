---------------------------- MODULE SilverLoader ----------------------------
(***************************************************************************)
(* The silver-loader: one consumer of a partition of                       *)
(* market.events.normalized, its in-memory buffer, and the two threads     *)
(* that load the buffer into Snowflake - the consume loop ("main") and the *)
(* daemon flush timer ("timer").  Both use one SnowflakeClient: either may *)
(* drop the connection the other is about to use.                          *)
(*                                                                         *)
(* Snowflake is configured here.  Without credentials the loader throws    *)
(* every batch away, as flush() says.                                      *)
(***************************************************************************)
EXTENDS Integers, SequencesExt

CONSTANTS
    MaxOffset,      \* the log holds offsets 1..MaxOffset
    Malformed,      \* offsets whose bytes do not deserialise
    BatchSize,      \* settings.batch_size
    MaxFailures,    \* bound: connections refused and loads that raised
    MaxStops        \* bound: times the process stops and is started again

Offsets == 1..MaxOffset
WellFormed == Offsets \ Malformed
Threads == {"main", "timer"}

ASSUME SilverAssumption ==
    /\ MaxOffset \in Nat
    /\ Malformed \subseteq Offsets
    /\ BatchSize \in Nat \ {0}
    /\ MaxFailures \in Nat
    /\ MaxStops \in Nat

VARIABLES
    position,       \* the next offset the consumer polls
    committed,      \* the offset committed for the consumer group
    buffer,         \* SilverLoader._buffer, by offset
    pc,             \* where each thread is
    batch,          \* what each thread drained and is loading
    connection,     \* SnowflakeClient._conn: "none", "open", or the one close()
                    \* has closed and not forgotten yet
    stopping,       \* shutdown_event
    closing,        \* main left the consume loop and is in its `finally`
    rows,           \* how many rows of CURVE_EVENTS each event has
    failures,       \* connections refused and loads that raised so far
    phantom,        \* history: rows of loads that raised all the same
    giveUps,        \* history: loads that ended in SnowflakeLoadError
    closes,         \* history: connections that close() closed at shutdown
    stops,          \* times the process stopped so far
    lost,           \* history: committed events a stop found nowhere else
    handed          \* history: how often each event entered the buffer

offsetVars == <<position, committed>>
clientVars == <<batch, connection>>
shutdownVars == <<stopping, closing>>
tableVars == <<rows, failures, phantom, giveUps>>
historyVars == <<stops, closes, lost, handed>>
vars == <<offsetVars, buffer, pc, clientVars, shutdownVars, tableVars, historyVars>>

Held == ToSet(buffer) \cup ToSet(batch["main"]) \cup ToSet(batch["timer"])
Stored == {o \in Offsets : rows[o] > 0}
AtRisk == {o \in Held : o < committed} \ Stored

Goes(t, from, to) ==
    /\ pc[t] = from
    /\ pc' = [pc EXCEPT ![t] = to]

LoadLabels == {"flush", "connect", "copy", "reset", "reconnect", "recopy", "restore"}
MainLabels == {"poll", "commit", "join", "close", "forget", "exit"} \cup LoadLabels
TimerLabels == {"wait", "done"} \cup LoadLabels

InitialPc == [t \in Threads |-> IF t = "main" THEN "poll" ELSE "wait"]
NoBatches == [t \in Threads |-> <<>>]
Zero == [o \in Offsets |-> 0]

\* The client is used whether or not its first connection succeeded.
Init ==
    /\ position = 1
    /\ committed = 1
    /\ buffer = <<>>
    /\ pc = InitialPc
    /\ batch = NoBatches
    /\ connection \in {"none", "open"}
    /\ stopping = FALSE
    /\ closing = FALSE
    /\ rows = Zero
    /\ failures = 0
    /\ phantom = Zero
    /\ giveUps = 0
    /\ closes = 0
    /\ stops = 0
    /\ lost = {}
    /\ handed = Zero

-----------------------------------------------------------------------------
(* The consume loop.                                                       *)

\* process() appends the event and looks at the size under one lock; a message
\* that does not deserialise is only committed.
Poll ==
    /\ ~stopping
    /\ position <= MaxOffset
    /\ position' = position + 1
    /\ IF position \in Malformed
       THEN Goes("main", "poll", "commit") /\ UNCHANGED <<buffer, handed>>
       ELSE /\ buffer' = Append(buffer, position)
            /\ Goes("main", "poll",
                    IF Len(buffer') >= BatchSize THEN "flush" ELSE "commit")
            /\ handed' = [handed EXCEPT ![position] = @ + 1]
    /\ UNCHANGED <<committed, clientVars, shutdownVars, tableVars, stops, closes, lost>>

NextAfterCommit == position + 1
NextToRead == position

\* consumer.commit(msg) acknowledges every offset up to this message.
Commit ==
    /\ Goes("main", "commit", "poll")
    /\ committed' = NextToRead
    /\ UNCHANGED <<position, buffer, clientVars, shutdownVars, tableVars, historyVars>>

-----------------------------------------------------------------------------
(* SilverLoader.flush() and SnowflakeClient.load_batch(), by either thread. *)

\* Where a thread goes when flush() is over.  The consume loop commits only
\* after a return; the timer and close() swallow the error.
AfterFlush(t, raised) ==
    IF t = "timer" THEN "wait"
    ELSE IF closing THEN "close"
    ELSE IF raised THEN "poll" ELSE "commit"

DrainByCopy(t) ==
    /\ Goes(t, "flush", IF buffer = <<>> THEN AfterFlush(t, FALSE) ELSE "connect")
    /\ batch' = [batch EXCEPT ![t] = buffer]
    /\ UNCHANGED <<offsetVars, buffer, connection, shutdownVars, tableVars, historyVars>>
\* The buffer is copied and cleared under the lock; an empty one ends the flush.
Drain(t) ==
    /\ Goes(t, "flush", IF buffer = <<>> THEN AfterFlush(t, FALSE) ELSE "connect")
    /\ batch' = [batch EXCEPT ![t] = buffer]
    /\ buffer' = <<>>
    /\ UNCHANGED <<offsetVars, connection, shutdownVars, tableVars, historyVars>>

\* _ensure_connected(): nothing to do, or connect() succeeds.
Connect(t) ==
    /\ \/ Goes(t, "connect", "copy")
       \/ Goes(t, "reconnect", "recopy")
    /\ connection' = IF connection = "none" THEN "open" ELSE connection
    /\ UNCHANGED <<offsetVars, buffer, batch, shutdownVars, tableVars, historyVars>>

\* All attempts to connect fail.
ConnectFails(t) ==
    /\ pc[t] \in {"connect", "reconnect"}
    /\ pc' = [pc EXCEPT ![t] = "restore"]
    /\ connection = "none"
    /\ failures < MaxFailures
    /\ failures' = failures + 1
    /\ UNCHANGED <<offsetVars, buffer, clientVars, shutdownVars, rows, phantom,
                   giveUps, historyVars>>

OneMoreRow(f, t) ==
    [o \in Offsets |-> IF o \in ToSet(batch[t]) THEN f[o] + 1 ELSE f[o]]

CopyAndDisconnect(t) ==
    /\ pc[t] \in {"copy", "recopy"}
    /\ pc' = [pc EXCEPT ![t] = AfterFlush(t, FALSE)]
    /\ connection = "open"
    /\ connection' = "none"
    /\ rows' = OneMoreRow(rows, t)
    /\ batch' = [batch EXCEPT ![t] = <<>>]
    /\ UNCHANGED <<offsetVars, buffer, shutdownVars, failures, phantom, giveUps,
                   historyVars>>
\* COPY INTO returns: the whole batch is in the table.
Copy(t) ==
    /\ pc[t] \in {"copy", "recopy"}
    /\ pc' = [pc EXCEPT ![t] = AfterFlush(t, FALSE)]
    /\ connection = "open"
    /\ rows' = OneMoreRow(rows, t)
    /\ batch' = [batch EXCEPT ![t] = <<>>]
    /\ UNCHANGED <<offsetVars, buffer, connection, shutdownVars, failures, phantom,
                   giveUps, historyVars>>

AfterCopyFails(t) == IF pc[t] = "copy" THEN "reset" ELSE "restore"

\* PUT or COPY INTO raises; the rows may be there all the same.
CopyFails(t) ==
    /\ pc[t] \in {"copy", "recopy"}
    /\ pc' = [pc EXCEPT ![t] = AfterCopyFails(t)]
    /\ connection = "open"
    /\ failures < MaxFailures
    /\ failures' = failures + 1
    /\ \/ UNCHANGED <<rows, phantom>>
       \/ rows' = OneMoreRow(rows, t) /\ phantom' = OneMoreRow(phantom, t)
    /\ UNCHANGED <<offsetVars, buffer, clientVars, shutdownVars, giveUps, historyVars>>

\* The other thread dropped the connection since this one looked at it, so that the
\* assertion in _do_copy_into() fails, or it has closed it.
CopyFindsNoConnection(t) ==
    /\ pc[t] \in {"copy", "recopy"}
    /\ pc' = [pc EXCEPT ![t] = AfterCopyFails(t)]
    /\ connection # "open"
    /\ UNCHANGED <<offsetVars, buffer, clientVars, shutdownVars, tableVars, historyVars>>

ResetAndRetryForever(t) ==
    /\ Goes(t, "reset", "connect")
    /\ connection' = "none"
    /\ UNCHANGED <<offsetVars, buffer, batch, shutdownVars, tableVars, historyVars>>
\* After the first failure the client forgets its connection, whoever made it.
Reset(t) ==
    /\ Goes(t, "reset", "reconnect")
    /\ connection' = "none"
    /\ UNCHANGED <<offsetVars, buffer, batch, shutdownVars, tableVars, historyVars>>

RestoreOverBuffer(t) ==
    /\ Goes(t, "restore", AfterFlush(t, TRUE))
    /\ buffer' = batch[t]
    /\ batch' = [batch EXCEPT ![t] = <<>>]
    /\ giveUps' = giveUps + 1
    /\ UNCHANGED <<offsetVars, connection, shutdownVars, rows, failures, phantom,
                   historyVars>>
\* SnowflakeLoadError: the batch goes back in front of what arrived meanwhile.
Restore(t) ==
    /\ Goes(t, "restore", AfterFlush(t, TRUE))
    /\ buffer' = batch[t] \o buffer
    /\ batch' = [batch EXCEPT ![t] = <<>>]
    /\ giveUps' = giveUps + 1
    /\ UNCHANGED <<offsetVars, connection, shutdownVars, rows, failures, phantom,
                   historyVars>>

Flush(t) ==
    \/ Drain(t)
    \/ Connect(t) \/ ConnectFails(t)
    \/ Copy(t) \/ CopyFails(t) \/ CopyFindsNoConnection(t)
    \/ Reset(t)
    \/ Restore(t)

\* The wait of the daemon thread times out, or shutdown_event ends its loop.
TimerWakes ==
    /\ \/ ~stopping /\ buffer # <<>> /\ Goes("timer", "wait", "flush")
       \/ stopping /\ Goes("timer", "wait", "done")
    /\ UNCHANGED <<offsetVars, buffer, clientVars, shutdownVars, tableVars, historyVars>>

-----------------------------------------------------------------------------
(* Shutdown, crash and restart.                                            *)

Sigterm ==
    /\ ~stopping
    /\ stops < MaxStops
    /\ stopping' = TRUE
    /\ UNCHANGED <<offsetVars, buffer, pc, clientVars, closing, tableVars, historyVars>>

LeaveLoop ==
    /\ stopping
    /\ Goes("main", "poll", "join")
    /\ closing' = TRUE
    /\ UNCHANGED <<offsetVars, buffer, clientVars, stopping, tableVars, historyVars>>

\* commit() raises: the exception leaves the loop for `finally`, which sets the
\* flag itself.
CommitRaises ==
    /\ stopping \/ stops < MaxStops
    /\ Goes("main", "commit", "join")
    /\ stopping' = TRUE
    /\ closing' = TRUE
    /\ UNCHANGED <<offsetVars, buffer, clientVars, tableVars, historyVars>>

\* join() returns because the timer ended or because fifteen seconds passed, and
\* close() flushes what is in the buffer.
Close ==
    /\ Goes("main", "join", IF buffer = <<>> THEN "close" ELSE "flush")
    /\ UNCHANGED <<offsetVars, buffer, clientVars, shutdownVars, tableVars, historyVars>>

\* Then it closes the client, which calls close() of a connection that is there.
\* A timer that outlived the join may have a COPY under way on it: that raises in
\* the timer, though its rows may land.
CloseConnection ==
    /\ Goes("main", "close", IF connection = "open" THEN "forget" ELSE "exit")
    /\ IF connection = "open"
       THEN connection' = "closed" /\ closes' = closes + 1
       ELSE UNCHANGED <<connection, closes>>
    /\ \/ UNCHANGED <<rows, phantom>>
       \/ /\ connection = "open" /\ pc["timer"] \in {"copy", "recopy"}
          /\ rows' = OneMoreRow(rows, "timer") /\ phantom' = OneMoreRow(phantom, "timer")
    /\ UNCHANGED <<offsetVars, buffer, batch, shutdownVars, failures, giveUps, stops, lost,
                   handed>>

\* The client forgets its connection: by now it may be one that the timer made.
ForgetConnection ==
    /\ Goes("main", "forget", "exit")
    /\ connection' = "none"
    /\ UNCHANGED <<offsetVars, buffer, batch, shutdownVars, tableVars, historyVars>>

\* Memory is gone, and a new process resumes from the committed offset.
Restart ==
    /\ position' = committed
    /\ buffer' = <<>>
    /\ pc' = InitialPc
    /\ batch' = NoBatches
    /\ connection' \in {"none", "open"}
    /\ stopping' = FALSE
    /\ closing' = FALSE
    /\ stops' = stops + 1
    /\ lost' = lost \cup AtRisk
    /\ UNCHANGED <<committed, tableVars, closes, handed>>

\* sys.exit(0) ends the daemon thread too, wherever it is.
Exit == pc["main"] = "exit" /\ Restart

Crash == stops < MaxStops /\ Restart

Next ==
    \/ Poll \/ Commit \/ CommitRaises
    \/ Sigterm \/ LeaveLoop \/ Close \/ CloseConnection \/ ForgetConnection \/ Exit
    \/ TimerWakes
    \/ \E t \in Threads : Flush(t)
    \/ Crash

Spec == Init /\ [][Next]_vars

MainStep ==
    \/ Poll \/ Commit \/ Flush("main")
    \/ LeaveLoop \/ Close \/ CloseConnection \/ ForgetConnection \/ Exit
TimerStep == TimerWakes \/ Flush("timer")

\* Both threads are scheduled.  Nothing obliges a load to fail, the process to be
\* stopped or a commit to raise, and an outage ends (MaxFailures).
FairSpec == Spec /\ WF_vars(MainStep) /\ WF_vars(TimerStep)

-----------------------------------------------------------------------------
(* Correctness.                                                            *)

TypeOK ==
    /\ position \in 1..MaxOffset + 1
    /\ committed \in 1..MaxOffset + 1
    /\ buffer \in Seq(WellFormed)
    /\ pc \in [Threads -> MainLabels \cup TimerLabels]
    /\ pc["main"] \in MainLabels /\ pc["timer"] \in TimerLabels
    /\ batch \in [Threads -> Seq(WellFormed)]
    /\ connection \in {"none", "open", "closed"}
    /\ {stopping, closing} \subseteq BOOLEAN
    /\ rows \in [Offsets -> Nat] /\ phantom \in [Offsets -> Nat]
    /\ failures \in 0..MaxFailures
    /\ {giveUps, closes, stops} \subseteq Nat
    /\ lost \subseteq WellFormed
    /\ handed \in [Offsets -> Nat]

\* No event that was read is mislaid between the two threads, whichever loads
\* fail and however drains and restores interleave: it is in memory or in the
\* table, unless the process stopped after committing past it.
NothingMislaid ==
    \A o \in WellFormed : o < position => o \in Held \cup Stored \cup lost

\* An event has a row for each time it was read, and one more for each load that
\* raised although its rows had landed: the retry inside load_batch() and the
\* restore after it never load what the first attempt is known to have loaded,
\* and no event is in memory twice.
RowsExplained ==
    \A o \in WellFormed :
        LET inMemory == Cardinality({i \in DOMAIN buffer : buffer[i] = o})
                        + Cardinality({t \in Threads : o \in ToSet(batch[t])})
        IN rows[o] + inMemory <= handed[o] + phantom[o]

\* The threads drop each other's connection, but one error of Snowflake makes at
\* most one of them give up its batch: what the other loses is its first attempt.
\* So does closing the client at shutdown, though it can hit a timer that outlived
\* the join twice: by closing its connection and by forgetting the next one.
GiveUpsAreEarned == giveUps <= failures + closes

\* Every well-formed event of the log ends in the table, or was lost by a stop:
\* the threads do not keep each other from connecting for ever.
EventuallyStored == <>(WellFormed \subseteq Stored \cup lost)

Sink == INSTANCE BufferedSink WITH
            next <- position, acked <- committed, pending <- Held, sunk <- Stored

\* The two threads, their shared client, the retries and the restores together
\* do nothing the abstract sink may not do.
ImplementsSink == Sink!Spec
=============================================================================
