---------------------------- MODULE BronzeWriter ----------------------------
(***************************************************************************)
(* The bronze-writer: one consumer of a partition of market.events.raw,    *)
(* its in-memory EventBuffer, the S3 objects it writes, and the two        *)
(* threads that flush the buffer - the consume loop ("main") and the       *)
(* daemon flush timer ("timer").  A flush drains the buffer, writes one    *)
(* object per provider, and puts the events of the failed objects back.    *)
(*                                                                         *)
(* The process may be killed at any time, may be told to stop (SIGTERM),   *)
(* and may fall out of its loop because a commit raised.  The next         *)
(* incarnation resumes from the committed offset.                          *)
(***************************************************************************)
EXTENDS Integers, FiniteSets

CONSTANTS
    MaxOffset,      \* the log holds offsets 1..MaxOffset
    Malformed,      \* offsets whose bytes do not deserialise
    Providers,      \* market data providers
    ProviderOf,     \* the provider of the event at each offset
    BatchSize,      \* settings.batch_size
    MaxFailures,    \* bound: S3 writes reported as failed
    MaxStops        \* bound: times the process stops and is started again

Offsets == 1..MaxOffset
Threads == {"main", "timer"}

ASSUME BronzeAssumption ==
    /\ MaxOffset \in Nat
    /\ Malformed \subseteq Offsets
    /\ ProviderOf \in [Offsets -> Providers]
    /\ BatchSize \in Nat \ {0}
    /\ MaxFailures \in Nat
    /\ MaxStops \in Nat

VARIABLES
    position,       \* the next offset the consumer polls
    committed,      \* the offset committed for the consumer group
    buffer,         \* EventBuffer._events, by offset
    pc,             \* where each thread is
    todo,           \* events a thread drained and has not tried to write
    failed,         \* failed_events of a thread's flush
    stopping,       \* shutdown_event
    closing,        \* main left the consume loop and is in its `finally`
    copies,         \* in how many S3 objects each event is
    failures,       \* writes reported as failed so far
    phantom,        \* history: objects that landed though the write failed
    stops,          \* times the process stopped so far
    lost,           \* history: committed events a stop found nowhere in S3
    handed          \* history: how often each event entered the buffer

offsetVars == <<position, committed>>
batchVars == <<todo, failed>>
shutdownVars == <<stopping, closing>>
s3Vars == <<copies, failures, phantom>>
historyVars == <<stops, lost, handed>>
vars == <<offsetVars, buffer, pc, batchVars, shutdownVars, s3Vars, historyVars>>

WellFormed == Offsets \ Malformed

\* The events of this process that S3 may not have: in the buffer, or drained
\* by a thread that has not finished its flush.
InFlight(t) == todo[t] \cup failed[t]
Held == buffer \cup InFlight("main") \cup InFlight("timer")
Stored == {o \in Offsets : copies[o] > 0}
AtRisk == {o \in Held : o < committed} \ Stored

Moves(t, from, to) ==
    /\ pc[t] = from
    /\ pc' = [pc EXCEPT ![t] = to]

MainLabels == {"poll", "check", "drain", "write", "commit", "join", "exit"}
TimerLabels == {"wait", "drain", "write", "done"}

InitialPc == [t \in Threads |-> IF t = "main" THEN "poll" ELSE "wait"]
NoEvents == [t \in Threads |-> {}]
Zero == [o \in Offsets |-> 0]

Init ==
    /\ position = 1
    /\ committed = 1
    /\ buffer = {}
    /\ pc = InitialPc
    /\ todo = NoEvents
    /\ failed = NoEvents
    /\ stopping = FALSE
    /\ closing = FALSE
    /\ copies = Zero
    /\ failures = 0
    /\ phantom = Zero
    /\ stops = 0
    /\ lost = {}
    /\ handed = Zero

-----------------------------------------------------------------------------
(* The consume loop.                                                       *)

\* consumer.messages() yields a message: process() adds the event to the
\* buffer, or deserialise() fails and the message is only committed.
Poll ==
    /\ ~stopping
    /\ position <= MaxOffset
    /\ position' = position + 1
    /\ IF position \in Malformed
       THEN Moves("main", "poll", "commit") /\ UNCHANGED <<buffer, handed>>
       ELSE /\ Moves("main", "poll", "check")
            /\ buffer' = buffer \cup {position}
            /\ handed' = [handed EXCEPT ![position] = @ + 1]
    /\ UNCHANGED <<committed, batchVars, shutdownVars, s3Vars, stops, lost>>

BatchFullOffByOne == Cardinality(buffer) > BatchSize
BatchFull == Cardinality(buffer) >= BatchSize

\* should_flush(): full, or not empty and old enough - the age is left open.
CheckFlush ==
    /\ \/ buffer # {} /\ Moves("main", "check", "drain")
       \/ ~BatchFull /\ Moves("main", "check", "commit")
    /\ UNCHANGED <<offsetVars, buffer, batchVars, shutdownVars, s3Vars, historyVars>>

NextAfterCommit == position + 1
NextToRead == position

\* consumer.commit(msg) acknowledges every offset up to this message.
Commit ==
    /\ Moves("main", "commit", "poll")
    /\ committed' = NextToRead
    /\ UNCHANGED <<position, buffer, batchVars, shutdownVars, s3Vars, historyVars>>

-----------------------------------------------------------------------------
(* BronzeWriter.flush(), run by either thread.                             *)

\* drain() swaps the whole buffer for an empty one.
DrainByCopy(t) ==
    /\ pc[t] = "drain"
    /\ todo' = [todo EXCEPT ![t] = buffer]
    /\ pc' = [pc EXCEPT ![t] = "write"]
    /\ UNCHANGED <<offsetVars, buffer, failed, shutdownVars, s3Vars, historyVars>>
Drain(t) ==
    /\ Moves(t, "drain", "write")
    /\ todo' = [todo EXCEPT ![t] = buffer]
    /\ buffer' = {}
    /\ UNCHANGED <<offsetVars, failed, shutdownVars, s3Vars, historyVars>>

OneMore(f, S) == [o \in Offsets |-> IF o \in S THEN f[o] + 1 ELSE f[o]]

Group(t, p) == {o \in todo[t] : ProviderOf[o] = p}

\* put_object returns: the group of one provider is in S3.
WriteGroup(t, p) ==
    /\ pc[t] = "write"
    /\ Group(t, p) # {}
    /\ copies' = OneMore(copies, Group(t, p))
    /\ todo' = [todo EXCEPT ![t] = @ \ Group(t, p)]
    /\ UNCHANGED <<offsetVars, buffer, pc, failed, shutdownVars, failures,
                   phantom, historyVars>>

\* The write raises.  The object may have landed all the same: a time-out does
\* not tell.
WriteFails(t, p) ==
    /\ pc[t] = "write"
    /\ Group(t, p) # {}
    /\ failures < MaxFailures
    /\ failures' = failures + 1
    /\ \/ UNCHANGED <<copies, phantom>>
       \/ copies' = OneMore(copies, Group(t, p)) /\ phantom' = OneMore(phantom, Group(t, p))
    /\ failed' = [failed EXCEPT ![t] = @ \cup Group(t, p)]
    /\ todo' = [todo EXCEPT ![t] = @ \ Group(t, p)]
    /\ UNCHANGED <<offsetVars, buffer, pc, shutdownVars, historyVars>>

\* flush() returns, or raises BronzeWriteError once the failed events are back:
\* the timer waits again, flush_all() swallows the error, and the consume loop
\* commits only after a return.
AfterFlush(t, raised) ==
    IF t = "timer" THEN "wait"
    ELSE IF closing THEN "exit"
    ELSE IF raised THEN "poll" ELSE "commit"

FlushReturns(t) ==
    /\ todo[t] = {} /\ failed[t] = {}
    /\ Moves(t, "write", AfterFlush(t, FALSE))
    /\ UNCHANGED <<offsetVars, buffer, batchVars, shutdownVars, s3Vars, historyVars>>

\* _restore_events(): one add(), with its own lock, for each failed event.
RaiseWithoutRestore(t) ==
    /\ todo[t] = {} /\ failed[t] # {}
    /\ Moves(t, "write", AfterFlush(t, TRUE))
    /\ failed' = [failed EXCEPT ![t] = {}]
    /\ UNCHANGED <<offsetVars, buffer, todo, shutdownVars, s3Vars, historyVars>>
RestoreEvent(t) ==
    /\ todo[t] = {} /\ failed[t] # {}
    /\ \E o \in failed[t] :
        /\ buffer' = buffer \cup {o}
        /\ failed' = [failed EXCEPT ![t] = @ \ {o}]
        /\ Moves(t, "write",
                 IF failed[t] = {o} THEN AfterFlush(t, TRUE) ELSE "write")
    /\ UNCHANGED <<offsetVars, todo, shutdownVars, s3Vars, historyVars>>

Flush(t) ==
    \/ Drain(t)
    \/ \E p \in Providers : WriteGroup(t, p) \/ WriteFails(t, p)
    \/ FlushReturns(t)
    \/ RestoreEvent(t)

\* The wait of the daemon thread times out, or shutdown_event ends its loop.
TimerWakesWhenFull ==
    /\ Cardinality(buffer) >= BatchSize /\ ~stopping
    /\ Moves("timer", "wait", "drain")
    /\ UNCHANGED <<offsetVars, buffer, batchVars, shutdownVars, s3Vars, historyVars>>
TimerWakes ==
    /\ \/ ~stopping /\ buffer # {} /\ Moves("timer", "wait", "drain")
       \/ stopping /\ Moves("timer", "wait", "done")
    /\ UNCHANGED <<offsetVars, buffer, batchVars, shutdownVars, s3Vars, historyVars>>

-----------------------------------------------------------------------------
(* Shutdown, crash and restart.                                            *)

\* The handler sets shutdown_event and the consumer's own flag.
Sigterm ==
    /\ ~stopping
    /\ stops < MaxStops
    /\ stopping' = TRUE
    /\ UNCHANGED <<offsetVars, buffer, pc, batchVars, closing, s3Vars, historyVars>>

\* The consume loop sees the flag and leaves for `finally`.
LeaveLoop ==
    /\ stopping
    /\ Moves("main", "poll", "join")
    /\ closing' = TRUE
    /\ UNCHANGED <<offsetVars, buffer, batchVars, stopping, s3Vars, historyVars>>

\* commit() raises: the exception leaves the loop for `finally`, which sets the
\* flag itself.
CommitRaises ==
    /\ stopping \/ stops < MaxStops
    /\ Moves("main", "commit", "join")
    /\ stopping' = TRUE
    /\ closing' = TRUE
    /\ UNCHANGED <<offsetVars, buffer, batchVars, s3Vars, historyVars>>

\* join() returns because the timer ended or because ten seconds passed, and
\* flush_all() flushes what is in the buffer.
FlushAll ==
    /\ Moves("main", "join", IF buffer = {} THEN "exit" ELSE "drain")
    /\ UNCHANGED <<offsetVars, buffer, batchVars, shutdownVars, s3Vars, historyVars>>

\* Memory is gone, and a new process resumes from the committed offset.
Restart ==
    /\ position' = committed
    /\ buffer' = {}
    /\ pc' = InitialPc
    /\ todo' = NoEvents
    /\ failed' = NoEvents
    /\ stopping' = FALSE
    /\ closing' = FALSE
    /\ stops' = stops + 1
    /\ lost' = lost \cup AtRisk
    /\ UNCHANGED <<committed, s3Vars, handed>>

\* sys.exit(0) ends the daemon thread too, wherever it is.
Exit == pc["main"] = "exit" /\ Restart

Crash == stops < MaxStops /\ Restart

Next ==
    \/ Poll \/ CheckFlush \/ Commit \/ CommitRaises
    \/ Sigterm \/ LeaveLoop \/ FlushAll \/ Exit
    \/ TimerWakes
    \/ \E t \in Threads : Flush(t)
    \/ Crash

Spec == Init /\ [][Next]_vars

MainStep ==
    Poll \/ CheckFlush \/ Commit \/ LeaveLoop \/ FlushAll \/ Exit \/ Flush("main")
TimerStep == TimerWakes \/ Flush("timer")

\* Both threads are scheduled.  Nothing obliges a write to fail, the process to
\* be stopped or a commit to raise, and an outage ends (MaxFailures).
FairSpec == Spec /\ WF_vars(MainStep) /\ WF_vars(TimerStep)

-----------------------------------------------------------------------------
(* Correctness.                                                            *)

PcOK ==
    /\ pc \in [Threads -> MainLabels \cup TimerLabels]
    /\ pc["main"] \in MainLabels
    /\ pc["timer"] \in TimerLabels

TypeOK ==
    /\ position \in 1..MaxOffset + 1
    /\ committed \in 1..MaxOffset + 1
    /\ buffer \subseteq WellFormed
    /\ PcOK
    /\ todo \in [Threads -> SUBSET WellFormed]
    /\ failed \in [Threads -> SUBSET WellFormed]
    /\ stopping \in BOOLEAN /\ closing \in BOOLEAN
    /\ copies \in [Offsets -> Nat]
    /\ failures \in 0..MaxFailures
    /\ phantom \in [Offsets -> Nat]
    /\ stops \in Nat
    /\ lost \subseteq WellFormed
    /\ handed \in [Offsets -> Nat]

\* No event that was read is mislaid between the two threads, whichever writes
\* fail and however drains and restores interleave: it is in memory or in S3,
\* unless the process stopped after committing past it.
NothingMislaid ==
    \A o \in WellFormed : o < position => o \in Held \cup Stored \cup lost

\* An event is written once for each time it was read, and once more for each
\* object that landed although its write was reported as failed: a failed
\* flush restores exactly the events it did not write, and an event never sits
\* in the buffer and in a drained batch at once.
CopiesExplained ==
    \A o \in WellFormed :
        copies[o] + (IF o \in Held THEN 1 ELSE 0) <= handed[o] + phantom[o]

\* While S3 accepts every write, killing the process costs at most the batch
\* the timer is writing and the batch main is filling: 2 * BatchSize - 1
\* committed events.
LossWindow ==
    failures = 0 => Cardinality(AtRisk) < 2 * BatchSize

\* Every well-formed event of the log ends in S3, or was lost by a stop.
EventuallyStored ==
    <>(WellFormed \subseteq Stored \cup lost)

\* The claim of the decision table (README.md:903, "Only on successful S3 flush
\* | Prevents silent data loss; failed writes cause the consumer to re-read on
\* restart") and of ADR-004: no committed event is ever lost.
CommitsOnlyAfterFlush == lost = {}

Sink == INSTANCE BufferedSink WITH
            next <- position, acked <- committed, pending <- Held, sunk <- Stored

\* The two threads, the batches and the restores together do nothing the
\* abstract sink may not do.
ImplementsSink == Sink!Spec
=============================================================================
