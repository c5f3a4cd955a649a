--------------------------- MODULE Normalization ---------------------------
(***************************************************************************)
(* The normalization-service: replicas of a consumer group that reads the  *)
(* partitions of market.events.validated, a version counter per curve in   *)
(* Redis, and the producer queue through which each replica writes curve   *)
(* events to market.events.normalized, partitioned by curve.               *)
(*                                                                         *)
(* Whatever becomes of a message, its offset is committed.  A delivery that *)
(* fails is logged, and a version counter may lapse: it expires if a TTL is *)
(* configured, and Redis evicts any key when its memory is full.            *)
(***************************************************************************)
EXTENDS TenorCalendar, Sequences, FiniteSets

CONSTANTS
    Replicas,       \* processes of the consumer group
    Sources,        \* partitions of VALIDATED_EVENTS
    Assignments,    \* how the group may have assigned them at first
    Validated,      \* the messages of each: whether usable - of a known instrument, with
                    \* a valid price -, the time, the instrument, the raw tenor
    Curves,         \* partitions of NORMALIZED_EVENTS
    CurveOf,        \* the partition of an instrument's curve of a period
    MaxTroubles     \* bound: how many things go wrong, here and in the writers

VARIABLES
    today,          \* the current month
    owner,          \* the replica each source partition is assigned to
    committed,      \* the group's committed offset
    position,       \* the next offset the owner polls
    pc,             \* where each replica is
    current,        \* the source offset each replica is busy with
    event,          \* the curve event it makes of it
    versions,       \* Redis: norm:version:{curve}, 0 if there is no such key
    lapses,         \* history: how often the counter of each curve was gone
    queue,          \* curve events in a replica's producer, not delivered
    normalized,     \* NORMALIZED_EVENTS
    troubles,       \* how many things went wrong so far
    givenUp         \* history: source offsets lost to an error, a stop or a
                    \* delivery that failed

groupVars == <<owner, committed, position>>
replicaVars == <<pc, current, event>>
counterVars == <<versions, lapses>>
vars == <<today, groupVars, replicaVars, counterVars, queue, normalized, troubles,
          givenUp>>

Trouble == troubles < MaxTroubles /\ troubles' = troubles + 1

NoMessage == <<>>
NoEvent == [version |-> 0]

InitAt(month) ==
    /\ today = month
    /\ owner \in Assignments
    /\ committed = [p \in Sources |-> 1]
    /\ position = committed
    /\ pc = [r \in Replicas |-> "poll"]
    /\ current = [r \in Replicas |-> NoMessage]
    /\ event = [r \in Replicas |-> NoEvent]
    /\ versions = [c \in Curves |-> 0]
    /\ lapses = [c \in Curves |-> 0]
    /\ queue = [r \in Replicas |-> <<>>]
    /\ normalized = [c \in Curves |-> <<>>]
    /\ troubles = 0
    /\ givenUp = {}

-----------------------------------------------------------------------------
(* One message through _process_message().                                 *)

Goes(r, from, to) ==
    /\ pc[r] = from
    /\ pc' = [pc EXCEPT ![r] = to]

\* normalise() up to the version: a message that is not usable, or whose tenor
\* is not recognised, is skipped.
Poll(r, p) ==
    /\ owner[p] = r
    /\ position[p] <= Len(Validated[p])
    /\ position' = [position EXCEPT ![p] = @ + 1]
    /\ current' = [current EXCEPT ![r] = <<p, position[p]>>]
    /\ LET message == Validated[p][position[p]]
           tenor == Canonical(message.tenor, today)
       IN IF message.usable /\ tenor # NoTenor
          THEN /\ Goes(r, "poll", "version")
               /\ event' = [event EXCEPT ![r] =
                     [source |-> <<p, position[p]>>, instrument |-> message.instrument,
                      tenor |-> tenor, time |-> message.time, version |-> 0, life |-> 0]]
          ELSE Goes(r, "poll", "commit") /\ UNCHANGED event
    /\ UNCHANGED <<today, owner, committed, counterVars, queue, normalized, troubles, givenUp>>

Curve(r) == CurveOf[event[r].instrument, event[r].tenor.period]

CountInProcess(r) ==
    /\ Goes(r, "version", "produce")
    /\ event' = [event EXCEPT ![r].version = @ + 1, ![r].life = lapses[Curve(r)]]
    /\ versions' = [versions EXCEPT ![Curve(r)] = @ + 1]
    /\ UNCHANGED <<today, groupVars, current, lapses, queue, normalized, troubles, givenUp>>
\* INCR, atomic among the replicas, and for version 1 EXPIRE.  The life of the
\* counter that gave the version is recorded beside it.
NextVersion(r) ==
    /\ Goes(r, "version", "produce")
    /\ event' = [event EXCEPT ![r].version = versions[Curve(r)] + 1,
                              ![r].life = lapses[Curve(r)]]
    /\ versions' = [versions EXCEPT ![Curve(r)] = @ + 1]
    /\ UNCHANGED <<today, groupVars, current, lapses, queue, normalized, troubles, givenUp>>

\* INCR or EXPIRE raises, applied or not: the event is logged and skipped.
NextVersionRaises(r) ==
    /\ Trouble
    /\ Goes(r, "version", "commit")
    /\ \/ versions' = [versions EXCEPT ![Curve(r)] = @ + 1]
       \/ UNCHANGED versions
    /\ givenUp' = givenUp \cup {current[r]}
    /\ UNCHANGED <<today, groupVars, current, event, lapses, queue, normalized>>

\* The counter of a curve is gone from Redis, and the next INCR starts it again.
CounterLapses(c) ==
    /\ Trouble
    /\ versions[c] > 0
    /\ versions' = [versions EXCEPT ![c] = 0]
    /\ lapses' = [lapses EXCEPT ![c] = @ + 1]
    /\ UNCHANGED <<today, groupVars, replicaVars, queue, normalized, givenUp>>

Produce(r) ==
    /\ Goes(r, "produce", "commit")
    /\ queue' = [queue EXCEPT ![r] = Append(@, event[r])]
    /\ UNCHANGED <<today, groupVars, current, event, counterVars, normalized, troubles, givenUp>>

\* The producer's queue is full: likewise.
ProduceRaises(r) ==
    /\ Trouble
    /\ Goes(r, "produce", "commit")
    /\ givenUp' = givenUp \cup {current[r]}
    /\ UNCHANGED <<today, groupVars, current, event, counterVars, queue, normalized>>

Forgets(r) ==
    /\ current' = [current EXCEPT ![r] = NoMessage]
    /\ event' = [event EXCEPT ![r] = NoEvent]

\* The commit succeeds only if the partition is still this replica's.
Commit(r) ==
    /\ pc[r] = "commit"
    /\ LET p == current[r][1] IN
          /\ owner[p] = r
          /\ committed' = [committed EXCEPT ![p] = current[r][2] + 1]
    /\ pc' = [pc EXCEPT ![r] = "poll"]
    /\ Forgets(r)
    /\ UNCHANGED <<today, owner, position, counterVars, queue, normalized, troubles, givenUp>>

-----------------------------------------------------------------------------
(* Delivery, stops and rebalances.                                         *)

PartitionOf(e) == CurveOf[e.instrument, e.tenor.period]

\* The topic with an event added to the partition of its curve.
With(e) ==
    [c \in Curves |-> IF PartitionOf(e) = c THEN Append(normalized[c], e) ELSE normalized[c]]

\* librdkafka delivers what was produced, on its own or because main flushes.
Deliver(r) ==
    /\ queue[r] # <<>>
    /\ queue' = [queue EXCEPT ![r] = Tail(@)]
    /\ normalized' = With(Head(queue[r]))
    /\ UNCHANGED <<today, groupVars, replicaVars, counterVars, troubles, givenUp>>

\* A delivery fails for good; _on_delivery() logs it, whether or not the offset is
\* committed, and nothing produces the event again.
DeliveryFails(r) ==
    /\ Trouble
    /\ queue[r] # <<>>
    /\ queue' = [queue EXCEPT ![r] = Tail(@)]
    /\ givenUp' = givenUp \cup {Head(queue[r]).source}
    /\ UNCHANGED <<today, groupVars, replicaVars, counterVars, normalized>>

\* The next process of r starts where its partitions are committed.
RestartsAtPosition(r) ==
    /\ pc' = [pc EXCEPT ![r] = "poll"]
    /\ Forgets(r)
    /\ UNCHANGED position
Restarts(r) ==
    /\ pc' = [pc EXCEPT ![r] = "poll"]
    /\ Forgets(r)
    /\ position' = [p \in Sources |-> IF owner[p] = r THEN committed[p] ELSE position[p]]

\* r's process ends, and what is left of its queue is lost.
Ends(r) ==
    /\ givenUp' = givenUp \cup {queue[r][j].source : j \in DOMAIN queue[r]}
    /\ queue' = [queue EXCEPT ![r] = <<>>]
    /\ Restarts(r)
    /\ UNCHANGED <<today, owner, committed, counterVars, normalized>>

\* A kill; or SIGTERM, or a commit that raised, after which main flushes the
\* queue and may run into the time-out.
Crash(r) == Trouble /\ Ends(r)

\* The commit of a replica that lost the partition raises; main flushes the queue.
CommitRefused(r) ==
    /\ pc[r] = "commit"
    /\ owner[current[r][1]] # r
    /\ queue[r] = <<>>
    /\ Ends(r)
    /\ UNCHANGED troubles

Rebalance(p) ==
    /\ Trouble
    /\ \E r \in Replicas \ {owner[p]} : owner' = [owner EXCEPT ![p] = r]
    /\ position' = [position EXCEPT ![p] = committed[p]]
    /\ UNCHANGED <<today, committed, replicaVars, counterVars, queue, normalized, givenUp>>

Step(r) ==
    \/ \E p \in Sources : Poll(r, p)
    \/ NextVersion(r) \/ NextVersionRaises(r)
    \/ Produce(r) \/ ProduceRaises(r)
    \/ Commit(r) \/ CommitRefused(r)

\* The date moves on while messages are under way (counted as a trouble, so that
\* it is as rare as the others).
MonthEnds(last) ==
    /\ Trouble
    /\ today # last
    /\ today' = NextMonth(today)
    /\ UNCHANGED <<groupVars, replicaVars, counterVars, queue, normalized, givenUp>>

Incident ==
    \/ \E r \in Replicas : Crash(r) \/ DeliveryFails(r)
    \/ \E c \in Curves : CounterLapses(c)
    \/ \E p \in Sources : Rebalance(p)
=============================================================================
