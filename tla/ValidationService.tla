------------------------- MODULE ValidationService -------------------------
(***************************************************************************)
(* The validation-service: replicas of one consumer group reading a        *)
(* partition of market.events.raw, the deduplication keys they share in    *)
(* Redis, and the producer queue through which each of them sends a        *)
(* validated event or a DLQ event.                                         *)
(*                                                                         *)
(* One replica owns the partition.  It may lose it while it is busy with a *)
(* message (its commit is then refused), crash, or leave its loop because  *)
(* a commit or a produce raised.  The next owner resumes from the          *)
(* committed offset.  produce() only queues a message: the broker may      *)
(* refuse it for good later, which is logged and nothing more.             *)
(***************************************************************************)
EXTENDS Integers, FiniteSets

CONSTANTS
    Replicas,        \* processes of the consumer group
    MaxOffset,       \* the log holds offsets 1..MaxOffset
    Ids,             \* event ids
    IdOf,            \* the event id of the message at each offset
    KindOf,          \* "undecodable", "incomplete", "implausible" or "plausible"
    MaxTroubles      \* bound: how many things go wrong, of the six kinds below

Offsets == 1..MaxOffset
Kinds == {"undecodable", "incomplete", "implausible", "plausible"}
Topics == {"validated", "dlq"}

ASSUME ValidationAssumption ==
    /\ MaxOffset \in Nat
    /\ Replicas # {}
    /\ IdOf \in [Offsets -> Ids]
    /\ KindOf \in [Offsets -> Kinds]
    /\ MaxTroubles \in Nat

VARIABLES
    committed,     \* the group's committed offset
    owner,         \* the replica the partition is assigned to
    position,      \* the next offset each replica polls
    pc,            \* where each replica is
    outcome,       \* the topic each replica is about to produce to
    seen,          \* ids with a live dedup key
    queue,         \* messages handed to a replica's producer, not delivered
    topics,        \* messages in VALIDATED_EVENTS and DLQ_EVENTS
    stops,         \* processes that stopped with work in hand
    rebalances,    \* times the partition changed hands
    expiries,      \* deduplication keys that reached their TTL
    faults,        \* Redis calls that raised
    timeouts,      \* Redis replies that were lost, flushes cut short
    drops,         \* queued messages whose delivery failed
    outcomes,      \* history: produce() calls for each id past the schema rules
    lost           \* history: the messages a mishap of their own took an outcome from

counters == <<stops, rebalances, expiries, faults, timeouts, drops>>
historyVars == <<outcomes, lost>>
groupVars == <<committed, owner>>
replicaVars == <<position, pc, outcome>>
outVars == <<queue, topics>>
vars == <<groupVars, replicaVars, seen, outVars, counters, historyVars>>

MoreTrouble == stops + rebalances + expiries + faults + timeouts + drops < MaxTroubles

\* The message a replica is busy with.
Current(r) == position[r] - 1
Id(r) == IdOf[Current(r)]

Goes(r, from, to) ==
    /\ pc[r] = from
    /\ pc' = [pc EXCEPT ![r] = to]

\* A replica decides on the topic and goes on to produce().
Chooses(r, topic) == outcome' = [outcome EXCEPT ![r] = topic]

Init ==
    /\ committed = 1
    /\ owner \in Replicas
    /\ position = [r \in Replicas |-> 1]
    /\ pc = [r \in Replicas |-> "poll"]
    /\ outcome = [r \in Replicas |-> "dlq"]
    /\ seen = {}
    /\ queue = [r \in Replicas |-> {}]
    /\ topics = {}
    /\ stops = 0 /\ rebalances = 0 /\ expiries = 0 /\ faults = 0 /\ timeouts = 0 /\ drops = 0
    /\ outcomes = [i \in Ids |-> 0]
    /\ lost = {}

-----------------------------------------------------------------------------
(* One message through run_consumer_loop and validate().                   *)

\* Messages that get past the schema rules, and so to the duplicate check.
Claimable(o) == KindOf[o] \in {"implausible", "plausible"}

\* The event a replica has claimed, or is reporting as UNKNOWN, and not produced yet.
InHands(r) ==
    {o \in {Current(r)} : pc[r] \in {"verdict", "produce"} /\ Claimable(o)}

\* A message that cannot be deserialised, or that lacks a field or has a price
\* of the wrong type, goes to the DLQ before the duplicate check.
Poll(r) ==
    /\ owner = r
    /\ position[r] <= MaxOffset
    /\ LET kind == KindOf[position[r]]
           early == kind \in {"undecodable", "incomplete"}
       IN /\ Goes(r, "poll", IF early THEN "produce" ELSE "claim")
          /\ IF early THEN Chooses(r, "dlq") ELSE UNCHANGED outcome
    /\ position' = [position EXCEPT ![r] = @ + 1]
    /\ UNCHANGED <<groupVars, seen, outVars, counters, historyVars>>

IsFirstUnchecked(r) == TRUE
IsFirst(r) == Id(r) \notin seen

\* SET NX EX: the first reader of an id goes on, any other discards the message.
Claim(r) ==
    /\ pc[r] = "claim"
    /\ pc' = [pc EXCEPT ![r] = IF IsFirst(r) THEN "verdict" ELSE "commit"]
    /\ seen' = seen \cup {Id(r)}
    /\ UNCHANGED <<groupVars, position, outcome, outVars, counters, historyVars>>

\* The SET is applied and its reply is lost: the client repeats it
\* (retry_on_timeout) and finds the key it set itself.
ClaimRepeated(r) ==
    /\ MoreTrouble
    /\ timeouts' = timeouts + 1
    /\ Goes(r, "claim", "commit")
    /\ Id(r) \notin seen
    /\ seen' = seen \cup {Id(r)}
    /\ lost' = lost \cup {Current(r)}
    /\ UNCHANGED <<groupVars, position, outcome, outVars, stops, rebalances,
                   expiries, faults, drops, outcomes>>

\* Redis raises, before or after applying the SET: validate() raises, and the
\* loop sends the event to the DLQ as UNKNOWN.
ClaimRaises(r) ==
    /\ MoreTrouble
    /\ faults' = faults + 1
    /\ Goes(r, "claim", "produce")
    /\ Chooses(r, "dlq")
    /\ seen' \in {seen, seen \cup {Id(r)}}
    /\ UNCHANGED <<groupVars, position, outVars, stops, rebalances, expiries,
                   timeouts, drops, historyVars>>

VerdictDropsImplausible(r) ==
    /\ Goes(r, "verdict", IF KindOf[Current(r)] = "plausible" THEN "produce" ELSE "commit")
    /\ Chooses(r, "validated")
    /\ UNCHANGED <<groupVars, position, seen, outVars, counters, historyVars>>
\* Timestamp, price and quality score.  A plausible event may have become stale
\* by now, and the scorer may raise: both end in the DLQ.
Verdict(r) ==
    /\ Goes(r, "verdict", "produce")
    /\ \/ Chooses(r, "dlq")
       \/ KindOf[Current(r)] = "plausible" /\ Chooses(r, "validated")
    /\ UNCHANGED <<groupVars, position, seen, outVars, counters, historyVars>>

\* produce() puts the message in the producer's queue and returns.
Produce(r) ==
    /\ Goes(r, "produce", "commit")
    /\ queue' = [queue EXCEPT ![r] = @ \cup {<<Current(r), outcome[r]>>}]
    /\ outcomes' = IF Claimable(Current(r))
                   THEN [outcomes EXCEPT ![Id(r)] = @ + 1] ELSE outcomes
    /\ UNCHANGED <<groupVars, position, outcome, seen, topics, counters, lost>>

\* The queue is full: the exception leaves the loop.
ProduceRaises(r) ==
    /\ MoreTrouble
    /\ stops' = stops + 1
    /\ Goes(r, "produce", "exit")
    /\ lost' = lost \cup InHands(r)
    /\ UNCHANGED <<groupVars, position, outcome, seen, outVars, rebalances,
                   expiries, faults, timeouts, drops, outcomes>>

NextAfterCommit(r) == position[r] + 1
NextToRead(r) == position[r]

CommitWithoutGeneration(r) ==
    /\ Goes(r, "commit", "poll")
    /\ committed' = NextToRead(r)
    /\ UNCHANGED <<owner, position, outcome, seen, outVars, counters, historyVars>>

\* consumer.commit(msg): accepted from the owner; it raises in a replica that
\* lost the partition, which then leaves the loop.
Commit(r) ==
    /\ Goes(r, "commit", IF owner = r THEN "poll" ELSE "exit")
    /\ committed' = IF owner = r THEN NextToRead(r) ELSE committed
    /\ UNCHANGED <<owner, position, outcome, seen, outVars, counters, historyVars>>

-----------------------------------------------------------------------------
(* The broker, the clock, and stops.                                       *)

\* librdkafka delivers a queued message.
Deliver(r) ==
    /\ \E m \in queue[r] :
        /\ topics' = topics \cup {m}
        /\ queue' = [queue EXCEPT ![r] = @ \ {m}]
    /\ UNCHANGED <<groupVars, replicaVars, seen, counters, historyVars>>

\* Or it gives up on it: _on_delivery() logs the error, whether or not the offset
\* of the event is committed.
DeliveryFails(r) ==
    /\ MoreTrouble
    /\ drops' = drops + 1
    /\ \E m \in queue[r] :
        /\ queue' = [queue EXCEPT ![r] = @ \ {m}]
        /\ lost' = lost \cup {m[1]}
    /\ UNCHANGED <<groupVars, replicaVars, seen, topics, stops, rebalances, expiries,
                   faults, timeouts, outcomes>>

\* A deduplication key reaches its TTL.
Expire(i) ==
    /\ i \in seen
    /\ MoreTrouble
    /\ expiries' = expiries + 1
    /\ seen' = seen \ {i}
    /\ UNCHANGED <<groupVars, replicaVars, outVars, stops, rebalances, faults,
                   timeouts, drops, historyVars>>

\* The group assigns the partition to a replica that is polling.
Rebalance(r) ==
    /\ owner # r
    /\ pc[r] = "poll"
    /\ MoreTrouble
    /\ rebalances' = rebalances + 1
    /\ owner' = r
    /\ position' = [position EXCEPT ![r] = committed]
    /\ UNCHANGED <<committed, pc, outcome, seen, outVars, stops, expiries, faults,
                   timeouts, drops, historyVars>>

\* A new process takes the place of r; of what its producer still held, only the
\* messages in `delivered` have reached the broker, and an event it had claimed
\* keeps its key.
Restart(r, delivered) ==
    /\ topics' = topics \cup delivered
    /\ queue' = [queue EXCEPT ![r] = {}]
    /\ pc' = [pc EXCEPT ![r] = "poll"]
    /\ position' = [position EXCEPT ![r] = committed]
    /\ lost' = lost \cup InHands(r) \cup {m[1] : m \in queue[r] \ delivered}
    /\ UNCHANGED <<groupVars, outcome, seen, rebalances, expiries, faults, drops, outcomes>>

Crash(r) ==
    /\ MoreTrouble
    /\ stops' = stops + 1
    /\ Restart(r, {})
    /\ UNCHANGED timeouts

\* SIGTERM between two messages, or an exception in the loop: `finally` flushes
\* the producer - for thirty seconds, and what is left then is lost.
Exit(r) ==
    /\ pc[r] \in {"poll", "exit"}
    /\ \/ Restart(r, queue[r]) /\ UNCHANGED timeouts
       \/ /\ MoreTrouble
          /\ timeouts' = timeouts + 1
          /\ \E m \in queue[r] : Restart(r, queue[r] \ {m})
    /\ UNCHANGED stops

Step(r) ==
    \/ Poll(r) \/ Claim(r) \/ ClaimRaises(r) \/ Verdict(r) \/ Produce(r)
    \/ Commit(r) \/ (pc[r] = "exit" /\ Exit(r))

Next ==
    \/ \E r \in Replicas :
        \/ Poll(r)
        \/ Claim(r) \/ ClaimRepeated(r) \/ ClaimRaises(r)
        \/ Verdict(r)
        \/ Produce(r) \/ ProduceRaises(r)
        \/ Commit(r)
        \/ Deliver(r) \/ DeliveryFails(r) \/ Rebalance(r) \/ Crash(r) \/ Exit(r)
    \/ \E i \in Ids : Expire(i)

Spec == Init /\ [][Next]_vars

\* Each replica is scheduled, and the broker delivers.
FairSpec == Spec /\ \A r \in Replicas : WF_vars(Step(r)) /\ WF_vars(Deliver(r))

-----------------------------------------------------------------------------
(* Correctness.                                                            *)

TypeOK ==
    /\ committed \in 1..MaxOffset + 1
    /\ owner \in Replicas
    /\ position \in [Replicas -> 1..MaxOffset + 1]
    /\ pc \in [Replicas -> {"poll", "claim", "verdict", "produce", "commit", "exit"}]
    /\ outcome \in [Replicas -> Topics]
    /\ seen \subseteq Ids
    /\ queue \in [Replicas -> SUBSET (Offsets \X Topics)]
    /\ topics \subseteq Offsets \X Topics
    /\ {stops, rebalances, expiries, faults, timeouts, drops} \subseteq Nat
    /\ outcomes \in [Ids -> Nat]
    /\ lost \subseteq Offsets

\* However many replicas read an event, however often it is sent and redelivered
\* and wherever they crash, it gets one verdict - one event in VALIDATED or one
\* in the DLQ - and another only after its key expired or Redis raised.
OneVerdictPerKey ==
    \A i \in Ids : outcomes[i] <= 1 + expiries + faults

\* A replica that is deciding on the event with id i, or has just decided.
Deciding(i) ==
    \E r \in Replicas :
        pc[r] \in {"verdict", "produce"} /\ Claimable(Current(r)) /\ Id(r) = i

Sent == topics \cup UNION {queue[r] : r \in Replicas}

\* Messages o and p are of one event, as far as the duplicate check can tell.
SameEvent(o, p) == o = p \/ (Claimable(o) /\ Claimable(p) /\ IdOf[o] = IdOf[p])

HasOutcome(o) == \E m \in Sent : SameEvent(m[1], o)
WasLost(o) == \E p \in lost : SameEvent(p, o)

\* Every committed message has an outcome in VALIDATED or the DLQ, or on its way
\* there - or its event had a mishap of its own: the process that held it stopped,
\* the reply to its SET was lost, its delivery failed.  A discarded duplicate is
\* one of an event that has its outcome, had such a mishap, or is about to get its
\* outcome from the replica that claimed it - even one that lost the partition in
\* between.  No mishap costs an event that was not in its way.
CommittedHasOutcome ==
    \A o \in Offsets :
        o < committed =>
            HasOutcome(o) \/ WasLost(o) \/ (Claimable(o) /\ Deciding(IdOf[o]))

\* The committed offset never goes back, so a replica that was replaced cannot
\* make the group read again what its successor has done.
CommitsAdvance == [][committed' >= committed]_committed


\* The claim of main.py:15-19: "a crash between consuming a message and producing
\* the outcome does not silently discard the event".  (Lost replies are left
\* aside: they lose an event without any crash.)
NeverSilentlyDiscarded ==
    timeouts = 0 =>
        \A o \in Offsets :
            o < committed /\ Claimable(o) => outcomes[IdOf[o]] > 0 \/ Deciding(IdOf[o])
=============================================================================
