--------------------------- MODULE CurvePipeline ---------------------------
(***************************************************************************)
(* The way of a validated event to Redis: the normalization-service and    *)
(* the redis-writer, joined by the topic market.events.normalized.         *)
(***************************************************************************)
EXTENDS TenorCalendar, Sequences, FiniteSets

CONSTANTS
    Replicas, Sources, Assignments, Validated, CurveOf,     \* of Normalization
    Writers, WAssignments, Instruments, HistoryMax, MinTenors,  \* of RedisWriter
    Curves,                                                 \* of both
    FirstMonth, LastMonth,                                  \* the time the model spans
    MaxTroubles

ASSUME PipelineAssumption ==
    /\ Assignments \subseteq [Sources -> Replicas]
    /\ \A p \in Sources : Validated[p] \in Seq([usable : BOOLEAN, time : Nat,
                                               instrument : Instruments, tenor : RawTenors])
    /\ CurveOf \in [Instruments \X Periods -> Curves]
    /\ WAssignments \subseteq [Curves -> Writers]
    /\ HistoryMax \in Nat \ {0}
    /\ MinTenors \in Nat
    /\ FirstMonth \in Months /\ LastMonth \in Months
    /\ MaxTroubles \in Nat
    /\ Replicas \cap Curves = {}

VARIABLES
    today, owner, committed, position, pc, current, event, versions, lapses, queue, givenUp,
    wOwner, wCommitted, wPosition, wPc, wCurrent, wRead, latest, history, snapshot,
    wRebalances, applied, failed,
    normalized, troubles

N == INSTANCE Normalization
W == INSTANCE RedisWriter

normalizerVars == <<today, owner, committed, position, pc, current, event, versions,
                    lapses, queue, givenUp>>
writerVars == <<wOwner, wCommitted, wPosition, wPc, wCurrent, wRead, latest, history,
                snapshot, wRebalances, applied, failed>>
vars == <<normalizerVars, writerVars, normalized, troubles>>

Init == N!InitAt(FirstMonth) /\ W!Init

Normalizes == \E r \in Replicas : N!Step(r) \/ N!Deliver(r)
Writes == \E w \in Writers : W!WStep(w)

Next ==
    \/ (Normalizes \/ N!Incident \/ N!MonthEnds(LastMonth)) /\ UNCHANGED writerVars
    \/ (Writes \/ W!WIncident) /\ UNCHANGED <<normalizerVars, normalized>>

Spec == Init /\ [][Next]_vars

\* As long as some process of a service, or its librdkafka, can go on, one of
\* them does; nothing else is sure to happen.
FairSpec ==
    /\ Spec
    /\ WF_vars(UNCHANGED writerVars /\ Normalizes)
    /\ WF_vars(UNCHANGED <<normalizerVars, normalized>> /\ Writes)

-----------------------------------------------------------------------------
(* Correctness.                                                            *)

HistoryHoldsMostRecent == W!HistoryHoldsMostRecent
CommittedPricesStick == W!CommittedPricesStick
SnapshotIsTheHash == W!SnapshotIsTheHash

\* Every curve event there is: in the topic, or in a producer's queue.
CurveEvents(c) ==
    ({c} \X DOMAIN normalized[c])
        \cup {place \in UNION {{r} \X DOMAIN queue[r] : r \in Replicas} :
                 N!PartitionOf(queue[place[1]][place[2]]) = c}
CurveEventAt(place) ==
    IF place[1] \in Curves THEN normalized[place[1]][place[2]]
                           ELSE queue[place[1]][place[2]]

\* Two curve events of a curve have the same version only if the counter lapsed
\* between their two INCRs ("Duplicate curve versions", system-overview.md:280).
\* Replicas that number events at once, skip numbers, and number a redelivered
\* event again never repeat one.
VersionsUnique ==
    \A c \in Curves : \A x, y \in CurveEvents(c) :
        LET e == CurveEventAt(x)
            f == CurveEventAt(y)
        IN x # y /\ e.life = f.life => e.version # f.version

\* Relative tenors agree with the calendar: n months forward is n times the next
\* month, and the quarter n quarters forward is the quarter 3n months forward -
\* across the ends of years, from whatever month it is.
TenorsAgree ==
    LET after == Steps(today, 12)
    IN /\ \A n \in 0..12 : MonthsForward(today, n) = after[n]
       /\ \A n \in 0..4 : QuartersForward(today, n) = QuarterOf(after[3 * n])

\* What may become of a validated event.
Skipped(p, o) ==
    LET m == Validated[p][o] IN ~m.usable \/ Canonical(m.tenor, today) = NoTenor
InRedis(p, o) == \E entry \in applied : W!EventAt(entry).source = <<p, o>>
FailedInRedis(p, o) == \E entry \in failed : W!EventAt(entry).source = <<p, o>>

\* Every validated event reaches Redis in the end, unless it cannot be
\* normalised, its write raised, or the normalizer lost it in one of the ways that
\* givenUp names: its INCR or produce() raised, its delivery failed, or the process
\* stopped with it in the producer's queue.  Nothing else loses one: no rebalance,
\* refused commit, or stop at any other point makes the services pass an event.
EveryEventArrives ==
    <>(\A p \in Sources : \A o \in DOMAIN Validated[p] :
          Skipped(p, o) \/ <<p, o>> \in givenUp \/ InRedis(p, o) \/ FailedInRedis(p, o))
=============================================================================
