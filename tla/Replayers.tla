----------------------------- MODULE Replayers -----------------------------
(***************************************************************************)
(* One replay job in the replay-engine, of any of the three sources:       *)
(*   DLQ        the entries of market.events.dlq, from the first one that   *)
(*              is not before the window's start, back to                   *)
(*              market.events.raw;                                          *)
(*   BRONZE_S3  the records of the Bronze objects whose hour is in the      *)
(*              window, to market.events.replay;                            *)
(*   DATABENTO_HISTORICAL  what the API returns, to market.events.replay.   *)
(* While a DLQ job runs, validation may reject what it republished, and     *)
(* other traffic is rejected too: the topic it reads grows as it reads.     *)
(*                                                                         *)
(* How a job is claimed and settled is in ReplayJobs.                      *)
(***************************************************************************)
EXTENDS Integers, Sequences, FiniteSets, FiniteSetsExt, SequencesExt

CONSTANTS
    Jobs,           \* the jobs that may be run
    Partitions,     \* of market.events.dlq
    DlqContents,    \* what the partitions may hold when the job is claimed
    Archives,       \* what the Bronze bucket may hold: sequences of objects
    Trades,         \* times of the trades Databento has, in order
    HourLength,     \* time units in an hour
    Now,            \* the time at which the job is claimed
    MaxTime,        \* bound of the clock
    MaxMessages,    \* dlq_replay_max_messages
    MaxLive,        \* bound: entries that other traffic adds
    MaxTroubles     \* bound: calls that raise, polls that return an error

\* What an entry of the DLQ holds: an event of the provider and instrument a
\* filtering job names, one of others, a message validation could not decode (its
\* raw bytes, of provider "unknown"), or something that is no DLQEvent; and whether
\* the job itself brought it back, which none of the entries it starts from is.
EntryKinds == {"event", "other", "undecodable", "garbage"}
Entries == [time : Nat, kind : EntryKinds, own : {FALSE}]

\* A record of Bronze; the time of a damaged one does not parse.
RecordKinds == {"event", "other", "damaged"}
Records == [received : Nat, time : Nat, kind : RecordKinds]

ASSUME ReplayersAssumption ==
    /\ \A j \in Jobs :
          /\ j.source \in {"DLQ", "BRONZE_S3", "DATABENTO_HISTORICAL"}
          /\ j.start \in Nat /\ j.end \in Nat /\ j.filtered \in BOOLEAN
    /\ \A contents \in DlqContents : contents \in [Partitions -> Seq(Entries)]
    /\ \A archive \in Archives : archive \in Seq(Seq(Records) \ {<<>>})
    /\ Trades \in Seq(Nat)
    /\ \A n, m \in DOMAIN Trades : n <= m => Trades[n] <= Trades[m]
    /\ HourLength \in Nat \ {0}
    /\ {Now, MaxTime, MaxMessages, MaxLive, MaxTroubles} \subseteq Nat

VARIABLES
    job,            \* the job the engine runs
    pc,             \* where its replayer is, or the status the job gets
    now,            \* the clock
    dlq,            \* market.events.dlq
    position,       \* the consumer's next offset in each assigned partition
    archive,        \* the provider's objects: the records of each, as written
    keys,           \* the objects still to read
    records,        \* the records, or trades, still to go through
    published,      \* what was given to the producer, named by where it was found
    judged,         \* how many of those the validation-service has judged
    live,           \* entries other traffic added
    troubles,
    present,        \* history: length of each partition when the job began
    unseeked        \* history: partitions whose lookup of the start failed

dlqVars == <<dlq, judged, live>>
readVars == <<position, keys, records>>
history == <<present, unseeked>>
vars == <<job, pc, now, dlqVars, readVars, archive, published, troubles, history>>

Trouble == troubles < MaxTroubles /\ troubles' = troubles + 1

NoPartition == [p \in {} |-> 0]

\* Only what the job reads is followed.
Init ==
    /\ job \in Jobs
    /\ pc = "dispatch"
    /\ now = Now
    /\ dlq \in IF job.source = "DLQ" THEN DlqContents ELSE {[p \in Partitions |-> <<>>]}
    /\ position = NoPartition
    /\ archive \in IF job.source = "BRONZE_S3" THEN Archives ELSE {<<>>}
    /\ keys = {}
    /\ records = <<>>
    /\ published = <<>>
    /\ judged = 0
    /\ live = 0
    /\ troubles = 0
    /\ present = [p \in Partitions |-> Len(dlq[p])]
    /\ unseeked = {}

Goes(from, to) == pc = from /\ pc' = to

Publish(place) == published' = Append(published, place)

-----------------------------------------------------------------------------
(* The DLQ replayer.                                                       *)

\* offsets_for_times(): the first entry that is not before the start, in the
\* order of offsets, which need not be the order of times.
NotBefore(p) == {o \in DOMAIN dlq[p] : dlq[p][o].time >= job.start}
Assigned(failing) == {p \in Partitions \ failing : NotBefore(p) # {}}

\* A partition whose lookup failed has no valid offset: it is left out as if it held
\* nothing of the window.
Seek ==
    /\ job.source = "DLQ"
    /\ \E failing \in SUBSET Partitions :
          /\ IF failing = {} THEN UNCHANGED troubles ELSE Trouble
          /\ unseeked' = failing
          /\ Goes("dispatch", IF Assigned(failing) = {} THEN "completed" ELSE "poll")
          /\ position' = [p \in Assigned(failing) |-> Min(NotBefore(p))]
    /\ UNCHANGED <<job, now, dlqVars, archive, keys, records, published, present>>

BelowCap == Len(published) < MaxMessages

\* poll() returns the next entry of some assigned partition.
Polls(p) ==
    /\ pc = "poll"
    /\ BelowCap
    /\ p \in DOMAIN position
    /\ position[p] <= Len(dlq[p])
    /\ position' = [position EXCEPT ![p] = @ + 1]
    /\ UNCHANGED <<job, now, dlqVars, archive, keys, records, history>>
Polled(p) == dlq[p][position[p]]

Wanted(kind) == ~job.filtered \/ kind = "event"

Passes(entry) == entry.kind # "garbage" /\ Wanted(entry.kind) /\ entry.time <= job.end

\* Past the end, not a DLQEvent, or filtered out.
SkipEntry(p) ==
    /\ Polls(p)
    /\ ~Passes(Polled(p))
    /\ UNCHANGED <<pc, published, troubles>>

RepublishEntry(p) ==
    /\ Polls(p)
    /\ Passes(Polled(p))
    /\ Polled(p).kind # "undecodable"
    /\ Publish(<<p, position[p]>>)
    /\ UNCHANGED <<pc, troubles>>

\* _reconstruct_raw_event() raises: the bytes of a message are not an event.
EntryRaises(p) ==
    /\ Polls(p)
    /\ Passes(Polled(p))
    /\ Polled(p).kind = "undecodable"
    /\ pc' = "failed"
    /\ UNCHANGED <<published, troubles>>

\* poll() returns an error, which is logged.
PollErrs ==
    /\ pc = "poll" /\ BelowCap
    /\ Trouble
    /\ UNCHANGED <<job, pc, now, dlqVars, readVars, archive, published, history>>

AllExhaustedNever == \A p \in DOMAIN position : position[p] > Len(dlq[p]) + 1
AllExhaustedPastEnd ==
    \/ \A p \in DOMAIN position : position[p] > Len(dlq[p])
    \/ \E p \in DOMAIN position : \E o \in 1..(position[p] - 1) : dlq[p][o].time > job.end
\* Every position is at the high watermark.
AllExhausted == \A p \in DOMAIN position : position[p] > Len(dlq[p])

\* The cap is reached, or poll() returned nothing and nothing is left.
DlqDone ==
    /\ ~BelowCap \/ AllExhausted
    /\ Goes("poll", "completed")
    /\ UNCHANGED <<job, now, dlqVars, readVars, archive, published, troubles, history>>

DlqStep ==
    \/ Seek
    \/ \E p \in Partitions : SkipEntry(p) \/ RepublishEntry(p) \/ EntryRaises(p)
    \/ PollErrs
    \/ DlqDone

-----------------------------------------------------------------------------
(* The Bronze replayer and the Databento replayer.                         *)

\* write_parquet_batch() files an object under the hour its first record was
\* received in; list_partitions() takes that hour for the object's time.
Hour(k) == (archive[k][1].received \div HourLength) * HourLength

ListedLater(k) == job.start < Hour(k) /\ Hour(k) <= job.end
Listed(k) == job.start <= Hour(k) /\ Hour(k) <= job.end

ListKeys ==
    LET found == {k \in DOMAIN archive : Listed(k)}
    IN /\ job.source = "BRONZE_S3"
       /\ Goes("dispatch", IF found = {} THEN "completed" ELSE "records")
       /\ keys' = found
       /\ UNCHANGED <<job, now, dlqVars, position, archive, records, published, troubles,
                      history>>

\* Objects in the order of their keys: by hour, those of one hour in any order.
ReadObject ==
    /\ pc = "records" /\ job.source = "BRONZE_S3"
    /\ records = <<>>
    /\ \E k \in keys :
          /\ \A other \in keys : Hour(k) <= Hour(other)
          /\ keys' = keys \ {k}
          /\ records' = [n \in DOMAIN archive[k] |-> <<k, n>>]
    /\ UNCHANGED <<job, pc, now, dlqVars, position, archive, published, troubles, history>>

\* The trades of the range, which end before its end, in order.
Returned == {n \in DOMAIN Trades : job.start <= Trades[n] /\ Trades[n] < job.end}

Fetch ==
    /\ job.source = "DATABENTO_HISTORICAL"
    /\ Goes("dispatch", "records")
    /\ records' = IF Returned = {} THEN <<>>
                  ELSE [n \in 1..(Max(Returned) - Min(Returned) + 1) |->
                           <<"trade", Min(Returned) + n - 1>>]
    /\ UNCHANGED <<job, now, dlqVars, position, archive, keys, published, troubles, history>>

InWindow(time) == job.start <= time /\ time <= job.end

SelectedLater(place) ==
    job.source = "BRONZE_S3" =>
        LET record == archive[place[1]][place[2]]
        IN /\ Wanted(record.kind)
           /\ record.kind = "damaged" \/ job.start <= record.time

\* A record whose time does not parse is not filtered by it.
Selected(place) ==
    job.source = "BRONZE_S3" =>
        LET record == archive[place[1]][place[2]]
        IN /\ Wanted(record.kind)
           /\ record.kind = "damaged" \/ InWindow(record.time)

Damaged(place) ==
    job.source = "BRONZE_S3" /\ archive[place[1]][place[2]].kind = "damaged"

NextRecord ==
    /\ pc = "records"
    /\ records # <<>>
    /\ records' = Tail(records)
    /\ UNCHANGED <<job, now, dlqVars, position, archive, keys, history>>

SkipRecord ==
    /\ NextRecord
    /\ ~Selected(Head(records))
    /\ UNCHANGED <<pc, published, troubles>>

PublishRecord ==
    /\ NextRecord
    /\ Selected(Head(records)) /\ ~Damaged(Head(records))
    /\ Publish(Head(records))
    /\ UNCHANGED <<pc, troubles>>

\* _reconstruct_event() raises.
RecordRaises ==
    /\ NextRecord
    /\ Selected(Head(records)) /\ Damaged(Head(records))
    /\ pc' = "failed"
    /\ UNCHANGED <<published, troubles>>

RecordsDone ==
    /\ keys = {} /\ records = <<>>
    /\ Goes("records", "completed")
    /\ UNCHANGED <<job, now, dlqVars, readVars, archive, published, troubles, history>>

RecordStep ==
    \/ ListKeys \/ ReadObject \/ Fetch
    \/ SkipRecord \/ PublishRecord \/ RecordRaises
    \/ RecordsDone

-----------------------------------------------------------------------------

Running == pc \in {"dispatch", "poll", "records"}

\* A call to Kafka, S3 or Databento raises, or there is no Databento replayer:
\* the job fails, with what it published before.
CallRaises ==
    /\ Running
    /\ Trouble
    /\ pc' = "failed"
    /\ UNCHANGED <<job, now, dlqVars, readVars, archive, published, history>>

JobStep == DlqStep \/ RecordStep \/ CallRaises

Rejected(p, entry) == dlq' = [dlq EXCEPT ![p] = Append(@, entry)]

\* The validation-service judges the next republished event: it is accepted, or
\* rejected once more, into a new entry of its own time.
Judge ==
    /\ job.source = "DLQ" /\ Running
    /\ judged < Len(published)
    /\ judged' = judged + 1
    /\ \/ UNCHANGED dlq
       \/ \E p \in Partitions :
             LET from == published[judged + 1]
             IN Rejected(p, [time |-> now, kind |-> dlq[from[1]][from[2]].kind, own |-> TRUE])
    /\ UNCHANGED <<job, pc, now, live, readVars, archive, published, troubles, history>>

\* It rejects something else; entries may reach the topic later than others that
\* were made after them.
LiveReject ==
    /\ job.source = "DLQ" /\ Running
    /\ live < MaxLive
    /\ live' = live + 1
    /\ \E p \in Partitions, kind \in {"event", "undecodable"}, late \in 0..1 :
          Rejected(p, [time |-> now - late, kind |-> kind, own |-> FALSE])
    /\ UNCHANGED <<job, pc, now, judged, readVars, archive, published, troubles, history>>

Tick ==
    /\ job.source = "DLQ" /\ Running
    /\ now < MaxTime
    /\ now' = now + 1
    /\ UNCHANGED <<job, pc, dlqVars, readVars, archive, published, troubles, history>>

Next == JobStep \/ Judge \/ LiveReject \/ Tick

Spec == Init /\ [][Next]_vars

\* The engine's thread goes on with the job.
FairSpec == Spec /\ WF_vars(JobStep)

-----------------------------------------------------------------------------
(* Correctness.                                                            *)

Times(place) == Cardinality({n \in DOMAIN published : published[n] = place})

\* The entries of the window that were in the topic when the job began, whatever
\* the order of their times, in the partitions whose start was found.
DlqOwed ==
    {place \in UNION {{p} \X (1..present[p]) : p \in Partitions \ unseeked} :
        LET entry == dlq[place[1]][place[2]]
        IN /\ InWindow(entry.time)
           /\ entry.kind # "garbage" /\ Wanted(entry.kind)}

\* The stored events of the window whose object was begun in it.
BronzeOwed ==
    {place \in UNION {{k} \X DOMAIN archive[k] : k \in DOMAIN archive} :
        LET record == archive[place[1]][place[2]]
        IN /\ InWindow(archive[place[1]][1].received)
           /\ Wanted(record.kind)
           /\ record.kind # "damaged"
           /\ InWindow(record.time)}

DatabentoOwed == {<<"trade", n>> : n \in Returned}

\* What a job may replay.  Of the DLQ that is more than the window: entries from
\* before its start that lie behind one that is not.
Asked(place) ==
    /\ job.source = "DLQ" =>
          LET entry == dlq[place[1]][place[2]]
          IN /\ entry.kind \in {"event", "other"} /\ Wanted(entry.kind)
             /\ entry.time <= job.end
             /\ \E o \in 1..place[2] : dlq[place[1]][o].time >= job.start
             /\ job.end < Now => ~entry.own
    /\ job.source = "BRONZE_S3" =>
          LET record == archive[place[1]][place[2]]
          IN /\ record.kind \in {"event", "other"} /\ Wanted(record.kind)
             /\ InWindow(record.time)
    /\ job.source = "DATABENTO_HISTORICAL" => place \in DatabentoOwed

\* What a job replays - gives to the producer - is what it was asked for: nothing
\* twice, nothing that is filtered out or later than the window, from Bronze and
\* Databento nothing before it either, and from the DLQ nothing before it that lies
\* ahead of the window's first entry.  And in the end everything of the window:
\* the DLQ's entries as of the job's beginning, though others are added and though
\* times are not in order of offsets, unless the cap cut the job short or the
\* lookup of a partition's start failed, which leaves that partition out of a job
\* that completes; if the window starts on the hour, Bronze's events whose object
\* was begun in it (if it does not, the objects of the starting hour are left out:
\* storage.py:139); Databento's trades.  A DLQ job whose window is over does not
\* replay what its own republishing brought back, and no job gets past an entry of
\* its window that cannot be rebuilt: it fails.
ReplaysItsWindow ==
    /\ \A n \in DOMAIN published : Times(published[n]) = 1
    /\ \A place \in ToSet(published) : Asked(place)
    /\ pc = "completed" =>
          /\ job.source = "DLQ" /\ BelowCap => DlqOwed \subseteq ToSet(published)
          /\ job.source = "BRONZE_S3" /\ job.start % HourLength = 0 =>
                BronzeOwed \subseteq ToSet(published)
          /\ job.source = "DATABENTO_HISTORICAL" => DatabentoOwed \subseteq ToSet(published)

\* Every job ends, though the topic grows while it reads - by its own doing too -
\* once other traffic pauses: it skips what is past the window and goes on until it
\* has caught up, or reached the cap.
JobEnds == <>(pc \in {"completed", "failed"})
=============================================================================
