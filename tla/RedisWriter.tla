---------------------------- MODULE RedisWriter ----------------------------
(***************************************************************************)
(* The redis-writer: replicas of a consumer group that reads the           *)
(* partitions of market.events.normalized and keeps, per instrument, the   *)
(* latest price of each tenor (a hash), the N most recent events (a sorted *)
(* set) and a snapshot of the whole curve.                                 *)
(*                                                                         *)
(* The hash and the history are written in one transaction; the snapshot   *)
(* is made from a later read of the hash.  An event whose handling raised  *)
(* is not committed, but the commit of the next one passes it.             *)
(*                                                                         *)
(* What is written stays: that Redis evicts one of these keys when its     *)
(* memory is full is not modelled.                                         *)
(***************************************************************************)
EXTENDS Integers, Sequences, FiniteSets, FiniteSetsExt

CONSTANTS
    Writers,        \* processes of the consumer group
    Curves,         \* partitions of NORMALIZED_EVENTS
    WAssignments,   \* how the group may have assigned them at first
    Instruments,
    HistoryMax,     \* curve_history_max_entries
    MinTenors,      \* tenors that make a snapshot complete enough
    MaxTroubles     \* bound: how many things go wrong, here and upstream

VARIABLES
    normalized,     \* NORMALIZED_EVENTS, written by the normalization-service
    wOwner,         \* the writer each partition is assigned to
    wCommitted,     \* the group's committed offset
    wPosition,      \* the next offset the owner polls
    wPc,            \* where each writer is
    wCurrent,       \* the partition and offset each writer is busy with
    wRead,          \* the hash as HGETALL returned it
    latest,         \* curve:latest:{instrument}
    history,        \* curve:history:{instrument}
    snapshot,       \* curve:snapshot:{instrument}
    troubles,       \* how many things went wrong so far
    wRebalances,    \* how many of them moved a partition
    applied,        \* history: the entries whose transaction was executed
    failed          \* history: the entries whose handling raised

wGroupVars == <<wOwner, wCommitted, wPosition>>
wReplicaVars == <<wPc, wCurrent, wRead>>
redisVars == <<latest, history, snapshot>>
wHistoryVars == <<applied, failed>>
vars == <<wGroupVars, wReplicaVars, redisVars, troubles, wRebalances, wHistoryVars>>

Trouble == troubles < MaxTroubles /\ troubles' = troubles + 1

NoEntry == <<>>
NoTenors == [t \in {} |-> NoEntry]

Init ==
    /\ wOwner \in WAssignments
    /\ wCommitted = [c \in Curves |-> 1]
    /\ wPosition = wCommitted
    /\ wPc = [w \in Writers |-> "poll"]
    /\ wCurrent = [w \in Writers |-> NoEntry]
    /\ wRead = [w \in Writers |-> NoTenors]
    /\ latest = [i \in Instruments |-> NoTenors]
    /\ history = [i \in Instruments |-> {}]
    /\ snapshot = [i \in Instruments |-> NoTenors]
    /\ wRebalances = 0
    /\ applied = {}
    /\ failed = {}

\* An entry <<partition, offset>> of the topic, and the event it holds.
EventAt(entry) == normalized[entry[1]][entry[2]]
Time(entry) == EventAt(entry).time
Instrument(w) == EventAt(wCurrent[w]).instrument

WGoes(w, from, to) ==
    /\ wPc[w] = from
    /\ wPc' = [wPc EXCEPT ![w] = to]

-----------------------------------------------------------------------------
(* One message through update_tenor().  The prices and members kept are     *)
(* named by the topic entry they come from.                                 *)

WPoll(w, c) ==
    /\ wOwner[c] = w
    /\ WGoes(w, "poll", "write")
    /\ wPosition[c] <= Len(normalized[c])
    /\ wCurrent' = [wCurrent EXCEPT ![w] = <<c, wPosition[c]>>]
    /\ wPosition' = [wPosition EXCEPT ![c] = @ + 1]
    /\ UNCHANGED <<wOwner, wCommitted, wRead, redisVars, troubles, wRebalances, wHistoryVars>>

\* The hash with one tenor set.
HSet(hash, tenor, entry) ==
    [t \in DOMAIN hash \cup {tenor} |-> IF t = tenor THEN entry ELSE hash[t]]

TrimToOldest(members, kept) ==
    /\ Cardinality(kept) = Min({HistoryMax, Cardinality(members)})
    /\ \A k \in kept, m \in members \ kept : Time(k) <= Time(m)
\* ZREMRANGEBYRANK leaves the members of the highest scores, ties any way.
Trim(members, kept) ==
    /\ Cardinality(kept) = Min({HistoryMax, Cardinality(members)})
    /\ \A k \in kept, m \in members \ kept : Time(k) >= Time(m)

\* The transaction: HSET, ZADD and ZREMRANGEBYRANK.
Execute(w) ==
    LET i == Instrument(w)
        entry == wCurrent[w]
        members == history[i] \cup {entry}
    IN /\ latest' = [latest EXCEPT ![i] = HSet(@, EventAt(entry).tenor, entry)]
       /\ \E kept \in SUBSET members :
             Trim(members, kept) /\ history' = [history EXCEPT ![i] = kept]
       /\ applied' = applied \cup {entry}

Write(w) ==
    /\ WGoes(w, "write", "assemble")
    /\ Execute(w)
    /\ UNCHANGED <<wGroupVars, wCurrent, wRead, snapshot, troubles, wRebalances, failed>>

AssembleOnce(w) ==
    LET hash == latest[Instrument(w)]
        due == Cardinality(DOMAIN hash) >= MinTenors /\ snapshot[Instrument(w)] = NoTenors
    IN /\ WGoes(w, "assemble", IF due THEN "set" ELSE "commit")
       /\ wRead' = [wRead EXCEPT ![w] = hash]
       /\ UNCHANGED <<wGroupVars, wCurrent, redisVars, troubles, wRebalances, wHistoryVars>>
\* HGETALL: with enough tenors the snapshot is to be set, else there is none.
Assemble(w) ==
    LET hash == latest[Instrument(w)]
    IN /\ WGoes(w, "assemble", IF Cardinality(DOMAIN hash) >= MinTenors THEN "set" ELSE "commit")
       /\ wRead' = [wRead EXCEPT ![w] = hash]
       /\ UNCHANGED <<wGroupVars, wCurrent, redisVars, troubles, wRebalances, wHistoryVars>>

SetSnapshot(w) ==
    /\ WGoes(w, "set", "commit")
    /\ snapshot' = [snapshot EXCEPT ![Instrument(w)] = wRead[w]]
    /\ UNCHANGED <<wGroupVars, wCurrent, wRead, latest, history, troubles, wRebalances,
                   wHistoryVars>>

WForgets(w) ==
    /\ wCurrent' = [wCurrent EXCEPT ![w] = NoEntry]
    /\ wRead' = [wRead EXCEPT ![w] = NoTenors]

\* One of the calls raises, before or after it took effect: handle_event()
\* raises, and the loop goes on to the next message without a commit.
HandlingRaises(w) ==
    /\ Trouble
    /\ wPc[w] \in {"write", "assemble", "set"}
    /\ wPc' = [wPc EXCEPT ![w] = "poll"]
    /\ failed' = failed \cup {wCurrent[w]}
    /\ \/ UNCHANGED <<redisVars, applied>>
       \/ wPc[w] = "write" /\ Execute(w) /\ UNCHANGED snapshot
       \/ /\ wPc[w] = "set"
          /\ snapshot' = [snapshot EXCEPT ![Instrument(w)] = wRead[w]]
          /\ UNCHANGED <<latest, history, applied>>
    /\ WForgets(w)
    /\ UNCHANGED <<wGroupVars, wRebalances>>

WCommit(w) ==
    /\ wPc[w] = "commit"
    /\ LET c == wCurrent[w][1] IN
          /\ wOwner[c] = w
          /\ wCommitted' = [wCommitted EXCEPT ![c] = wCurrent[w][2] + 1]
    /\ wPc' = [wPc EXCEPT ![w] = "poll"]
    /\ WForgets(w)
    /\ UNCHANGED <<wOwner, wPosition, redisVars, troubles, wRebalances, wHistoryVars>>

-----------------------------------------------------------------------------
(* Stops and rebalances.                                                   *)

WRestartsFromEarliest(w) ==
    wPosition' = [c \in Curves |-> IF wOwner[c] = w THEN 1 ELSE wPosition[c]]
\* A new process resumes its partitions where they are committed.
WRestarts(w) ==
    wPosition' = [c \in Curves |-> IF wOwner[c] = w THEN wCommitted[c] ELSE wPosition[c]]

WEnds(w) ==
    /\ wPc' = [wPc EXCEPT ![w] = "poll"]
    /\ WForgets(w)
    /\ WRestarts(w)
    /\ UNCHANGED <<wOwner, wCommitted, redisVars, wRebalances, wHistoryVars>>

\* The process is killed, told to stop, or its commit raises.
WCrash(w) == Trouble /\ WEnds(w)

WCommitRefused(w) ==
    /\ wPc[w] = "commit"
    /\ wOwner[wCurrent[w][1]] # w
    /\ WEnds(w)
    /\ UNCHANGED troubles

\* A writer that is busy with a message of the partition goes on writing it.
WRebalance(c) ==
    /\ Trouble
    /\ wRebalances' = wRebalances + 1
    /\ \E w \in Writers \ {wOwner[c]} : wOwner' = [wOwner EXCEPT ![c] = w]
    /\ wPosition' = [wPosition EXCEPT ![c] = wCommitted[c]]
    /\ UNCHANGED <<wCommitted, wReplicaVars, redisVars, wHistoryVars>>

WStep(w) ==
    \/ \E c \in Curves : WPoll(w, c)
    \/ Write(w) \/ Assemble(w) \/ SetSnapshot(w) \/ HandlingRaises(w)
    \/ WCommit(w) \/ WCommitRefused(w)

WIncident ==
    \/ \E w \in Writers : WCrash(w)
    \/ \E c \in Curves : WRebalance(c)

-----------------------------------------------------------------------------
(* Correctness.                                                            *)

EntriesOf(i) == {entry \in applied : EventAt(entry).instrument = i}

\* Whatever the order in which events arrive - late, redelivered, written by a
\* writer that lost its partition - the history of an instrument holds the
\* HistoryMax most recent of all that were ever written (curve_store.py:128).
HistoryHoldsMostRecent ==
    \A i \in Instruments :
        /\ history[i] \subseteq EntriesOf(i)
        /\ Cardinality(history[i]) = Min({HistoryMax, Cardinality(EntriesOf(i))})
        /\ \A h \in history[i], e \in EntriesOf(i) \ history[i] : Time(e) <= Time(h)

\* As long as no partition changes hands, the price of a committed event stays
\* until a later event of the topic replaces it: crashes, redeliveries and the
\* failed writes that a commit passed do not bring an earlier one back.  (A
\* writer that lost the partition does: system-overview.md:296.)
CommittedPricesStick ==
    wRebalances = 0 =>
        \A c \in Curves : \A o \in 1..(wCommitted[c] - 1) :
            LET e == normalized[c][o]
                hash == latest[e.instrument]
            IN <<c, o>> \notin failed =>
                  /\ e.tenor \in DOMAIN hash
                  /\ hash[e.tenor][1] = c
                  /\ hash[e.tenor][2] >= o

\* One writer has the partitions of all the instrument's curves.
SoleWriter(w) == \A c \in Curves : wOwner[c] = w

\* When nothing went wrong and one writer has all partitions, then between two
\* messages the snapshot is the hash, as soon as the hash has enough tenors.
\* (Two writers that overlap can leave a snapshot that lacks a tenor: the one
\* that read the hash first may set its snapshot last.)
SnapshotIsTheHash ==
    \A w \in Writers, i \in Instruments :
        troubles = 0 /\ SoleWriter(w) /\ wPc[w] = "poll"
            /\ Cardinality(DOMAIN latest[i]) >= MinTenors
        => snapshot[i] = latest[i]
=============================================================================
