---------------------------- MODULE BufferedSink ----------------------------
(***************************************************************************)
(* What a bronze-writer or silver-loader process promises about the        *)
(* partition it consumes, without the threads and the batches: events are  *)
(* taken from the log into memory, memory moves to durable storage, the    *)
(* offset is acknowledged whenever the consumer likes, and stopping the    *)
(* process empties the memory.  It is the specification the detailed       *)
(* loaders are shown to implement.                                         *)
(***************************************************************************)
EXTENDS Integers

CONSTANTS
    MaxOffset,   \* the log of the partition holds offsets 1..MaxOffset
    Malformed    \* the offsets whose bytes do not deserialise

VARIABLES
    next,        \* the next offset the process will read
    acked,       \* the offset a restarted process resumes from
    pending,     \* events in the memory of the process, and nowhere else for sure
    sunk         \* events in durable storage

sinkVars == <<next, acked, pending, sunk>>

Init ==
    /\ next = 1
    /\ acked = 1
    /\ pending = {}
    /\ sunk = {}

\* The next message enters memory, unless it cannot be read at all.
Take ==
    /\ next <= MaxOffset
    /\ next' = next + 1
    /\ pending' = IF next \in Malformed THEN pending ELSE pending \cup {next}
    /\ UNCHANGED <<acked, sunk>>

\* The offset is acknowledged: a restart resumes after everything taken.
Ack ==
    /\ acked' = next
    /\ UNCHANGED <<next, pending, sunk>>

\* Some events become durable.  A writer that learns of it forgets them; one
\* that is told of a failure keeps them for another attempt.
Sink ==
    /\ \E S \in SUBSET pending :
        /\ sunk' = sunk \cup S
        /\ pending' \in {pending, pending \ S}
    /\ UNCHANGED <<next, acked>>

\* The process stops and another one takes its place.
Stop ==
    /\ pending' = {}
    /\ next' = acked
    /\ UNCHANGED <<acked, sunk>>

Next == Take \/ Ack \/ Sink \/ Stop

Spec == Init /\ [][Next]_sinkVars
=============================================================================
