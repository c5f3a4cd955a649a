---------------------------- MODULE MCReplayers ----------------------------
(* A small instance of Replayers: windows over five time units, two of them *)
(* an hour; a DLQ whose times are not in order; a batch that spans an hour. *)
EXTENDS Replayers

CONSTANTS p1, p2

Windows == {<<0, 3>>, <<1, 2>>, <<2, 3>>, <<2, 5>>}
MCJobs ==
    {[source |-> s, start |-> w[1], end |-> w[2], filtered |-> f] :
        s \in {"DLQ", "BRONZE_S3", "DATABENTO_HISTORICAL"}, w \in Windows, f \in BOOLEAN}

MCPartitions == {p1, p2}
Entry(time, kind) == [time |-> time, kind |-> kind, own |-> FALSE]
MCDlqContents ==
    {[p \in MCPartitions |-> IF p = p1 THEN first ELSE <<Entry(2, "other")>>] :
        first \in {<<Entry(2, "event"), Entry(1, "event")>>,
                  <<Entry(3, "event"), Entry(2, "event")>>,
                  <<Entry(3, "garbage"), Entry(2, "undecodable")>>}}

Record(received, time, kind) == [received |-> received, time |-> time, kind |-> kind]
MCArchives ==
    {<< <<Record(1, 1, "event"), Record(2, 2, kind)>>,
        <<Record(2, time, "event"), Record(3, 2, "other")>>,
        <<Record(3, 3, "event")>> >> :
        kind \in {"event", "damaged"}, time \in {1, 2}}

MCTrades == <<1, 2, 2, 4>>
=============================================================================
