---------------------------- MODULE MCGoldLoader ----------------------------
(* One curve of two tenors.  The first window is complete before event 4,   *)
(* an update of one of its tenors; the events of the second are 5, of poor   *)
(* quality until 6 corrects it, and a malformed message comes between.       *)
EXTENDS GoldLoader

CONSTANTS front, back

MCMalformed == {3}
MCWindowOf == [o \in 1..MaxOffset |-> IF o >= 5 THEN 2 ELSE 1]
MCTenorOf == [o \in 1..MaxOffset |-> IF o = 2 THEN back ELSE front]
MCPoor == {5}
=============================================================================
