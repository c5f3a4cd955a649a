---------------------------- MODULE MCReplayJobs ----------------------------
(* Two engines; the hash of the third job does not deserialise.             *)
EXTENDS ReplayJobs

CONSTANTS e1, e2

MCEngines == {e1, e2}
MCUnreadable == {3}
MCNone == {}
=============================================================================
