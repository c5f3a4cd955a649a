--------------------------- MODULE MCSilverLoader ---------------------------
(* A small instance of SilverLoader with one malformed message.             *)
EXTENDS SilverLoader

MCMalformed == {2}
=============================================================================
