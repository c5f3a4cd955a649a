--------------------------- MODULE MCBronzeWriter ---------------------------
(* A small instance of BronzeWriter: two providers, one malformed message.  *)
EXTENDS BronzeWriter

CONSTANTS databento, emulator

MCProviders == {databento, emulator}
MCMalformed == {3}
MCProviderOf == [o \in 1..MaxOffset |-> IF o \in {2, 3} THEN emulator ELSE databento]
=============================================================================
