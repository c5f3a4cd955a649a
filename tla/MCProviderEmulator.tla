------------------------- MODULE MCProviderEmulator -------------------------
(* A small instance of ProviderEmulator: a synthetic curve of three tenors,  *)
(* and an instrument with one bar in the Databento cache.                    *)
EXTENDS ProviderEmulator

CONSTANTS ttf, brent

MCInstruments == <<ttf, brent>>
MCTenors == [i \in {ttf, brent} |-> IF i = ttf THEN 3 ELSE 1]
MCBars == [i \in {ttf, brent} |-> IF i = brent THEN 1 ELSE 0]
=============================================================================
