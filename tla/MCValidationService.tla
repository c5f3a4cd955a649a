------------------------ MODULE MCValidationService ------------------------
(* Two replicas; offset 3 repeats the event of offset 1, as the emulator's  *)
(* duplicate fault does.                                                    *)
EXTENDS ValidationService

CONSTANTS r1, r2, a, b

MCReplicas == {r1, r2}
MCIds == {a, b}
MCIdOf == [o \in 1..MaxOffset |-> IF o = 4 THEN b ELSE a]
MCKindOf == [o \in 1..MaxOffset |->
    CASE o = 2 -> "undecodable" [] o = 4 -> "implausible" [] OTHER -> "plausible"]
=============================================================================
