-------------------------- MODULE MCCurvePipeline --------------------------
(* A small instance of CurvePipeline: two providers, two curves of one       *)
(* instrument, two replicas of each service, the turn of a year.             *)
EXTENDS CurvePipeline

CONSTANTS n1, n2, w1, w2, databento, emulator, monthly, quarterly

Relative(form, n, time) ==
    [usable |-> TRUE, time |-> time, instrument |-> "TTF", tenor |-> [form |-> form, n |-> n]]

MCReplicas == {n1, n2}
MCWriters == {w1, w2}
MCSources == {databento, emulator}
MCInstruments == {"TTF"}
MCCurves == {monthly, quarterly}
MCCurveOf ==
    [curve \in MCInstruments \X Periods |->
        IF curve[2] = "MONTHLY" THEN monthly ELSE quarterly]
MCValidated ==
    [p \in MCSources |->
        IF p = databento
        THEN <<Relative("M+n", 1, 2), Relative("Q+n", 1, 3)>>
        ELSE <<[Relative("M+n", 1, 1) EXCEPT !.usable = FALSE], Relative("M+n", 1, 1)>>]
MCAssignments == {[p \in MCSources |-> IF p = databento THEN n1 ELSE n2]}
MCWAssignments == {[c \in MCCurves |-> w1]}
MCFirstMonth == [year |-> 2025, month |-> 12]
MCLastMonth == [year |-> 2026, month |-> 1]
=============================================================================
