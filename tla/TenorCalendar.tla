--------------------------- MODULE TenorCalendar ---------------------------
(***************************************************************************)
(* The tenor arithmetic of the normalization-service: what TenorMapper     *)
(* makes of a provider's tenor, given the current date.  A month is a      *)
(* record of a year and a month number, a quarter one of a year and a      *)
(* quarter number.                                                         *)
(***************************************************************************)
EXTENDS Integers

Months == [year : Nat, month : 1..12]
Quarters == [year : Nat, quarter : 1..4]

\* M+n: n months after the month today.
MonthsForwardDecemberIsZero(today, n) ==
    LET total == today.month + n
    IN [year |-> today.year + total \div 12, month |-> total % 12]
MonthsForward(today, n) ==
    LET total == today.month - 1 + n
    IN [year |-> today.year + total \div 12, month |-> (total % 12) + 1]

\* Q+n: n quarters after the quarter of the month today.
QuartersForward(today, n) ==
    LET total == (today.month - 1) \div 3 + n
    IN [year |-> today.year + total \div 4, quarter |-> (total % 4) + 1]

\* "MAR24" and "CAL24" mean this century.
ExpandTwoDigits(yy) == 2000 + yy
Year(raw) == IF raw.digits = 2 THEN ExpandTwoDigits(raw.year) ELSE raw.year

\* What the patterns find in the strings of each form; a month or a name of a
\* month that there is not is a month number that there is not.
RawTenors ==
    [form : {"M+n", "Q+n"}, n : Nat]
        \cup [form : {"month"}, year : Nat, month : Nat, digits : {2, 4}]
        \cup [form : {"quarter"}, year : Nat, quarter : 1..4]
        \cup [form : {"summer", "winter", "annual"}, year : Nat, digits : {2, 4}]
        \cup [form : {"spot", "none of these"}]

Periods == {"SPOT", "MONTHLY", "QUARTERLY", "SEASONAL", "ANNUAL"}
NoTenor == [period |-> "NONE"]

\* TenorMapper.normalise(): the tenor a raw string denotes, by the form whose
\* pattern matches first.  NoTenor is the ValueError of a month number that is
\* not one, of a month name that is not one, and of a string no pattern matches.
Canonical(raw, today) ==
    CASE raw.form = "M+n" ->
            [period |-> "MONTHLY", at |-> MonthsForward(today, raw.n)]
      [] raw.form = "Q+n" ->
            [period |-> "QUARTERLY", at |-> QuartersForward(today, raw.n)]
      [] raw.form = "spot" -> [period |-> "SPOT"]
      [] raw.form = "month" ->
            IF raw.month \in 1..12
            THEN [period |-> "MONTHLY", at |-> [year |-> Year(raw), month |-> raw.month]]
            ELSE NoTenor
      [] raw.form = "quarter" ->
            [period |-> "QUARTERLY", at |-> [year |-> raw.year, quarter |-> raw.quarter]]
      [] raw.form \in {"summer", "winter"} ->
            [period |-> "SEASONAL", at |-> [year |-> Year(raw), season |-> raw.form]]
      [] raw.form = "annual" ->
            [period |-> "ANNUAL", at |-> [year |-> Year(raw)]]
      [] OTHER -> NoTenor

-----------------------------------------------------------------------------
(* What the arithmetic is compared with: the calendar, month by month.     *)

NextMonth(m) ==
    IF m.month = 12 THEN [year |-> m.year + 1, month |-> 1]
                    ELSE [year |-> m.year, month |-> m.month + 1]

QuarterOf(m) == [year |-> m.year, quarter |-> (m.month - 1) \div 3 + 1]

\* The month reached from m in n steps.
Steps(m, limit) ==
    LET after[n \in 0..limit] == IF n = 0 THEN m ELSE NextMonth(after[n - 1])
    IN after
=============================================================================
