---------------------------- MODULE ClassSchedule ----------------------------
(***************************************************************************)
(* The recurrence rule of a class as the two class forms write and read    *)
(* it.  Times are left out: they change no date a class meets on.          *)
(***************************************************************************)
EXTENDS Naturals, Sequences

CONSTANTS Days, NoDate

Cadences == {"no-repeat", "daily", "weekly", "biweekly", "monthly", "custom"}
OnDays == {"weekly", "biweekly", "custom"}

\* A rule has the INTERVAL parts as written, and COUNT=1 or not; "none" is no RRULE at all.
Rule(freq, intervals, once, days, from, until) ==
  [freq |-> freq, intervals |-> intervals, once |-> once, days |-> days, from |-> from, until |-> until]

Freq(cadence) ==
  CASE cadence = "daily" -> "daily" [] cadence = "monthly" -> "monthly" [] OTHER -> "weekly"
DaysOf(f) == IF f.cadence \in OnDays THEN f.days ELSE {}

\* What the creation form writes.
Intervals(f) == CASE f.cadence = "biweekly" -> <<1, 2>> [] f.cadence = "weekly" -> <<1>>
                  [] f.cadence = "custom" -> <<f.every>> [] OTHER -> <<>>
Created(f, from) ==
  IF f.cadence = "no-repeat" THEN Rule("daily", <<>>, TRUE, {}, from, NoDate)
  ELSE Rule(Freq(f.cadence), Intervals(f), FALSE, DaysOf(f), from, f.until)

\* What the editor reads: the first INTERVAL counts.
\* Mutant of Read: longer intervals are not told from a week.
First(s) == IF s = <<>> THEN 1 ELSE s[1]
Weeks(n) == IF n = 2 THEN "biweekly" ELSE IF n > 2 THEN "custom" ELSE "weekly"
ReadM(r, until) == [cadence |-> r.freq, every |-> First(r.intervals), days |-> r.days, until |-> until]
Read(r, until) ==
  [cadence |-> CASE r.freq = "none" -> "no-repeat"
                 [] r.freq = "weekly" -> Weeks(First(r.intervals)) [] OTHER -> r.freq,
   every |-> First(r.intervals), days |-> r.days, until |-> until]

\* What the editor writes over the rule r: no COUNT, and without a date its old UNTIL.
Rewritten(r, f, from) ==
  IF f.cadence = "no-repeat" THEN Rule("none", <<>>, FALSE, {}, from, NoDate)
  ELSE Rule(Freq(f.cadence),
            IF f.cadence = "biweekly" THEN <<2>>
            ELSE IF f.cadence = "custom" /\ f.every > 1 THEN <<f.every>> ELSE <<>>,
            FALSE, DaysOf(f), from, IF f.until # NoDate THEN f.until ELSE r.until)

\* The dates a rule stands for: a later INTERVAL replaces an earlier one.
Every(s) == IF s = <<>> THEN 1 ELSE s[Len(s)]
Once(r) == r.once \/ r.freq = "none"
Meets(r) ==
  IF Once(r) THEN [once |-> TRUE, from |-> r.from]
  ELSE [once |-> FALSE, freq |-> r.freq, every |-> Every(r.intervals), days |-> r.days,
        from |-> r.from, until |-> r.until]

\* The dates a form asks for.
Asked(f, from) ==
  IF f.cadence = "no-repeat" THEN [once |-> TRUE, from |-> from]
  ELSE [once |-> FALSE, freq |-> Freq(f.cadence),
        every |-> IF f.cadence = "biweekly" THEN 2 ELSE IF f.cadence = "custom" THEN f.every ELSE 1,
        days |-> DaysOf(f), from |-> from, until |-> f.until]
=============================================================================
