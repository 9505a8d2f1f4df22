------------------------------ MODULE CronTimer -----------------------------
(***************************************************************************)
(* CronTimer and the date arithmetic of Date that it uses: how the parts   *)
(* of a cron expression are read, when a part admits a value, and how the  *)
(* date of the next run is worked out after a run.  Operators only.        *)
(*                                                                         *)
(* An expression is a sequence of six fields (minute, hour, day, month,    *)
(* day of week, year), each [kind, vals]: "*", "v", "a-b", "a/i", "a-b/i"  *)
(* or "v,w,...", with names already turned into numbers.  A step i is at   *)
(* least 1: the code divides by it.                                        *)
(***************************************************************************)
EXTENDS Integers, Sequences, FiniteSets, SequencesExt, FiniteSetsExt

\* Positions 0 to 5 of the code are 1 to 6 here; 5, the day of the week, is
\* parsed and never looked at again.
Starts == <<0, 0, 1, 1, 0, 1970>>
Ends == <<59, 23, 31, 12, 6, 2099>>
Used == {1, 2, 3, 4, 6}

Bad == [all |-> FALSE, from |-> -2, to |-> -2, interval |-> -2, lst |-> <<>>]
Part(all, from, to, interval, lst) ==
    [all |-> all, from |-> from, to |-> to, interval |-> interval, lst |-> lst]

ParseRangeEvery(p, v) ==
    IF v[1] < Starts[p] \/ v[2] > Ends[p] \/ v[3] > v[2] - v[1]
    THEN Bad ELSE Part(FALSE, v[1], v[2], v[3], <<>>)

ParseRange(p, v) ==
    IF v[1] < Starts[p] \/ v[2] > Ends[p] THEN Bad ELSE Part(FALSE, v[1], v[2], -1, <<>>)

ParseEvery(p, v) ==
    IF v[1] < Starts[p] \/ v[2] > Ends[p] \/ v[2] > Ends[p] - v[1]
    THEN Bad ELSE Part(FALSE, v[1], Ends[p], v[2], <<>>)

\* A value out of range ends the list.
ParseList(p, v) ==
    LET ok == {n \in 0 .. Len(v) : \A i \in 1 .. n : v[i] \in Starts[p] .. Ends[p]} IN
    Part(FALSE, -1, -1, -1, SortSeq(SubSeq(v, 1, Max(ok)), <))

\* A value out of range ends the parsing, and the expression is parts short.  When
\* only the year is, every year is put in its place; otherwise isValid finds no
\* part to look at, and the job ends as for an invalid expression.
ParseSingle(p, v) ==
    IF v[1] \in Starts[p] .. Ends[p] THEN Part(FALSE, v[1], -1, -1, <<>>)
    ELSE IF p = 6 THEN Part(TRUE, -1, -1, -1, <<>>) ELSE Bad

ParsePart(p, e) ==
    CASE e.kind = "all" -> Part(TRUE, -1, -1, -1, <<>>)
      [] e.kind = "rangeEvery" -> ParseRangeEvery(p, e.vals)
      [] e.kind = "range" -> ParseRange(p, e.vals)
      [] e.kind = "every" -> ParseEvery(p, e.vals)
      [] e.kind = "list" -> ParseList(p, e.vals)
      [] e.kind = "single" -> ParseSingle(p, e.vals)

Parse(cron) == [p \in 1 .. 6 |-> ParsePart(p, cron[p])]
Accepted(parts) == \A p \in 1 .. 6 : parts[p] # Bad

\* Mutant: the current value is not compared with that of the next run.
IsValidNow(part, c, n) ==
    /\ c > 0
    /\ \/ part.all
       \/ part.interval = -1 /\ part.from = c
       \/ part.interval = -1 /\ part.to # -1 /\ c \in part.from .. part.to
       \/ /\ part.interval # -1 /\ c \in part.from .. part.to
          /\ (c - part.from) % part.interval = 0
       \/ c \in ToSet(part.lst)

\* isValid
IsValid(part, c, n) ==
    /\ c > 0 /\ c = n
    /\ \/ part.all
       \/ part.interval = -1 /\ part.from = c
       \/ part.interval = -1 /\ part.to # -1 /\ c \in part.from .. part.to
       \/ /\ part.interval # -1 /\ c \in part.from .. part.to
          /\ (c - part.from) % part.interval = 0
       \/ c \in ToSet(part.lst)

-----------------------------------------------------------------------------
(* Date.  A date is <<minutes, hours, day, month, weekday unused, year>>.  *)
(* Date() counts the months from 0, as tm_mon does.  What follows counts   *)
(* them from 1, and so does an expression.                                 *)

GetDays(y, m, d) ==
    LET mm == (m + 9) % 12
        yy == y - 1900 - mm \div 10
    IN 365 * yy + yy \div 4 - yy \div 100 + yy \div 400 + (mm * 306 + 5) \div 10 + (d - 1)

\* getDateFromDaysInternal
DateFromDays(t, days) ==
    LET Rest(y) == days - (365 * y + y \div 4 - y \div 100 + y \div 400)
        y0 == (10000 * days + 14780) \div 3652425
        y1 == IF Rest(y0) < 0 THEN y0 - 1 ELSE y0
        mi == (100 * Rest(y1) + 52) \div 3060
    IN <<t[1], t[2], Rest(y1) - (mi * 306 + 5) \div 10 + 1, ((mi + 2) % 12) + 1, 0,
         y1 + (mi + 2) \div 12 + 1900>>

UpdateDays(t, n) == DateFromDays(t, GetDays(t[6] + t[4] \div 12, t[4] % 12, t[3] + n))

UpdateMonths(t, n) ==
    DateFromDays(t, GetDays(t[6] + (t[4] + n) \div 12, (t[4] + n) % 12, t[3]))

UpdateYears(t, n) == DateFromDays(t, GetDays(t[6] + n, t[4], t[3]))

UpdateHours(t, n) ==
    LET days == (t[2] + n) \div 24
        u == IF days > 0 THEN UpdateDays(t, days) ELSE t
    IN [u EXCEPT ![2] = (t[2] + n) % 24]

UpdateMinutes(t, n) ==
    LET hours == (t[1] + n) \div 60
        u == IF hours > 0 THEN UpdateHours(t, hours) ELSE t
    IN [u EXCEPT ![1] = (t[1] + n) % 60]

Update(p, t, n) ==
    CASE p = 1 -> UpdateMinutes(t, n)
      [] p = 2 -> UpdateHours(t, n)
      [] p = 3 -> UpdateDays(t, n)
      [] p = 4 -> UpdateMonths(t, n)
      [] p = 6 -> UpdateYears(t, n)

-----------------------------------------------------------------------------
(* The next run *)

First(part, p) ==
    IF part.lst # <<>> THEN part.lst[1] ELSE IF part.from = -1 THEN Starts[p] ELSE part.from

Latest(part, p) ==
    IF part.lst # <<>> THEN part.lst[Len(part.lst)]
    ELSE IF part.to # -1 THEN part.to
    ELSE IF part.from # -1 THEN part.from ELSE Ends[p]

\* A field at or past its last value goes back to its first.
Rewind(parts, p, t) ==
    IF t[p] >= Latest(parts[p], p) THEN Update(p, t, First(parts[p], p) - t[p]) ELSE t

\* correctNextRunDateTime: the fields below p, the largest first
Correct(parts, p, t) ==
    FoldLeft(LAMBDA u, q : Rewind(parts, q, u), t,
             SelectSeq(<<4, 3, 2, 1>>, LAMBDA q : q < p))

IntervalValue(part, c) ==
    LET j == SelectInSeq(part.lst, LAMBDA v : v = c)
        step == IF part.interval # -1 THEN part.interval ELSE 1
        iv == IF j > 0 THEN part.lst[(j % Len(part.lst)) + 1] - c ELSE step
    IN IF part.interval # -1 /\ c + iv > part.to THEN part.from - c ELSE iv

\* Mutant: the smaller fields are not set back.
TryIncrementPlain(parts, p, t) ==
    LET part == parts[p]
        iv == IntervalValue(part, t[p])
    IN IF \/ part.all \/ part.interval # -1 \/ t[p] \in ToSet(part.lst)
          \/ t[p] >= part.from /\ t[p] < part.to
       THEN [date |-> Update(p, t, iv), done |-> iv >= 0]
       ELSE [date |-> t, done |-> FALSE]

TryIncrement(parts, p, t) ==
    LET part == parts[p]
        iv == IntervalValue(part, t[p])
    IN IF \/ part.all \/ part.interval # -1 \/ t[p] \in ToSet(part.lst)
          \/ t[p] >= part.from /\ t[p] < part.to
       THEN [date |-> Correct(parts, p, Update(p, t, iv)), done |-> iv >= 0]
       ELSE [date |-> t, done |-> FALSE]

\* After a run: minutes, else hours, else days, else months, else years
Advance(parts, t) ==
    FoldLeft(LAMBDA r, p : IF r.done THEN r ELSE TryIncrement(parts, p, r.date),
             [date |-> t, done |-> FALSE], <<1, 2, 3, 4, 6>>).date

-----------------------------------------------------------------------------
(* What the fields mean, and the calendar.  Months are those of Date(), 0  *)
(* to 11: a month that an expression names, JAN as 1, is compared with     *)
(* them as it is, and so is taken a month late; there is no month 12.      *)

Denotes(p, e) ==
    CASE e.kind = "all" -> (IF p = 4 THEN 0 .. 11 ELSE Starts[p] .. Ends[p])
      [] e.kind = "rangeEvery" -> {v \in e.vals[1] .. e.vals[2] : (v - e.vals[1]) % e.vals[3] = 0}
      [] e.kind = "range" -> e.vals[1] .. e.vals[2]
      [] e.kind = "every" -> {v \in e.vals[1] .. Ends[p] : (v - e.vals[1]) % e.vals[2] = 0}
      [] OTHER -> ToSet(e.vals)

Matches(cron, t) == \A p \in Used : t[p] \in Denotes(p, cron[p])

Leap(y) == y % 4 = 0 /\ (y % 100 # 0 \/ y % 400 = 0)
DaysIn(y, m) == IF m = 1 THEN IF Leap(y) THEN 29 ELSE 28 ELSE IF m \in {3, 5, 8, 10} THEN 30 ELSE 31

\* A date that the clock comes to
OnCalendar(t) == t[4] \in 0 .. 11 /\ t[3] \in 1 .. DaysIn(t[6], t[4])

NextDay(t) ==
    IF t[3] < DaysIn(t[6], t[4]) THEN [t EXCEPT ![3] = @ + 1]
    ELSE IF t[4] < 11 THEN [t EXCEPT ![3] = 1, ![4] = @ + 1]
    ELSE [t EXCEPT ![3] = 1, ![4] = 0, ![6] = @ + 1]

NextMinute(t) ==
    IF t[1] < 59 THEN [t EXCEPT ![1] = @ + 1]
    ELSE IF t[2] < 23 THEN [t EXCEPT ![1] = 0, ![2] = @ + 1]
    ELSE NextDay([t EXCEPT ![1] = 0, ![2] = 0])

\* Dates and times of day as sequences, the largest unit first.
Ordered(x, y) ==
    \E i \in 1 .. Len(x) : x[i] < y[i] /\ \A j \in 1 .. i - 1 : x[j] = y[j]
Earliest(D) == CHOOSE x \in D : \A y \in D : ~Ordered(y, x)
Earlier(t, u) == Ordered(<<t[6], t[4], t[3], t[2], t[1]>>, <<u[6], u[4], u[3], u[2], u[1]>>)

Times(c) == Denotes(2, c[2]) \X Denotes(1, c[1])
Days(c, years) ==
    {x \in years \X (Denotes(4, c[4]) \cap 0 .. 11) \X Denotes(3, c[3]) :
        x[3] <= DaysIn(x[1], x[2])}

\* The first minute after t that the expression names: it names a day every year.
NextMatch(c, t) ==
    LET later == {x \in Times(c) : Ordered(<<t[2], t[1]>>, x)}
        days == {x \in Days(c, t[6] .. t[6] + 1) : Ordered(<<t[6], t[4], t[3]>>, x)}
        u == Earliest(days)
    IN IF later # {}
       THEN LET x == Earliest(later) IN [t EXCEPT ![1] = x[2], ![2] = x[1]]
       ELSE LET x == Earliest(Times(c)) IN <<x[2], x[1], u[3], u[2], 0, u[1]>>

\* The next run lies where the arithmetic does not meet the end of a month, which
\* it takes for the month before: on the same day; or in the same month, up to the
\* 28th; or in another month of the year, if the expression names days up to the
\* 28th; or in the next year, if it also names the months.  There is a next run if
\* it names every year.
NamesDays(c)   == c[3].kind # "all" /\ Denotes(3, c[3]) \subseteq 1 .. 28
NamesMonths(c) == c[4].kind # "all" /\ Denotes(4, c[4]) \subseteq 1 .. 11
InReach(c, t) ==
    /\ c[6].kind = "all"
    /\ LET n == NextMatch(c, t) IN
       \/ n[6] = t[6] /\ n[4] = t[4] /\ (n[3] = t[3] \/ n[3] <= 28)
       \/ n[6] = t[6] /\ NamesDays(c)
       \/ NamesDays(c) /\ NamesMonths(c)
=============================================================================
