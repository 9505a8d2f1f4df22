---------------------------- MODULE CronSchedule ----------------------------
(***************************************************************************)
(* The run dates of one cron expression: every step is a run and the       *)
(* calculation made after it, compared with the calendar.  A job whose     *)
(* date the clock never comes to, or isValid refuses, rests for good.      *)
(***************************************************************************)
EXTENDS CronTimer

CONSTANTS
    Crons,          \* expressions
    FirstRun,       \* FirstRun[cron]: a date it matches
    MaxRuns         \* bound: MaxRuns[cron] runs are looked at

VARIABLES cron, nextRunDate, runs
vars == <<cron, nextRunDate, runs>>

Init == cron \in Crons /\ nextRunDate = FirstRun[cron] /\ runs = 0

Next ==
    /\ runs < MaxRuns[cron] /\ runs' = runs + 1
    /\ OnCalendar(nextRunDate)
    /\ \A p \in Used : IsValid(Parse(cron)[p], nextRunDate[p], nextRunDate[p])
    /\ nextRunDate' = Advance(Parse(cron), nextRunDate)
    /\ UNCHANGED cron

Spec == Init /\ [][Next]_vars

-----------------------------------------------------------------------------

\* As long as the next run is in reach of the date arithmetic, the date worked out
\* after a run is the next one that the expression names: no run is skipped and
\* none is repeated.
ExactNext ==
    [][runs' > runs /\ InReach(cron, nextRunDate)
         => nextRunDate' = NextMatch(cron, nextRunDate)]_vars
=============================================================================
