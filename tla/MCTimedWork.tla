----------------------------- MODULE MCTimedWork ----------------------------
(***************************************************************************)
(* The parts of the program that work by priority or by the clock, side    *)
(* by side: a priority pool and a scheduled pool (TaskPool), the job       *)
(* scheduler over two days and under stop (JobScheduler), and the dates    *)
(* of single cron expressions (CronSchedule).  They share no state, so     *)
(* part says which of them moves in a behaviour and the others rest: what  *)
(* holds of each alone holds of all together.                              *)
(***************************************************************************)
EXTENDS TimedWork, TLC

CONSTANTS t1, t2, t3, t4, f1, w1, w2, j1, j2, j3, j4

VARIABLES
    part,           \* what runs
    cron, date, runs

\* t1 waits 1500 milliseconds, t2 two seconds, t3 one minute, t4 none, f1 one hour.
Waiting == {t1, t2, t3, t4}
WaitTunit == (t1 :> 1500) @@ (t2 :> 2) @@ (t3 :> 1) @@ (t4 :> 0) @@ (f1 :> 1)
WaitType  == (t1 :> 2) @@ (t2 :> 3) @@ (t3 :> 4) @@ (t4 :> 3) @@ (f1 :> 5)

Timed == INSTANCE TaskPool WITH
    Workers <- {w1}, Plain <- Waiting, Priority <- FALSE, Tunit <- WaitTunit,
    Type <- WaitType, Instants <- {0, 1, 4, 7199, 7200}, LastCall <- 1, Batch <- 1

-----------------------------------------------------------------------------
X == [kind |-> "all", vals |-> <<>>]
V(v) == [kind |-> "single", vals |-> <<v>>]
R(a, b) == [kind |-> "range", vals |-> <<a, b>>]
S(a, i) == [kind |-> "every", vals |-> <<a, i>>]
RS(a, b, i) == [kind |-> "rangeEvery", vals |-> <<a, b, i>>]
L(v) == [kind |-> "list", vals |-> v]

\* Two jobs that never meet minute 0 or hour 0, one with an invalid range, and one
\* that is to run at minute 0 without end
JobCron ==
    (j1 :> <<L(<<2, 3>>), R(9, 10), X, X, X, X>>) @@
    (j2 :> <<RS(2, 58, 28), V(9), R(14, 16), X, X, X>>) @@
    (j3 :> <<R(3, 70), X, X, X, X, X>>) @@
    (j4 :> <<L(<<0, 2>>), X, X, X, X, X>>)

\* In the middle of May, at the end of March, in January and between two runs
JobStarts == {<<2, 9, 14, 4, 0, 2024>>, <<2, 9, 28, 2, 0, 2023>>, <<2, 9, 14, 0, 0, 2024>>,
              <<1, 9, 14, 4, 0, 2024>>}

TwoDays == INSTANCE JobScheduler WITH
    now <- jobNow, pc <- jobPc, MaxMinutes <- 3000, MaxBusy <- 2, MayStop <- FALSE

ASSUME JobsAssumption == TwoDays!JobAssumption /\ Sched!JobAssumption

\* An expression, its first run and how many are looked at: up to one that never
\* comes, or seventy years.  They meet minute 0, the ends of months that the
\* arithmetic takes for others, December and leap years.
Runs == {
    <<<<X, X, X, X, X, X>>,                        <<50, 22, 27, 1, 0, 2023>>, 60>>,
    <<<<L(<<10, 20>>), R(9, 11), X, X, X, X>>,     <<10, 9, 1, 7, 0, 2024>>, 400>>,
    <<<<RS(5, 45, 20), RS(3, 21, 6), X, X, X, X>>, <<5, 3, 20, 6, 0, 2023>>, 400>>,
    <<<<V(30), V(6), X, X, X, X>>,                 <<30, 6, 1, 2, 0, 2023>>, 300>>,
    <<<<V(15), V(4), L(<<1, 15>>), X, X, X>>,      <<15, 4, 1, 1, 0, 2023>>, 60>>,
    <<<<V(5), S(1, 4), R(10, 12), V(5), X, X>>,    <<5, 1, 10, 5, 0, 2023>>, 60>>,
    <<<<V(1), V(1), V(1), RS(2, 11, 3), X, X>>,    <<1, 1, 1, 2, 0, 2023>>, 30>>,
    <<<<V(1), V(1), V(28), V(2), X, X>>,           <<1, 1, 28, 2, 0, 2023>>, 70>>}
RunCrons == {r[1] : r \in Runs}

Dates == INSTANCE CronSchedule WITH
    nextRunDate <- date, Crons <- RunCrons,
    FirstRun <- [c \in RunCrons |-> (CHOOSE r \in Runs : r[1] = c)[2]],
    MaxRuns <- [c \in RunCrons |-> (CHOOSE r \in Runs : r[1] = c)[3]]

-----------------------------------------------------------------------------
jobVars  == <<jobNow, minutes, sched, jobPc, doRun, nextRunDate, busy, fired, missed,
              strayed, threw, stale>>
dateVars == <<cron, date, runs>>
allVars  == <<part, vars, jobVars, dateVars>>

\* What rests keeps one of its initial states.
TimedInit ==
    /\ part \in {"priority", "timed", "jobs", "stop", "dates"}
    /\ IF part = "timed" THEN Timed!Init ELSE Init
    /\ TwoDays!Init
    /\ Dates!Init
    /\ part = "dates" \/ cron = CHOOSE c \in RunCrons : TRUE
    /\ part \in {"jobs", "stop"} \/ jobNow = CHOOSE t \in JobStarts : TRUE

TimedNext ==
    /\ UNCHANGED part
    /\ \/ part = "priority" /\ Next /\ UNCHANGED <<jobVars, dateVars>>
       \/ part = "timed" /\ Timed!Next /\ UNCHANGED <<jobVars, dateVars>>
       \/ part = "jobs" /\ TwoDays!Next /\ UNCHANGED <<vars, dateVars>>
       \/ part = "stop" /\ Sched!Next /\ UNCHANGED <<vars, dateVars>>
       \/ part = "dates" /\ Dates!Next /\ UNCHANGED <<vars, jobVars>>

Rest == UNCHANGED <<part, jobVars, dateVars>>

\* The workers of the priority pool go on, and so does a submit once begun.
TimedSpec ==
    /\ TimedInit /\ [][TimedNext]_allVars
    /\ \A w \in Workers : WF_allVars(part = "priority" /\ Work(w) /\ Rest)
    /\ \A t \in Tasks : WF_allVars(part = "priority" /\ SetFuture(t) /\ Rest)

-----------------------------------------------------------------------------
(* Properties of the instances *)

\* Over two days of polling a job is run in no minute but those that its expression
\* names, once in each, and misses none of them while it waits, as long as
\* nextRunDate was one that comes.
OnSchedule == part = "jobs" => TwoDays!OnSchedule

\* The date that JobTask::run works out after a run is the next one that the
\* expression names, as long as that is in reach of the date arithmetic: no run is
\* skipped and none is repeated.
ExactNext == Dates!ExactNext
=============================================================================
