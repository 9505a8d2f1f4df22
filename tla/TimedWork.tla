------------------------------ MODULE TimedWork -----------------------------
(***************************************************************************)
(* The pools that work by priority or by the clock (TaskPool) and beside   *)
(* them the job scheduler (JobScheduler), which shares no state with them. *)
(***************************************************************************)
EXTENDS TaskPool

CONSTANTS
    Jobs, Cron, StartAt, MaxMinutes, MaxBusy, MayStop   \* of the job scheduler

VARIABLES
    jobNow, minutes, sched, jobPc, doRun, nextRunDate, busy, fired, missed, strayed,
    threw, stale

Sched == INSTANCE JobScheduler WITH now <- jobNow, pc <- jobPc

\* JobScheduler::stop touches no JobTask that its thread has deleted, except one
\* whose expression was invalid or whose function threw.
StopTouchesLive == Sched!StopTouchesLive
=============================================================================
