---------------------------- MODULE JobScheduler ----------------------------
(***************************************************************************)
(* JobScheduler: start makes a thread per job, the thread polls the clock  *)
(* every second and runs the job's function when the current minute is the *)
(* one of its nextRunDate; stop asks the threads to end.  Time passes      *)
(* minute by minute; a waiting thread polls at least once in a minute.     *)
(***************************************************************************)
EXTENDS CronTimer

CONSTANTS
    Jobs,
    Cron,           \* Cron[j]: the job's expression
    StartAt,        \* dates at which start may be called
    MaxMinutes,     \* bound: minutes that pass
    MaxBusy,        \* minutes the function of a job may take
    MayStop         \* stop may be called, and a job's function may throw

JobAssumption ==
    /\ DOMAIN Cron = Jobs
    /\ MaxMinutes \in Nat /\ MaxBusy \in Nat /\ MayStop \in BOOLEAN

Parts == [j \in Jobs |-> Parse(Cron[j])]

VARIABLES
    now, minutes,   \* the clock, and how many minutes have passed
    sched,          \* "init", "started" or "stopped"
    pc,             \* pc[j]: "none", "new", "poll", "run" or "ended" (task deleted)
    doRun,          \* doRun[j]
    nextRunDate,    \* nextRunDate[j]
    busy,           \* busy[j]: minutes its function has taken
    fired,          \* history: fired[j], runs begun in this minute, up to 2
    missed,         \* history: jobs with a named minute that went by without a run
    strayed,        \* history: jobs whose nextRunDate may be one that never comes
    threw,          \* history: jobs whose function threw
    stale           \* history: jobs whose task stop touched after its deletion

vars == <<now, minutes, sched, pc, doRun, nextRunDate, busy, fired, missed, strayed, threw, stale>>

Init ==
    /\ now \in StartAt /\ minutes = 0
    /\ sched = "init"
    /\ pc = [j \in Jobs |-> "none"]
    /\ doRun = [j \in Jobs |-> FALSE]
    /\ nextRunDate = [j \in Jobs |-> now]
    /\ busy = [j \in Jobs |-> 0]
    /\ fired = [j \in Jobs |-> 0]
    /\ missed = {} /\ strayed = {} /\ threw = {} /\ stale = {}

Goto(j, l) == pc' = [pc EXCEPT ![j] = l]

Start ==
    /\ sched = "init"
    /\ sched' = "started"
    /\ pc' = [j \in Jobs |-> "new"]
    /\ doRun' = [j \in Jobs |-> TRUE]
    /\ UNCHANGED <<now, minutes, nextRunDate, busy, fired, missed, strayed, threw, stale>>

\* What isValid refuses although an expression may name it: minute 0, hour 0 and
\* the month of January
Refused(t) == t[1] = 0 \/ t[2] = 0 \/ t[4] = 0

\* JobTask::run up to its loop: an invalid expression ends the job.  nextRunDate
\* is the current minute, whether the expression names it or not.
Begin(j) ==
    /\ pc[j] = "new"
    /\ Goto(j, IF Accepted(Parts[j]) THEN "poll" ELSE "ended")
    /\ nextRunDate' = [nextRunDate EXCEPT ![j] = now]
    /\ strayed' = strayed \cup
         (IF Accepted(Parts[j]) /\ (Refused(now) \/ ~Matches(Cron[j], now)) THEN {j} ELSE {})
    /\ UNCHANGED <<now, minutes, sched, doRun, busy, fired, missed, threw, stale>>

Due(j) == \A p \in Used : IsValid(Parts[j][p], now[p], nextRunDate[j][p])

Run(j) ==
    /\ pc[j] = "poll" /\ doRun[j] /\ Due(j)
    /\ fired[j] < 2
    /\ Goto(j, "run")
    /\ busy' = [busy EXCEPT ![j] = 0]
    /\ fired' = [fired EXCEPT ![j] = @ + 1]
    /\ UNCHANGED <<now, minutes, sched, doRun, nextRunDate, missed, strayed, threw, stale>>

\* Mutant: a job ends after its first run.
ReturnsAndEnds(j) ==
    /\ pc[j] = "run"
    /\ Goto(j, "ended")
    /\ nextRunDate' = [nextRunDate EXCEPT ![j] = Advance(Parts[j], nextRunDate[j])]
    /\ UNCHANGED <<now, minutes, sched, doRun, busy, fired, missed, strayed, threw, stale>>

\* The next named minute is out of reach of the date arithmetic, or isValid refuses
\* it, or it went by while the function ran.
Lost(c, t) ==
    \/ ~InReach(c, t)
    \/ LET n == NextMatch(c, t) IN Refused(n) \/ Earlier(n, now)

Returns(j) ==
    /\ pc[j] = "run"
    /\ Goto(j, "poll")
    /\ nextRunDate' = [nextRunDate EXCEPT ![j] = Advance(Parts[j], nextRunDate[j])]
    /\ strayed' = strayed \cup (IF Lost(Cron[j], nextRunDate[j]) THEN {j} ELSE {})
    /\ UNCHANGED <<now, minutes, sched, doRun, busy, fired, missed, threw, stale>>

\* An exception ends the job, whatever its expression.
Throws(j) ==
    /\ MayStop /\ pc[j] = "run"
    /\ Goto(j, "ended")
    /\ threw' = threw \cup {j}
    /\ UNCHANGED <<now, minutes, sched, doRun, nextRunDate, busy, fired, missed, strayed, stale>>

\* The loop ends and service deletes the task.
Exit(j) ==
    /\ pc[j] = "poll" /\ ~doRun[j]
    /\ Goto(j, "ended")
    /\ UNCHANGED <<now, minutes, sched, doRun, nextRunDate, busy, fired, missed, strayed, threw, stale>>

Stop ==
    /\ MayStop /\ sched = "started"
    /\ sched' = "stopped"
    /\ doRun' = [j \in Jobs |-> FALSE]
    /\ stale' = {j \in Jobs : pc[j] = "ended"}
    /\ UNCHANGED <<now, minutes, pc, nextRunDate, busy, fired, missed, strayed, threw>>

Minute ==
    /\ minutes < MaxMinutes /\ minutes' = minutes + 1
    /\ sched # "init"
    /\ \A j \in Jobs :
        /\ pc[j] # "new"
        /\ pc[j] = "poll" => doRun[j] /\ ~Due(j)
        /\ pc[j] = "run" => busy[j] < MaxBusy
    /\ now' = NextMinute(now)
    /\ busy' = [j \in Jobs |-> IF pc[j] = "run" THEN busy[j] + 1 ELSE 0]
    /\ fired' = [j \in Jobs |-> 0]
    /\ missed' = missed \cup
         {j \in Jobs : pc[j] = "poll" /\ fired[j] = 0 /\ Matches(Cron[j], now)}
    /\ UNCHANGED <<sched, pc, doRun, nextRunDate, strayed, threw, stale>>

Job(j) == Begin(j) \/ Run(j) \/ Returns(j) \/ Throws(j) \/ Exit(j)
Next == Start \/ Stop \/ Minute \/ \E j \in Jobs : Job(j)

Spec == Init /\ [][Next]_vars

-----------------------------------------------------------------------------
(* Properties *)

\* A job is run in no minute but those that its expression names, and once in each
\* although the thread polls sixty times in it.  None of them is missed while the
\* job waits, as long as it was started in such a minute, and each next one was in
\* reach of the date arithmetic, is none that isValid refuses (minute 0, hour 0,
\* January) and had not gone by when the function returned.
OnSchedule ==
    /\ missed \subseteq strayed
    /\ \A j \in Jobs : fired[j] > 0 =>
         Matches(Cron[j], now) /\ (fired[j] = 1 \/ j \in strayed)

\* stop touches no task that its thread has deleted, except one whose expression
\* was invalid or whose function threw.
StopTouchesLive ==
    \A j \in stale : j \in threw \/ ~Accepted(Parts[j])
=============================================================================
