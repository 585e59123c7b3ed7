----------------------------- MODULE CronService -----------------------------
(***************************************************************************)
(* The scheduler of the gateway process (cron/service.py): a store of jobs *)
(* kept in memory and written whole to a file, and one asyncio task, the   *)
(* timer, which sleeps until the earliest job is due, runs the jobs that   *)
(* are due one after the other, saves the store and arms its successor.    *)
(*                                                                         *)
(* Whoever changes the store arms the timer anew, and that cancels the     *)
(* timer there was, also one in the middle of a job.  A job is a turn of   *)
(* the agent (process_direct), so a /stop or a correction in its session   *)
(* cancels the timer too.  One step is what runs between two awaits.       *)
(***************************************************************************)
EXTENDS FiniteSets, Naturals

CONSTANTS
    Jobs,           \* job ids
    OneShots,       \* jobs of kind "at"; the others recur
    DeleteAfterRun, \* one-shots the cron tool made: deleted after their run
    Ticks,          \* timer tasks; a finished task's identity is used again
    MaxRestarts,    \* bound: times the process ends
    MaxStops,       \* bound: stops or corrections that hit a job's turn
    MaxErrors,      \* bound: ledger calls that raise around a job
    None

ASSUME JobsAssumption ==
    /\ OneShots \subseteq Jobs
    /\ DeleteAfterRun \subseteq OneShots
    /\ None \notin Jobs \union Ticks
ASSUME BoundsAssumption == MaxRestarts \in Nat /\ MaxStops \in Nat /\ MaxErrors \in Nat

VARIABLES
    process,   \* "up", "stopping" (after stop()) or "down"
    jobs,      \* the jobs of _store
    enabled,   \* those that are enabled
    next,      \* next_run_at_ms against the clock: unset, ahead or reached
    saved,     \* the file: its jobs
    savedOn,   \* the file: its enabled jobs
    past,      \* one-shots whose time has passed
    timer,     \* _timer_task
    phase,     \* where a timer task is
    cur,       \* the job it runs
    todo,      \* due jobs it has still to run
    restarts, stops, errors,
    \* for the properties
    known,     \* jobs ever added
    removed,   \* jobs removed by their user
    concluded, \* one-shots that have been run to their end
    halted     \* the timer was stopped or failed since it was armed

storeVars == <<jobs, enabled, next>>
fileVars  == <<saved, savedOn>>
timerVars == <<timer, phase, cur, todo, halted>>
boundVars == <<restarts, stops, errors>>
pastVars  == <<known, removed, concluded>>
vars == <<process, storeVars, fileVars, past, timerVars, boundVars, pastVars>>

Phases == {"free", "asleep", "ringing", "working", "promoting", "winding"}
\* A task that nobody has cancelled.
Alive(t) == phase[t] \in {"asleep", "ringing", "working", "promoting"}
Busy(t)  == phase[t] \in {"working", "promoting"}

TypeOK ==
    /\ process \in {"up", "stopping", "down"}
    /\ jobs \subseteq Jobs
    /\ enabled \subseteq jobs
    /\ next \in [Jobs -> {"none", "future", "due"}]
    /\ saved \subseteq Jobs
    /\ savedOn \subseteq saved
    /\ past \subseteq OneShots
    /\ timer \in Ticks \union {None}
    /\ phase \in [Ticks -> Phases]
    /\ cur \in [Ticks -> Jobs \union {None}]
    /\ todo \in [Ticks -> SUBSET Jobs]
    /\ restarts \in 0..MaxRestarts
    /\ stops \in 0..MaxStops
    /\ errors \in 0..MaxErrors
    /\ known \subseteq Jobs
    /\ removed \subseteq known
    /\ concluded \subseteq OneShots
    /\ halted \in BOOLEAN

\* The first start, with a store that an earlier process left behind.
Init ==
    /\ process = "down"
    /\ jobs = {} /\ enabled = {} /\ next = [j \in Jobs |-> "none"]
    /\ saved \in SUBSET Jobs /\ savedOn \in SUBSET saved
    /\ past = {}
    /\ timer = None
    /\ phase = [t \in Ticks |-> "free"]
    /\ cur = [t \in Ticks |-> None]
    /\ todo = [t \in Ticks |-> {}]
    /\ restarts = 0 /\ stops = 0 /\ errors = 0
    /\ known = saved /\ removed = {} /\ concluded = {} /\ halted = FALSE

-----------------------------------------------------------------------------
(* Parts of the operations *)

\* Mutant of NextRun: what was missed is made up for.
NextRunCatchingUp(j) == IF j \in past THEN "due" ELSE "future"

\* _compute_next_run: a one-shot whose time has passed has no next run.
NextRun(j) == IF j \in past THEN "none" ELSE "future"

\* Mutant of Save: the enabled flags are not written.
SaveJobs == saved' = jobs' /\ savedOn' = savedOn \union (jobs' \ saved)

\* _save_store writes the whole store.
Save == saved' = jobs' /\ savedOn' = enabled'

\* Mutant of Cancel: a task that runs a job is spared.
CancelSleeping(t) == IF Busy(t) \/ phase[t] = "winding" THEN phase[t] ELSE "free"

\* Task.cancel(): a task that sleeps ends, one that runs a job must first
\* come out of what it awaits.
Cancel(t) == IF Busy(t) \/ phase[t] = "winding" THEN "winding" ELSE "free"

\* _arm_timer, in a step that ends the tasks of `ended`: cancel the timer
\* task, if there is a next run start another.
Arm(ended) ==
    LET left == [t \in Ticks |-> IF t \in ended THEN "free"
                                 ELSE IF t = timer THEN Cancel(t) ELSE phase[t]]
        unused == {t \in Ticks : left[t] = "free"}
        new    == CHOOSE t \in unused : TRUE
        wake(when) == \E j \in enabled' : next'[j] \in when
    IN  /\ halted' = FALSE
        /\ IF process' = "up" /\ wake({"future", "due"})
           THEN /\ unused # {}
                /\ timer' = new
                /\ phase' = [left EXCEPT ![new] = IF wake({"due"})
                                                  THEN "ringing" ELSE "asleep"]
           ELSE timer' = None /\ phase' = left

\* Mutant of Handled: a job that is deleted is not disabled.
HandledHalf(j) ==
    /\ jobs' = jobs \ ({j} \intersect DeleteAfterRun)
    /\ enabled' = enabled \ (({j} \intersect OneShots) \ DeleteAfterRun)
    /\ next' = [next EXCEPT ![j] = IF j \in OneShots \/ j \notin jobs
                                   THEN "none" ELSE NextRun(j)]
    /\ concluded' = concluded \union ({j} \intersect OneShots)

\* Mutant of Handled: a recurring job is not rescheduled.
HandledOnce(j) ==
    /\ jobs' = jobs \ ({j} \intersect DeleteAfterRun)
    /\ enabled' = enabled \ ({j} \intersect OneShots)
    /\ next' = [next EXCEPT ![j] = IF j \in OneShots THEN "none" ELSE @]
    /\ concluded' = concluded \union ({j} \intersect OneShots)

\* What _execute_job does to the store when the job has been run.
Handled(j) ==
    /\ jobs' = jobs \ ({j} \intersect DeleteAfterRun)
    /\ enabled' = enabled \ ({j} \intersect OneShots)
    /\ next' = [next EXCEPT ![j] = IF j \in OneShots \/ j \notin jobs
                                   THEN "none" ELSE NextRun(j)]
    /\ concluded' = concluded \union ({j} \intersect OneShots)

\* Task t runs the jobs of due, in some order.
Execute(t, due) ==
    \E j \in due :
        /\ phase' = [phase EXCEPT ![t] = "working"]
        /\ cur' = [cur EXCEPT ![t] = j]
        /\ todo' = [todo EXCEPT ![t] = due \ {j}]

-----------------------------------------------------------------------------
(* The timer task *)

\* _on_timer: take the due jobs, run the first.
Wake(t) ==
    /\ phase[t] = "ringing"
    /\ UNCHANGED <<process, storeVars, past, boundVars, pastVars>>
    /\ LET due == {j \in enabled : next[j] = "due"}
       IN  IF due # {}
           THEN Execute(t, due) /\ UNCHANGED <<timer, halted, fileVars>>
           ELSE Save /\ Arm({t}) /\ UNCHANGED <<cur, todo>>

\* on_job has returned, a promotion of what was learnt is awaited.
Return(t) ==
    /\ phase[t] = "working"
    /\ phase' = [phase EXCEPT ![t] = "promoting"]
    /\ UNCHANGED <<process, storeVars, fileVars, past, timer, cur, todo, halted,
                   boundVars, pastVars>>

\* Mutant of Finish: the timer is not armed again.
FinishUnarmed(t) ==
    /\ Busy(t)
    /\ Handled(cur[t]) /\ UNCHANGED process
    /\ IF todo[t] # {}
       THEN Execute(t, todo[t]) /\ UNCHANGED fileVars
       ELSE /\ Save
            /\ phase' = [phase EXCEPT ![t] = "free"]
            /\ cur' = [cur EXCEPT ![t] = None]
            /\ UNCHANGED todo
    /\ UNCHANGED <<past, timer, halted, boundVars, known, removed>>

\* The job is over, well or not: reschedule it, go on to the next due job or
\* save and arm the successor.  The arming cancels the task that does it.
Finish(t) ==
    /\ Busy(t)
    /\ Handled(cur[t]) /\ UNCHANGED process
    /\ IF todo[t] # {}
       THEN Execute(t, todo[t]) /\ UNCHANGED <<timer, halted, fileVars>>
       ELSE /\ Save /\ Arm({t})
            /\ cur' = [cur EXCEPT ![t] = None]
            /\ UNCHANGED todo
    /\ UNCHANGED <<past, boundVars, known, removed>>

\* A ledger or trigger call around the job raises outside the try block or in
\* its handler: nothing above catches it, the task ends.
Raise(t) ==
    /\ phase[t] = "working" /\ errors < MaxErrors
    /\ errors' = errors + 1
    /\ phase' = [phase EXCEPT ![t] = "free"]
    /\ cur' = [cur EXCEPT ![t] = None]
    /\ todo' = [todo EXCEPT ![t] = {}]
    /\ halted' = TRUE
    /\ UNCHANGED <<process, storeVars, fileVars, past, timer, restarts, stops, pastVars>>

\* /stop or a correction in the job's session cancels the task that runs its
\* turn: the timer task.
StopTurn(t) ==
    /\ phase[t] = "working" /\ stops < MaxStops
    /\ stops' = stops + 1
    /\ phase' = [phase EXCEPT ![t] = "winding"]
    /\ halted' = TRUE
    /\ UNCHANGED <<process, storeVars, fileVars, past, timer, cur, todo,
                   restarts, errors, pastVars>>

\* A cancelled task has come out of the job's awaits.  CancelledError is not an
\* Exception: nothing after the job is done.
Unwind(t) ==
    /\ phase[t] = "winding"
    /\ phase' = [phase EXCEPT ![t] = "free"]
    /\ cur' = [cur EXCEPT ![t] = None]
    /\ todo' = [todo EXCEPT ![t] = {}]
    /\ UNCHANGED <<process, storeVars, fileVars, past, timer, halted, boundVars, pastVars>>

-----------------------------------------------------------------------------
(* The users of the service *)

Add(j) ==
    /\ process # "down" /\ j \notin known
    /\ jobs' = jobs \union {j}
    /\ enabled' = enabled \union {j}
    /\ next' = [next EXCEPT ![j] = NextRun(j)]
    /\ known' = known \union {j}
    /\ Save /\ UNCHANGED process /\ Arm({})
    /\ UNCHANGED <<past, cur, todo, boundVars, removed, concluded>>

\* The caller may be the turn of the job itself.
Remove(j) ==
    /\ process # "down" /\ j \in jobs
    /\ jobs' = jobs \ {j}
    /\ enabled' = enabled \ {j}
    /\ next' = [next EXCEPT ![j] = "none"]
    /\ removed' = removed \union {j}
    /\ Save /\ UNCHANGED process /\ Arm({})
    /\ UNCHANGED <<past, cur, todo, boundVars, known, concluded>>

\* start() loads the file and recomputes the next runs.
Boot ==
    /\ process = "down"
    /\ process' = "up"
    /\ jobs' = saved /\ enabled' = savedOn
    /\ next' = [j \in Jobs |-> IF j \in savedOn THEN NextRun(j) ELSE "none"]
    /\ Save /\ Arm({})
    /\ UNCHANGED <<past, cur, todo, boundVars, pastVars>>

\* stop(), on the way to the end of the process.
Stop ==
    /\ process = "up" /\ restarts < MaxRestarts
    /\ process' = "stopping"
    /\ timer' = None
    /\ phase' = [t \in Ticks |-> IF t = timer THEN Cancel(t) ELSE phase[t]]
    /\ UNCHANGED <<storeVars, fileVars, past, cur, todo, halted, boundVars, pastVars>>

\* The process ends, after stop() or at any other moment.
Crash ==
    /\ process # "down" /\ restarts < MaxRestarts
    /\ restarts' = restarts + 1
    /\ process' = "down"
    /\ jobs' = {} /\ enabled' = {} /\ next' = [j \in Jobs |-> "none"]
    /\ timer' = None /\ halted' = FALSE
    /\ phase' = [t \in Ticks |-> "free"]
    /\ cur' = [t \in Ticks |-> None]
    /\ todo' = [t \in Ticks |-> {}]
    /\ UNCHANGED <<fileVars, past, stops, errors, pastVars>>

\* The clock reaches the time of a job, stored or not yet added.
Reach(j) ==
    /\ next[j] = "future" \/ j \in OneShots \ past
    /\ past' = past \union ({j} \intersect OneShots)
    /\ IF next[j] = "future"
       THEN /\ next' = [next EXCEPT ![j] = "due"]
            /\ phase' = [t \in Ticks |-> IF phase[t] = "asleep"
                                         THEN "ringing" ELSE phase[t]]
       ELSE UNCHANGED <<next, phase>>
    /\ UNCHANGED <<process, jobs, enabled, fileVars, timer, cur, todo, halted,
                   boundVars, pastVars>>

Next ==
    \/ \E t \in Ticks : \/ Wake(t) \/ Return(t) \/ Finish(t) \/ Raise(t)
                        \/ StopTurn(t) \/ Unwind(t)
    \/ \E j \in Jobs : Add(j) \/ Remove(j) \/ Reach(j)
    \/ Boot \/ Stop \/ Crash

Spec == Init /\ [][Next]_vars

\* The event loop runs what is ready, turns end (max_iterations, timeouts), the
\* clock goes on and a supervisor starts the process again.
Fairness ==
    /\ \A t \in Ticks : WF_vars(Wake(t)) /\ WF_vars(Finish(t)) /\ WF_vars(Unwind(t))
    /\ \A j \in Jobs : WF_vars(next[j] = "future" /\ Reach(j))
    /\ WF_vars(Boot)
FairSpec == Spec /\ Fairness

-----------------------------------------------------------------------------
(* Properties *)

Starts(t, j) == /\ phase'[t] = "working" /\ cur'[t] = j
                /\ phase[t] # "working" \/ cur[t] # j
Runs(j) == \E t \in Ticks : phase[t] = "working" /\ cur[t] = j

\* Of all timer tasks only the one in _timer_task goes on: a task that was
\* replaced while it ran a job is cancelled, whoever replaced it, and two tasks
\* never work through the due jobs side by side.
OneTimer == \A t \in Ticks : Alive(t) => t = timer

\* As long as some enabled job has a next run there is a task that will get to
\* it, and that has not overslept a job that is due.
TimerSet ==
    process = "up" /\ ~halted /\ (\E j \in enabled : next[j] # "none") =>
        /\ timer # None /\ Alive(timer)
        /\ phase[timer] = "asleep" => \A j \in enabled : next[j] # "due"

\* A removed job is not started again, not from the list of due jobs that a
\* timer task took before the removal and not after a restart.
RemovedNeverStarts == [][\A t \in Ticks : \A j \in removed : ~Starts(t, j)]_vars

\* A one-shot that was run to its end is not started again, although the file
\* learns of it only at the end of the batch and the process may end before.
OneShotRunsOnce == [][\A t \in Ticks : \A j \in concluded : ~Starts(t, j)]_vars

\* When no job is being run a restart would find the jobs as they are.
SavedWhenIdle ==
    process = "up" /\ ~halted /\ (\A t \in Ticks : ~Busy(t)) =>
        saved = jobs /\ savedOn = enabled

\* A job that is due is run to its end, unless it is removed, the process ends,
\* or the timer was stopped or failed.
DueJobRuns ==
    \A j \in Jobs :
        next[j] = "due" ~> next[j] # "due" \/ process # "up" \/ halted

\* A recurring job runs again and again as long as it is there ("Interval in
\* seconds (for recurring tasks)", agent/tools/cron.py:57).
RecurringJobsRecur ==
    \A j \in Jobs \ OneShots :
        j \in enabled ~> Runs(j) \/ j \notin jobs \/ process # "up"
=============================================================================
