---------------------------- MODULE TaskRecovery ----------------------------
(***************************************************************************)
(* One task of the ledger and those who decide that it has died or shall   *)
(* be run again: the turns of the agent loop that work on it               *)
(* (agent/loop.py), the outbox dispatcher (ledger/outbox.py), the watchdog *)
(* that looks for tasks without an update (watchdog/service.py) and the    *)
(* operators of the web UI who recheck or resume it                        *)
(* (gateway/webui/routes.py, ledger/runtime.py).                           *)
(*                                                                         *)
(* Turns and resumes run on the event loop: what they do between two       *)
(* awaits is one step.  The dispatcher, the recheck route and the watchdog *)
(* make their calls of the ledger in worker threads, and a call reads and  *)
(* writes several times without a lock: each of its reads and writes is a  *)
(* step, between which anything may happen.  update_task reads the row and *)
(* writes all of it back; of what it writes back unasked only the status   *)
(* is followed.  The claims and attempts of an outbox event, its expiry    *)
(* and the retry and abandon routes are the subject of TaskLedger.         *)
(***************************************************************************)
EXTENDS CompletionGate, Naturals

CONSTANTS
    Steps,         \* tool calls that the task's turns may make
    Replayable,    \* those that may be made again
    Notice,        \* the one that queues an outbox event
    Verified,      \* the task's verification requirements are met
    MaxDisturbances \* bound: requests of operators, checkpoints, turns that fail or
                    \* are cancelled, dispatches that fail and restarts, together

ASSUME RecoveryAssumption ==
    /\ Replayable \subseteq Steps
    /\ Notice \in Steps
    /\ Verified \in BOOLEAN
    /\ MaxDisturbances \in Nat

\* The turn the task was created for, and the one a resume schedules.
Turns == {"first", "replay"}

\* Those who run the gate in a thread: the dispatcher and the recheck route.
Deciders == {"sender", "recheck"}

VARIABLES
    status,        \* the task's
    review,        \* its recovery says manual_review
    step,          \* the latest row of each step
    event,         \* the outbox event's status, "none" before it is queued, "pending"
                   \* as long as it is open
    quiet,         \* the task row is older than task_stuck_threshold_s
    crowded,       \* before it come so many waiting tasks with the watchdog's note
                   \* that the listing of 20 stale tasks does not reach it
    turn,          \* where each turn is
    active,        \* tool calls under way
    mark,          \* where the watchdog's pass over the tasks is
    was,           \* the status it has read
    gate,          \* where each decider is
    seen,          \* the steps its gate has read
    memo,          \* the status it is about to write
    note,          \* the status the loop is about to write back after a recheck
    \* history for the properties, and bounds
    decision,      \* of the gate, after the last turn and with nobody intervening:
                   \* "none", "stands", or "late": the status was out of date when
                   \* it was written, or was overwritten with one that was
    overlap,       \* a resume was executed while somebody else worked on the task
    asked,         \* the gate was run for an operator while a replay was queued
    disturbances

row     == <<status, quiet, crowded>>
board   == <<row, review, step, event>>
watch   == <<mark, was>>
deciding == <<gate, seen, memo>>
history == <<decision, overlap, asked>>
vars    == <<board, turn, active, watch, deciding, note, history, disturbances>>

Phases  == {"none", "queued", "running", "publishing"}
Marks   == {"idle", "listed", "read", "note", "plain", "hard", "hardNote", "dying"}
Labels  == {"idle", "mark", "step", "touch", "touchWrite",
            "begin", "steps", "events", "write", "done"}
Active  == {"running", "verifying", "waiting"}

NoSteps == [s \in Steps |-> "none"]

Init ==
    /\ status = "running" /\ review = FALSE /\ quiet = FALSE /\ crowded = FALSE
    /\ step = NoSteps
    /\ event = "none"
    /\ turn = [t \in Turns |-> IF t = "first" THEN "queued" ELSE "none"]
    /\ active = {}
    /\ mark = "idle" /\ was = "none"
    /\ gate = [d \in Deciders |-> "idle"] /\ memo = [d \in Deciders |-> "none"]
    /\ seen = [d \in Deciders |-> NoSteps] /\ note = "none"
    /\ decision = "none" /\ overlap = FALSE /\ asked = FALSE
    /\ disturbances = 0

-----------------------------------------------------------------------------
(* What the ledger knows *)

Idle       == \A t \in Turns : turn[t] = "none"
Holding    == {t \in Turns : turn[t] \in {"running", "publishing"}}
Failed     == {s \in Steps : step[s] = "failed"}
OpenEvent  == event \in OutboxActive

\* Mutant of GateOf: the stage is written in place of the status.
GateOfStage(steps, evt) ==
    IF "failed" \in {steps[s] : s \in Steps} THEN "error" ELSE "verify"

\* finalize_task on these steps and this event.
GateOf(steps, evt) ==
    Verdict({steps[s] : s \in Steps} \ {"none"}, {evt} \ {"none"}, Verified)

Write(s) == status' = s /\ quiet' = FALSE /\ crowded' = FALSE

\* The loop is between two awaits, not in the middle of an update of the row.
LoopFree == note = "none"

\* The gate has decided: on what is still so, or too early.
Conclude(timely) ==
    decision' = IF decision = "none" /\ ~Idle THEN "none"
                ELSE IF timely THEN "stands" ELSE "late"

\* What was decided has been changed again, and no decision follows.
Reopen(changed) == decision' = IF changed THEN "none" ELSE decision

\* The status is overwritten with one that may be out of date.
Overwrite(early) == decision' = IF early /\ decision = "stands" THEN "late" ELSE decision

MayDisturb == disturbances < MaxDisturbances /\ disturbances' = disturbances + 1

-----------------------------------------------------------------------------
(* The turns, which take the session's lock in the order of their dispatch *)

StartTurn(t) ==
    /\ LoopFree
    /\ turn[t] = "queued" /\ Holding = {}
    /\ t = "replay" => turn["first"] # "queued"
    /\ turn' = [turn EXCEPT ![t] = "running"]
    /\ Write("running")
    /\ decision' = "none"
    /\ overlap' = (overlap /\ t # "replay") /\ asked' = (asked /\ t # "replay")
    /\ UNCHANGED <<review, step, event, active, watch, deciding, note>>
    /\ UNCHANGED disturbances

StartTool(t, s) ==
    /\ LoopFree
    /\ turn[t] = "running" /\ step[s] = "none"
    /\ step' = [step EXCEPT ![s] = "running"]
    /\ active' = active \union {s}
    /\ UNCHANGED <<row, review, event, turn, watch, deciding, note, history, disturbances>>

\* The tool's result, and its trace in the task row.
FinishTool(t, s) ==
    /\ LoopFree
    /\ turn[t] = "running" /\ s \in active
    /\ active' = active \ {s}
    /\ \/ /\ s = Notice
          /\ event' = "pending"
          /\ step' = [step EXCEPT ![s] = "waiting_outbox"]
       \/ /\ \E result \in {"completed", "failed"} : step' = [step EXCEPT ![s] = result]
          /\ UNCHANGED event
    /\ Write(status)
    /\ UNCHANGED <<review, turn, watch, deciding, note, history, disturbances>>

\* The task_checkpoint tool sets the status the model asks for.
Checkpoint(t) ==
    /\ LoopFree
    /\ turn[t] = "running" /\ MayDisturb
    /\ \E s \in Active \union {"failed", "abandoned"} : Write(s)
    /\ UNCHANGED <<review, step, event, turn, active, watch, deciding, note, history>>

\* The turn has its answer: the gate decides on the loop, the answer is published.
EndTurn(t) ==
    /\ LoopFree
    /\ turn[t] = "running" /\ active = {}
    /\ turn' = [turn EXCEPT ![t] = "publishing"]
    /\ Write(GateOf(step, event))
    /\ decision' = "stands"
    /\ UNCHANGED <<review, step, event, active, watch, deciding, note>>
    /\ UNCHANGED <<overlap, asked, disturbances>>

LeaveTurn(t) ==
    /\ LoopFree
    /\ turn[t] = "publishing"
    /\ turn' = [turn EXCEPT ![t] = "none"]
    /\ UNCHANGED <<board, active, watch, deciding, note, history, disturbances>>

FailTurn(t) ==
    /\ LoopFree
    /\ t \in Holding /\ active = {} /\ MayDisturb
    /\ turn' = [turn EXCEPT ![t] = "none"]
    /\ Write("failed")
    /\ decision' = "none"
    /\ UNCHANGED <<review, step, event, active, watch, deciding, note>>
    /\ UNCHANGED <<overlap, asked>>

\* /stop or a correction.  A turn that waits for the lock leaves no trace; one
\* that has it abandons the open event and the task, tool calls stay running.
CancelTurn(t) ==
    /\ LoopFree
    /\ turn[t] # "none" /\ MayDisturb
    /\ turn' = [turn EXCEPT ![t] = "none"]
    /\ IF t \in Holding
       THEN /\ Write("abandoned")
            /\ active' = {}
            /\ decision' = "none"
            /\ IF OpenEvent
               THEN /\ event' = "abandoned"
                    /\ step' = [step EXCEPT ![Notice] = "abandoned"]
               ELSE UNCHANGED <<event, step>>
       ELSE UNCHANGED <<row, active, decision, event, step>>
    /\ UNCHANGED <<review, watch, deciding, note>>
    /\ UNCHANGED <<overlap, asked>>

-----------------------------------------------------------------------------
(* The gate in a worker thread: finalize_task *)

Goto(d, l) == gate' = [gate EXCEPT ![d] = l]

\* The task is in verification.
Begin(d) ==
    /\ gate[d] = "begin" /\ Goto(d, "steps")
    /\ Write("verifying")
    /\ UNCHANGED <<review, step, event, turn, active, watch, seen, memo, note>>
    /\ UNCHANGED <<history, disturbances>>

ReadSteps(d) ==
    /\ gate[d] = "steps" /\ Goto(d, "events")
    /\ seen' = [seen EXCEPT ![d] = step]
    /\ UNCHANGED <<board, turn, active, watch, memo, note, history, disturbances>>

\* The event is read, and the decision taken...
ReadEvents(d) ==
    /\ gate[d] = "events" /\ Goto(d, "write")
    /\ memo' = [memo EXCEPT ![d] = GateOf(seen[d], event)]
    /\ seen' = [seen EXCEPT ![d] = NoSteps]
    /\ UNCHANGED <<board, turn, active, watch, note, history, disturbances>>

\* ... and written, whatever has become of the steps and the event.
Decide(d) ==
    /\ gate[d] = "write"
    /\ Goto(d, IF d = "recheck" THEN "done" ELSE "idle")
    /\ Write(memo[d])
    /\ memo' = [memo EXCEPT ![d] = "none"]
    /\ Conclude(memo[d] = GateOf(step, event))
    /\ UNCHANGED <<review, step, event, turn, active, watch, seen, note>>
    /\ UNCHANGED <<overlap, asked, disturbances>>

Decision(d) == Begin(d) \/ ReadSteps(d) \/ ReadEvents(d) \/ Decide(d)

-----------------------------------------------------------------------------
(* The outbox dispatcher: its mark of the event, its update of the step and   *)
(* its gate are three calls, and a thread's each                              *)

\* The event has been claimed and handed over, and is still claimed after it.
Deliver ==
    /\ gate["sender"] = "idle" /\ OpenEvent
    /\ Goto("sender", "mark")
    /\ UNCHANGED <<board, turn, active, watch, seen, memo, note, history, disturbances>>

\* Its outcome is written, also if a cancelled turn has abandoned it since.  A
\* delivery that is put off is no decision, and may reopen what was settled.
Mark(result) ==
    /\ gate["sender"] = "mark" /\ Goto("sender", "step")
    /\ event' = result
    /\ memo' = [memo EXCEPT !["sender"] = result]
    /\ Reopen(result = "pending" /\ ~OpenEvent)
    /\ UNCHANGED <<row, review, step, turn, active, watch, seen, note>>
    /\ UNCHANGED <<overlap, asked, disturbances>>

StepFor(result) == IF result = "sent"        THEN "completed"
                   ELSE IF result = "failed" THEN "failed"
                   ELSE "waiting_outbox"

MarkStep ==
    /\ gate["sender"] = "step"
    /\ step' = [step EXCEPT ![Notice] = StepFor(memo["sender"])]
    /\ Goto("sender", IF memo["sender"] = "sent"        THEN "touch"
                      ELSE IF memo["sender"] = "failed" THEN "begin"
                      ELSE "idle")
    /\ memo' = [memo EXCEPT !["sender"] = "none"]
    /\ Reopen(memo["sender"] = "pending" /\ step[Notice] # "waiting_outbox")
    /\ UNCHANGED <<row, review, event, turn, active, watch, seen, note>>
    /\ UNCHANGED <<overlap, asked, disturbances>>

\* last_successful_step: the row is read and written back.
ReadRow ==
    /\ gate["sender"] = "touch" /\ Goto("sender", "touchWrite")
    /\ memo' = [memo EXCEPT !["sender"] = status]
    /\ UNCHANGED <<board, turn, active, watch, seen, note, history, disturbances>>

WriteRow ==
    /\ gate["sender"] = "touchWrite" /\ Goto("sender", "begin")
    /\ Write(memo["sender"])
    /\ memo' = [memo EXCEPT !["sender"] = "none"]
    /\ Overwrite(memo["sender"] # status)
    /\ UNCHANGED <<review, step, event, turn, active, watch, seen, note>>
    /\ UNCHANGED <<overlap, asked, disturbances>>

Send == Deliver \/ (\E result \in {"sent", "failed", "pending"} : Mark(result))
        \/ MarkStep \/ ReadRow \/ WriteRow

-----------------------------------------------------------------------------
(* The watchdog *)

\* Mutant of StaleStatuses: nobody looks at a task in verification.
StaleStatusesRunning == {"running"}

StaleStatuses == Active

\* The pass has found the task among those without an update, and not among
\* the waiting ones it has annotated before, which are sorted out only after
\* the listing, oldest first, has been cut off at 20.
ListStale ==
    /\ mark = "idle"
    /\ quiet /\ ~crowded
    /\ status \in StaleStatuses /\ ~(status = "waiting" /\ review)
    /\ mark' = "listed"
    /\ UNCHANGED <<board, turn, active, was, deciding, note, history, disturbances>>

\* mark_task_stale reads the task again...
ReadStale ==
    /\ mark = "listed"
    /\ mark' = "read" /\ was' = status
    /\ UNCHANGED <<board, turn, active, deciding, note, history, disturbances>>

\* Mutant of FailsWhen: waiting tasks are failed as well.
FailsWhenActive(s) == s \in Active

FailsWhen(s) == s \in {"running", "verifying"}

\* ... and fails it, if it was at work, ...
FailStale ==
    /\ mark \in {"read", "hard"} /\ FailsWhen(was)
    /\ Write("failed")
    /\ review' = FALSE
    /\ Overwrite(was # status)
    /\ mark' = (IF mark = "hard" THEN "dying" ELSE "idle") /\ was' = "none"
    /\ UNCHANGED <<step, event, turn, active, deciding, note>>
    /\ UNCHANGED <<overlap, asked, disturbances>>

\* ... or notes in its row, which it reads once more, that it was waiting.
ReadForNote ==
    /\ \/ mark = "read" /\ ~FailsWhen(was)
       \/ mark = "hard" /\ was \in Active /\ ~FailsWhen(was)
    /\ mark' = IF mark = "hard"       THEN "hardNote"
               ELSE IF was = "waiting" THEN "note"
               ELSE "plain"
    /\ was' = status
    /\ UNCHANGED <<board, turn, active, deciding, note, history, disturbances>>

Noting == mark \in {"note", "plain", "hardNote"}

WriteNote ==
    /\ Noting
    /\ Write(was)
    /\ review' = (mark = "note")
    /\ Overwrite(was # status)
    /\ mark' = (IF mark = "hardNote" THEN "dying" ELSE "idle") /\ was' = "none"
    /\ UNCHANGED <<step, event, turn, active, deciding, note>>
    /\ UNCHANGED <<overlap, asked, disturbances>>

\* Three unhealthy ticks: the tasks are listed, this one perhaps beyond the
\* first 200; it is marked, and the process ends.
ListAll ==
    /\ mark = "idle" /\ MayDisturb
    /\ mark' = "hard" /\ was' \in {status, "none"}
    /\ UNCHANGED <<board, turn, active, deciding, note, history>>

LeaveUnmarked ==
    /\ mark = "hard" /\ was \notin Active
    /\ mark' = "dying" /\ was' = "none"
    /\ UNCHANGED <<board, turn, active, deciding, note, history, disturbances>>

\* Some thread has changed the task or its event, and not decided yet.
Deciding == \E d \in Deciders :
    \/ gate[d] = "step" /\ memo[d] # "pending"
    \/ gate[d] \in {"touch", "touchWrite", "begin", "steps", "events", "write"}

\* The process ends and another starts; nothing is resumed by itself.
Restart ==
    /\ (mark = "dying" /\ UNCHANGED disturbances) \/ MayDisturb
    /\ turn' = [t \in Turns |-> "none"] /\ active' = {}
    /\ mark' = "idle" /\ was' = "none"
    /\ gate' = [d \in Deciders |-> "idle"] /\ memo' = [d \in Deciders |-> "none"]
    /\ seen' = [d \in Deciders |-> NoSteps] /\ note' = "none"
    /\ Reopen(Deciding)
    /\ UNCHANGED <<board, overlap, asked>>

\* The threshold is reached, though not within a call of the ledger, which takes
\* no such time.  Tasks that were annotated since this one was updated come
\* after it, so only those that were annotated before can crowd it out.
TimePasses ==
    /\ ~quiet /\ status \in Active
    /\ mark \in {"idle", "dying"}
    /\ \A d \in Deciders : gate[d] \in {"idle", "mark", "step", "begin", "done"}
    /\ quiet' = TRUE /\ crowded' \in BOOLEAN
    /\ UNCHANGED <<status, review, step, event, turn, active, watch>>
    /\ UNCHANGED <<deciding, note, history, disturbances>>

\* Somebody takes up one of the tasks that crowd this one out.
MakeRoom ==
    /\ crowded /\ crowded' = FALSE
    /\ UNCHANGED <<status, quiet, review, step, event, turn, active, watch>>
    /\ UNCHANGED <<deciding, note, history, disturbances>>

-----------------------------------------------------------------------------
(* The operators *)

MayAsk == LoopFree /\ MayDisturb

\* POST .../resume: the task waits for a resume, whatever it did before.
RequestResume ==
    /\ MayAsk
    /\ Write("waiting") /\ review' = FALSE
    /\ decision' = "none"
    /\ UNCHANGED <<step, event, turn, active, watch, deciding, note>>
    /\ UNCHANGED <<overlap, asked>>

\* Mutant of Candidate: one replayable failure is enough for a replay.
CandidateHasty ==
    IF status \in {"completed", "abandoned"}                      THEN "noop"
    ELSE IF event = "failed"                                      THEN "retry"
    ELSE IF Failed \cap Replayable # {} /\ ~OpenEvent             THEN "replay"
    ELSE IF ~OpenEvent /\ status \in {"waiting", "verifying"}     THEN "recheck"
    ELSE "manual"

\* build_resume_candidate
Candidate ==
    IF status \in {"completed", "abandoned"}                      THEN "noop"
    ELSE IF event = "failed"                                      THEN "retry"
    ELSE IF Failed \ Replayable # {}                              THEN "manual"
    ELSE IF Failed # {} /\ ~OpenEvent                             THEN "replay"
    ELSE IF ~OpenEvent /\ status \in {"waiting", "verifying"}     THEN "recheck"
    ELSE "manual"

\* The failed event is rescheduled and its step parked on it.
RetryEvent ==
    /\ MayAsk /\ Candidate = "retry"
    /\ event' = "pending"
    /\ step' = [step EXCEPT ![Notice] = "waiting_outbox"]
    /\ Write("waiting") /\ review' = FALSE
    /\ decision' = "none"
    /\ UNCHANGED <<turn, active, watch, deciding, note>>
    /\ UNCHANGED <<overlap, asked>>

\* The task's own turn is alive, or a thread is at work on the task.
AtWork == turn["first"] # "none" \/ Noting \/ \E d \in Deciders : gate[d] # "idle"

Superseded(s) == s \in Failed \cap Replayable

\* The failed steps are superseded and a turn is dispatched that shall repeat
\* them; if that fails they are restored.
Replay ==
    /\ MayAsk /\ Candidate = "replay" /\ turn["replay"] = "none"
    /\ \/ /\ step' = [s \in Steps |-> IF Superseded(s) THEN "abandoned" ELSE step[s]]
          /\ Write("running") /\ review' = FALSE
          /\ turn' = [turn EXCEPT !["replay"] = "queued"]
          /\ overlap' = AtWork
          /\ asked' = FALSE
       \/ /\ Write("failed") /\ review' = FALSE
          /\ UNCHANGED <<step, turn, overlap, asked>>
    /\ decision' = "none"
    /\ UNCHANGED <<event, active, watch, deciding, note>>

\* POST .../recheck: the gate is handed to a thread, for one request at a time.
AskRecheck ==
    /\ MayAsk /\ gate["recheck"] = "idle"
    /\ Goto("recheck", "begin")
    /\ asked' = (asked \/ turn["replay"] = "queued")
    /\ UNCHANGED <<board, turn, active, watch, seen, memo, note>>
    /\ UNCHANGED <<decision, overlap>>

\* Back on the loop the request is noted in the row, which is read for it...
Recheck ==
    /\ LoopFree /\ gate["recheck"] = "done"
    /\ Goto("recheck", "idle")
    /\ note' = status
    /\ UNCHANGED <<board, turn, active, watch, seen, memo, history, disturbances>>

\* ... and written back, before the loop does anything else.
WriteBack ==
    /\ ~LoopFree
    /\ Write(note)
    /\ Overwrite(note # status)
    /\ note' = "none"
    /\ UNCHANGED <<review, step, event, turn, active, watch, deciding>>
    /\ UNCHANGED <<overlap, asked, disturbances>>

\* A resume whose candidate is a recheck: the gate runs on the loop.
ResumeRecheck ==
    /\ MayAsk /\ Candidate = "recheck"
    /\ Write(GateOf(step, event))
    /\ note' = GateOf(step, event)
    /\ Conclude(TRUE)
    /\ asked' = (asked \/ turn["replay"] = "queued")
    /\ UNCHANGED <<review, step, event, turn, active, watch, deciding>>
    /\ UNCHANGED overlap

-----------------------------------------------------------------------------

TurnStep(t) ==
    \/ StartTurn(t) \/ EndTurn(t) \/ LeaveTurn(t)
    \/ \E s \in Steps : FinishTool(t, s)

Watch == ListStale \/ ReadStale \/ FailStale \/ ReadForNote \/ WriteNote \/ LeaveUnmarked

Next ==
    \/ \E t \in Turns :
          \/ TurnStep(t) \/ Checkpoint(t) \/ FailTurn(t) \/ CancelTurn(t)
          \/ \E s \in Steps : StartTool(t, s)
    \/ \E d \in Deciders : Decision(d)
    \/ Send
    \/ Watch \/ ListAll \/ Restart \/ TimePasses \/ MakeRoom
    \/ RequestResume \/ RetryEvent \/ Replay
    \/ AskRecheck \/ Recheck \/ WriteBack \/ ResumeRecheck

\* A turn's tool calls and iterations are bounded, so it ends; the loop and the
\* threads go on with a call of the ledger that has begun; the watchdog ticks;
\* after a hard recovery the process is gone within seconds; time passes.
Fairness ==
    /\ \A t \in Turns : WF_vars(TurnStep(t))
    /\ \A d \in Deciders : WF_vars(Decision(d))
    /\ WF_vars(ReadRow \/ WriteRow)
    /\ WF_vars(WriteBack)
    /\ WF_vars(Watch)
    /\ WF_vars(mark = "dying" /\ Restart)
    /\ WF_vars(TimePasses)

Spec     == Init /\ [][Next]_vars
FairSpec == Spec /\ Fairness

-----------------------------------------------------------------------------
(* Properties *)

TypeOK ==
    /\ status \in TaskStatuses
    /\ review \in BOOLEAN  /\ quiet \in BOOLEAN /\ crowded \in BOOLEAN
    /\ step \in [Steps -> StepStatuses \union {"none"}]
    /\ event \in OutboxStatuses \union {"none"}
    /\ turn \in [Turns -> Phases]
    /\ active \subseteq Steps
    /\ mark \in Marks /\ was \in TaskStatuses \union {"none"}
    /\ gate \in [Deciders -> Labels]
    /\ seen \in [Deciders -> [Steps -> StepStatuses \union {"none"}]]
    /\ memo \in [Deciders -> TaskStatuses \union OutboxStatuses \union {"none"}]
    /\ note \in TaskStatuses \union {"none"}
    /\ decision \in {"none", "stands", "late"}
    /\ overlap \in BOOLEAN /\ asked \in BOOLEAN
    /\ disturbances \in 0..MaxDisturbances

\* When a replay begins to run, what its resume relied on is still so: the task
\* is not settled, no delivery is open and no step with side effects has
\* failed.  The code does not look again, so two cases are excepted: the resume
\* was executed while the task's own turn was alive or a thread was at work on
\* the task (a dispatcher between the event's mark and its gate, a recheck, a
\* note of the watchdog), and the gate was run for an operator while the replay
\* was queued.  Nothing else spoils it, whoever begins his work after the resume.
ReplayIsSafe ==
    /\ status \notin {"completed", "abandoned"}
    /\ ~OpenEvent
    /\ Failed \subseteq Replayable
ReplayStartsSafe ==
    [][StartTurn("replay") => ReplayIsSafe \/ overlap \/ asked]_vars

\* Once the gate has decided after a turn's end, and no thread is between a
\* change and its decision, the status is what the gate makes of the steps and
\* the event: whoever changes them decides afterwards, and the watchdog, when
\* it took the turn for dead while it lived, is overruled.  Left are a task
\* that the gate leaves running and the watchdog fails later, and a decision
\* that is "late": it was taken before the steps and the event changed, or has
\* been overwritten with a status that was read, or a mark that was decided,
\* before it.
ConcludedByGate ==
    decision = "stands" /\ ~Deciding =>
        \/ status = GateOf(step, event)
        \/ status = "failed" /\ GateOf(step, event) = "running"

\* Nobody forgets a task: if no turn works on it, it is settled or its operator
\* is told that it waits, at the latest when the watchdog has come by, unless
\* tasks with an older note keep it out of the watchdog's listing for good.
Forgotten == Idle /\ status \in Active /\ ~(status = "waiting" /\ review)
NothingForgotten == []<>~crowded => (Forgotten ~> ~Forgotten)
=============================================================================
