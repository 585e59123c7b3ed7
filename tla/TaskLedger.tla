----------------------------- MODULE TaskLedger -----------------------------
(***************************************************************************)
(* One task of the durable ledger, the outbox events its tool calls queue, *)
(* and everybody who changes them: the outbox dispatcher                   *)
(* (ledger/outbox.py), the turn of the agent loop that owns the task       *)
(* (agent/loop.py, agent/tools/registry.py) and the operators of the web   *)
(* UI (gateway/webui/routes.py).  The ledger's methods (ledger/runtime.py, *)
(* ledger/sqlite_store.py) take a lock per read or write, never across a   *)
(* read and the write that depends on it, so each locked section is one    *)
(* step here.                                                              *)
(*                                                                         *)
(* The agent runs on the event loop.  The dispatcher is a coroutine that   *)
(* makes every ledger call in a worker thread and needs the loop again     *)
(* between two calls; an operator's request is one call in a thread.       *)
(* Deadlines are flags that the passing of time may raise.                 *)
(***************************************************************************)
EXTENDS CompletionGate, Naturals, FiniteSets

CONSTANTS
    Events,        \* outbox events the task's tools may queue, each by its own step
    Expiring,      \* the events queued with an expires_at_ms
    Tools,         \* other tool calls of the turn
    Operators,     \* requests of the web UI in flight at the same time
    Dispatcher,    \* the OutboxDispatcher
    Agent,         \* the turn that runs the task
    NoEvent,
    Verified,      \* the task's verification requirements are met
    BatchSize,     \* events claimed per tick
    MaxAttempts,   \* the dispatcher's max_attempts
    MaxRequests,   \* bound: requests operators make
    MaxCrashes,    \* bound: process crashes and failed dispatcher ticks
    MaxDisturbances \* bound: requests and crashes together

Steps  == Events \union Tools
Actors == {Dispatcher, Agent} \union Operators

ASSUME ActorsAssumption ==
    /\ Dispatcher # Agent
    /\ Dispatcher \notin Operators
    /\ Agent \notin Operators
ASSUME EventsAssumption ==
    /\ IsFiniteSet(Events)
    /\ Expiring \subseteq Events
    /\ NoEvent \notin Steps
    /\ Events \cap Tools = {}
ASSUME BoundsAssumption ==
    /\ Verified \in BOOLEAN
    /\ BatchSize \in Nat \ {0}
    /\ MaxAttempts \in Nat \ {0}
    /\ MaxRequests \in Nat
    /\ MaxCrashes \in Nat
    /\ MaxDisturbances \in Nat

VARIABLES
    \* the latest row of each outbox event
    status,        \* "none" before it is queued, "dropped" after compaction
    attempts,
    due,           \* next_attempt_at_ms has come (or was never set)
    stale,         \* claimed longer ago than claim_stale_after_ms
    recent,        \* manual_retry_requested_at_ms is within the debounce
    deadline,      \* expires_at_ms: "none", "future" or "past"
    \* the task row and the latest row of each step
    task,
    step,
    \* what happened, for the properties
    handoffs,      \* times the delivery adapter was called for an event
    accepted,      \* events the adapter accepted at least once
    reopened,      \* times request_outbox_retry rescheduled an event
    \* where each actor is
    pc,
    mode,          \* what the actor is doing
    todo,          \* events it still has to go through
    ev,            \* the event in hand
    memo,          \* the status it is about to write
    seen,          \* step statuses the gate has read
    submitted,     \* the dispatcher's next ledger call is on its worker thread
    requests, crashes

rows    == <<status, attempts, due, stale, recent, deadline>>
board   == <<task, step>>
history == <<handoffs, accepted, reopened>>
local   == <<pc, mode, todo, ev, memo, seen>>
bounds  == <<requests, crashes>>
vars    == <<rows, board, history, local, submitted, bounds>>

-----------------------------------------------------------------------------
(* Helpers *)

Statuses == OutboxStatuses \union {"none", "dropped"}
Modes    == {"idle", "expire", "reclaim", "dispatch", "turn", "ending",
             "cancel", "retry", "abandon", "recheck"}
Labels   == {"idle", "next", "deliver", "recheck", "mark", "reopen", "task", "step",
             "touch", "touchWrite", "gate", "gateSteps", "gateEvents", "gateWrite"}

Stored     == {e \in Events : status[e] \in OutboxStatuses}
ActiveRows == {e \in Events : status[e] \in OutboxActive}

\* Mutant of DueRows: only new events are due, rescheduled ones are forgotten.
DueRowsFresh == {e \in due : status[e] = "pending"}

DueRows    == {e \in due : status[e] \in {"pending", "retrying"}}
FailedRows == {e \in Events : status[e] \in OutboxFailure}

\* The bound on what users and failures do.
MayDisturb == requests + crashes < MaxDisturbances

\* The agent is between two awaits: nothing else of the event loop runs.
LoopBusy == pc[Agent] \notin {"idle", "next"} \/ mode[Agent] = "cancel"

\* Mutants of StepFor: the event's own status, and a delivery left parked.
StepForCopied(s) == s
StepForParked(s) == CASE s \in {"failed", "expired"} -> "failed"
                      [] s = "abandoned"             -> "abandoned"
                      [] OTHER                       -> "waiting_outbox"

\* The status the event's step gets once the event has been given status s.
StepFor(s) == CASE s = "sent"                  -> "completed"
                [] s \in {"failed", "expired"} -> "failed"
                [] s = "abandoned"             -> "abandoned"
                [] OTHER                       -> "waiting_outbox"

Goto(a, l) == pc' = [pc EXCEPT ![a] = l]

\* Actor a is through with the event in hand.
Return(a) ==
    /\ Goto(a, "next")
    /\ ev'   = [ev EXCEPT ![a] = NoEvent]
    /\ memo' = [memo EXCEPT ![a] = "none"]
    /\ seen' = [seen EXCEPT ![a] = {}]

\* While dispatching, each ledger call is its own trip to a worker thread;
\* other calls run on in the thread, or on the loop, they started on.
OnThread(a) == (a = Dispatcher /\ mode[a] = "dispatch") => submitted
CallEnds(a) == submitted' = (submitted /\ a # Dispatcher)

Init ==
    /\ status   = [e \in Events |-> "none"]
    /\ attempts = [e \in Events |-> 0]
    /\ due = {} /\ stale = {} /\ recent = {}
    /\ deadline = [e \in Events |-> "none"]
    /\ task = "running"
    /\ step = [s \in Steps |-> "none"]
    /\ handoffs = [e \in Events |-> 0]
    /\ accepted = {}
    /\ reopened = [e \in Events |-> 0]
    /\ pc   = [a \in Actors |-> IF a \in Operators THEN "idle" ELSE "next"]
    /\ mode = [a \in Actors |-> IF a = Agent THEN "turn" ELSE "idle"]
    /\ todo = [a \in Actors |-> {}]
    /\ ev   = [a \in Actors |-> NoEvent]
    /\ memo = [a \in Actors |-> "none"]
    /\ seen = [a \in Actors |-> {}]
    /\ submitted = FALSE
    /\ requests = 0 /\ crashes = 0

-----------------------------------------------------------------------------
(* Ledger calls shared by the actors.  They continue at "step", "touch" or  *)
(* "gate" and come back to "next".                                          *)

\* Mutant of Finalizes: the dispatcher leaves the task to the turn's own gate.
FinalizesNever(a) == FALSE

\* Whoever settles an event's step asks the gate next; the turn asks it at its end.
Finalizes(a) == mode[a] # "turn"

\* update_step_state after an event was given status memo[a]; a completed step
\* also touches the task row, a rescheduled one ends here, others go to the gate.
WriteStep(a) ==
    /\ pc[a] = "step" /\ OnThread(a)
    /\ step' = [step EXCEPT ![ev[a]] = StepFor(memo[a])]
    /\ \/ /\ memo[a] \in {"pending", "retrying"}
          /\ Return(a)
          /\ CallEnds(a)
       \/ /\ memo[a] = "sent"
          /\ Goto(a, "touch")
          /\ UNCHANGED <<ev, memo, seen, submitted>>
       \/ /\ memo[a] \in {"failed", "expired", "abandoned"}
          /\ Goto(a, "gate")
          /\ CallEnds(a)
          /\ UNCHANGED <<ev, memo, seen>>
    /\ UNCHANGED <<rows, task, history, mode, todo, bounds>>

\* update_task(last_successful_step=...) reads the whole row ...
TouchRead(a) ==
    /\ pc[a] = "touch"
    /\ memo' = [memo EXCEPT ![a] = task]
    /\ Goto(a, "touchWrite")
    /\ UNCHANGED <<rows, board, history, mode, todo, ev, seen, submitted, bounds>>

\* ... and writes it back, the status it read included.
TouchWrite(a) ==
    /\ pc[a] = "touchWrite"
    /\ task' = memo[a]
    /\ IF Finalizes(a) THEN Goto(a, "gate") /\ UNCHANGED <<ev, memo, seen>>
                       ELSE Return(a)
    /\ CallEnds(a)
    /\ UNCHANGED <<rows, step, history, mode, todo, bounds>>

\* finalize_task: mark the task verifying, read the steps, read the events and
\* evaluate, write the decision.
GateStart(a) ==
    /\ pc[a] = "gate" /\ OnThread(a)
    /\ task' = "verifying"
    /\ Goto(a, "gateSteps")
    /\ UNCHANGED <<rows, step, history, mode, todo, ev, memo, seen, submitted, bounds>>

GateReadSteps(a) ==
    /\ pc[a] = "gateSteps"
    /\ seen' = [seen EXCEPT ![a] = {step[s] : s \in Steps} \ {"none"}]
    /\ Goto(a, "gateEvents")
    /\ UNCHANGED <<rows, board, history, mode, todo, ev, memo, submitted, bounds>>

GateReadEvents(a) ==
    /\ pc[a] = "gateEvents"
    /\ memo' = [memo EXCEPT ![a] = Verdict(seen[a], {status[e] : e \in Stored}, Verified)]
    /\ Goto(a, "gateWrite")
    /\ UNCHANGED <<rows, board, history, mode, todo, ev, seen, submitted, bounds>>

\* An evaluation that raises fails the task.
GateRaises(a) ==
    /\ pc[a] \in {"gateSteps", "gateEvents"} /\ crashes < MaxCrashes /\ MayDisturb
    /\ crashes' = crashes + 1
    /\ memo' = [memo EXCEPT ![a] = "failed"]
    /\ Goto(a, "gateWrite")
    /\ UNCHANGED <<rows, board, history, mode, todo, ev, seen, submitted, requests>>

GateWrite(a) ==
    /\ pc[a] = "gateWrite"
    /\ task' = memo[a]
    /\ Return(a)
    /\ CallEnds(a)
    /\ UNCHANGED <<rows, step, history, mode, todo, bounds>>

\* request_outbox_retry, the read and its guards: a settled event is refused
\* (which ends a reclaim sweep), a quick repeat on an active one is a no-op.
RetryRead(a, e) ==
    LET refused == status[e] \in {"sent", "abandoned", "compensated"}
        noop    == status[e] = "dropped" \/ (status[e] \in OutboxActive /\ e \in recent)
    IN
    /\ pc[a] = "next" /\ mode[a] \in {"retry", "reclaim"} /\ e \in todo[a]
    /\ todo' = [todo EXCEPT ![a] = IF refused THEN {} ELSE @ \ {e}]
    /\ IF refused \/ noop
       THEN UNCHANGED <<pc, ev, memo>>
       ELSE /\ Goto(a, "reopen")
            /\ ev' = [ev EXCEPT ![a] = e]
            /\ memo' = [memo EXCEPT ![a] = IF attempts[e] > 0 THEN "retrying" ELSE "pending"]
    /\ UNCHANGED <<rows, board, history, mode, seen, submitted, bounds>>

\* ... the write, whatever the status has become since.
RetryWrite(a) ==
    LET e == ev[a] IN
    /\ pc[a] = "reopen"
    /\ IF status[e] = "dropped"
       THEN /\ Return(a)
            /\ UNCHANGED <<rows, history>>
       ELSE /\ status' = [status EXCEPT ![e] = memo[a]]
            /\ due' = due \union {e}
            /\ stale' = stale \ {e}
            /\ recent' = recent \union {e}
            /\ deadline' = [deadline EXCEPT ![e] = IF @ = "past" THEN "none" ELSE @]
            /\ reopened' = [reopened EXCEPT ![e] = @ + 1]
            /\ Goto(a, "task")
            /\ UNCHANGED <<attempts, handoffs, accepted, ev, memo, seen>>
    /\ UNCHANGED <<board, mode, todo, submitted, bounds>>

\* ... the task goes back to waiting for the outbox; its step follows.
RetryTask(a) ==
    /\ pc[a] = "task"
    /\ task' = "waiting"
    /\ Goto(a, "step")
    /\ UNCHANGED <<rows, step, history, mode, todo, ev, memo, seen, submitted, bounds>>

\* abandon_outbox_event and the loop of expire_due_outbox_events give the row a
\* final status without looking at the one it has by then; a row that
\* compaction dropped is skipped.
Close(a, e, s) ==
    /\ pc[a] = "next" /\ e \in todo[a]
    /\ todo' = [todo EXCEPT ![a] = @ \ {e}]
    /\ IF status[e] = "dropped"
       THEN UNCHANGED <<status, due, stale, pc, ev, memo>>
       ELSE /\ status' = [status EXCEPT ![e] = s]
            /\ due' = due \ {e}
            /\ stale' = stale \ {e}
            /\ Goto(a, "step")
            /\ ev' = [ev EXCEPT ![a] = e]
            /\ memo' = [memo EXCEPT ![a] = s]
    /\ UNCHANGED <<attempts, recent, deadline, board, history, mode, seen, submitted, bounds>>

Abandon(a, e) == mode[a] \in {"abandon", "cancel"} /\ Close(a, e, "abandoned")

Ledger(a) ==
    \/ WriteStep(a) \/ TouchRead(a) \/ TouchWrite(a)
    \/ GateStart(a) \/ GateReadSteps(a) \/ GateReadEvents(a) \/ GateWrite(a)
    \/ GateRaises(a) \/ RetryWrite(a) \/ RetryTask(a)
    \/ \E e \in Events : RetryRead(a, e) \/ Abandon(a, e)

-----------------------------------------------------------------------------
(* The dispatcher: _run_loop and dispatch_once *)

\* The dispatcher goes from one phase of its tick to the next.
Tick(from, to, batch) ==
    /\ pc[Dispatcher] = "next" /\ mode[Dispatcher] = from /\ todo[Dispatcher] = {}
    /\ ~LoopBusy
    /\ mode' = [mode EXCEPT ![Dispatcher] = to]
    /\ todo' = [todo EXCEPT ![Dispatcher] = batch]
    /\ UNCHANGED <<attempts, recent, deadline, board, history, pc, ev, memo, seen, submitted, bounds>>

ExpireScan ==
    /\ Tick("idle", "expire", {e \in ActiveRows : deadline[e] = "past"})
    /\ UNCHANGED <<status, due, stale>>

Expire(e) == mode[Dispatcher] = "expire" /\ Close(Dispatcher, e, "expired")

\* Mutant of StaleClaims: the sweep looks for rows that wait for a retry.
StaleRetries == {e \in stale : status[e] = "retrying"}

StaleClaims == {e \in stale : status[e] = "claimed"}

ReclaimScan ==
    /\ Tick("expire", "reclaim", StaleClaims)
    /\ UNCHANGED <<status, due, stale>>

\* Mutant of Charged: a claim is not counted as an attempt.
ChargedLater(batch) == attempts

Charged(batch) == [e \in Events |-> attempts[e] + (IF e \in batch THEN 1 ELSE 0)]

\* claim_due_outbox_events, atomic under the outbox lock.
ClaimDue(batch) ==
    /\ pc[Dispatcher] = "next" /\ mode[Dispatcher] = "reclaim" /\ todo[Dispatcher] = {}
    /\ ~LoopBusy
    /\ \/ Cardinality(batch) = BatchSize
       \/ Cardinality(batch) < BatchSize /\ batch = DueRows
    /\ mode' = [mode EXCEPT ![Dispatcher] = "dispatch"]
    /\ todo' = [todo EXCEPT ![Dispatcher] = batch]
    /\ status' = [e \in Events |-> IF e \in batch THEN "claimed" ELSE status[e]]
    /\ attempts' = Charged(batch)
    /\ due' = due \ batch
    /\ UNCHANGED <<stale, recent, deadline, board, history, pc, ev, memo, seen, submitted, bounds>>

\* Before delivering: an event no longer claimed is skipped.
Check(e) ==
    /\ pc[Dispatcher] = "next" /\ mode[Dispatcher] = "dispatch" /\ e \in todo[Dispatcher]
    /\ ~LoopBusy
    /\ todo' = [todo EXCEPT ![Dispatcher] = @ \ {e}]
    /\ IF status[e] = "claimed"
       THEN Goto(Dispatcher, "deliver") /\ ev' = [ev EXCEPT ![Dispatcher] = e]
       ELSE UNCHANGED <<pc, ev>>
    /\ UNCHANGED <<rows, board, history, mode, memo, seen, submitted, bounds>>

\* on_deliver returns, raises PermanentOutboxError or raises something else;
\* memo holds the status the dispatcher means to record for that.
Deliver(outcome) ==
    LET e == ev[Dispatcher] IN
    /\ pc[Dispatcher] = "deliver" /\ ~LoopBusy
    /\ handoffs' = [handoffs EXCEPT ![e] = @ + 1]
    /\ accepted' = IF outcome = "sent" THEN accepted \union {e} ELSE accepted
    /\ memo' = [memo EXCEPT ![Dispatcher] = outcome]
    /\ Goto(Dispatcher, "recheck")
    /\ UNCHANGED <<rows, board, reopened, mode, todo, ev, seen, submitted, bounds>>

\* The result of an event that is no longer claimed is dropped.
Recheck ==
    /\ pc[Dispatcher] = "recheck" /\ ~LoopBusy
    /\ IF status[ev[Dispatcher]] = "claimed"
       THEN Goto(Dispatcher, "mark") /\ UNCHANGED <<ev, memo, seen>>
       ELSE Return(Dispatcher)
    /\ UNCHANGED <<rows, board, history, mode, todo, submitted, bounds>>

\* The loop resumes the dispatcher, which hands its next write to a thread; the
\* thread may then run while the agent has the loop.
Submit ==
    /\ pc[Dispatcher] \in {"mark", "step", "gate"} /\ mode[Dispatcher] = "dispatch"
    /\ ~submitted /\ ~LoopBusy
    /\ submitted' = TRUE
    /\ UNCHANGED <<rows, board, history, local, bounds>>

\* Mutants of Outcome: one attempt too many, and exhausted retries called sent.
OutcomeLate(e, s) == IF s = "retrying" /\ attempts[e] > MaxAttempts THEN "expired" ELSE s
OutcomeSent(e, s) == IF s = "retrying" /\ attempts[e] >= MaxAttempts THEN "sent" ELSE s

\* mark_outbox_sent, mark_outbox_failed, mark_outbox_retry: by now the status
\* is not looked at again.
Outcome(e, s) == IF s = "retrying" /\ attempts[e] >= MaxAttempts THEN "expired" ELSE s

Mark ==
    LET e == ev[Dispatcher]
        s == Outcome(e, memo[Dispatcher])
    IN
    /\ pc[Dispatcher] = "mark" /\ submitted
    /\ submitted' = FALSE
    /\ IF status[e] = "dropped"
       THEN Return(Dispatcher) /\ UNCHANGED <<status, due, stale>>
       ELSE /\ status' = [status EXCEPT ![e] = s]
            /\ due' = due \ {e}
            /\ stale' = stale \ {e}
            /\ memo' = [memo EXCEPT ![Dispatcher] = s]
            /\ Goto(Dispatcher, "step")
            /\ UNCHANGED <<ev, seen>>
    /\ UNCHANGED <<attempts, recent, deadline, board, history, mode, todo, bounds>>

\* _maybe_compact drops settled rows (how old they are is a choice), then the
\* dispatcher sleeps until its next tick.
Rest(gone) ==
    /\ gone \subseteq {e \in Events : status[e] \in OutboxTerminal}
    /\ Tick("dispatch", "idle", {})
    /\ status' = [e \in Events |-> IF e \in gone THEN "dropped" ELSE status[e]]
    /\ UNCHANGED <<due, stale>>

Dispatch ==
    \/ ExpireScan \/ ReclaimScan \/ Recheck \/ Submit \/ Mark
    \/ \E e \in Events : Expire(e) \/ Check(e)
    \/ \E batch \in SUBSET DueRows : ClaimDue(batch)
    \/ \E outcome \in {"sent", "failed", "retrying"} : Deliver(outcome)
    \/ \E gone \in SUBSET Events : Rest(gone)

-----------------------------------------------------------------------------
(* The agent's turn: _dispatch, with the tool calls of the registry *)

InTurn == pc[Agent] = "next" /\ mode[Agent] = "turn"

\* A tool such as message or notify queues its event and leaves its step parked
\* on the outbox, without an await in between.
QueueEvent(e) ==
    /\ InTurn /\ status[e] = "none"
    /\ status' = [status EXCEPT ![e] = "pending"]
    /\ due' = due \union {e}
    /\ deadline' = [deadline EXCEPT ![e] = IF e \in Expiring THEN "future" ELSE "none"]
    /\ step' = [step EXCEPT ![e] = "waiting_outbox"]
    /\ UNCHANGED <<attempts, stale, recent, task, history, local, submitted, bounds>>

StartTool(s) ==
    /\ InTurn /\ step[s] = "none"
    /\ step' = [step EXCEPT ![s] = "running"]
    /\ UNCHANGED <<rows, task, history, local, submitted, bounds>>

FinishTool(s, result) ==
    /\ InTurn /\ step[s] = "running"
    /\ step' = [step EXCEPT ![s] = result]
    /\ IF result = "completed" THEN Goto(Agent, "touch") ELSE UNCHANGED pc
    /\ UNCHANGED <<rows, task, history, mode, todo, ev, memo, seen, submitted, bounds>>

ToolsDone == \A s \in Tools : step[s] # "running"

\* _process_message returns once its tool calls have; the gate decides.
EndTurn ==
    /\ InTurn /\ ToolsDone
    /\ mode' = [mode EXCEPT ![Agent] = "ending"]
    /\ Goto(Agent, "gate")
    /\ UNCHANGED <<rows, board, history, todo, ev, memo, seen, submitted, bounds>>

\* The turn leaves _dispatch with task status s (unchanged if s is task).
Leave(s) ==
    /\ pc[Agent] = "next"
    /\ task' = s
    /\ Goto(Agent, "idle")
    /\ mode' = [mode EXCEPT ![Agent] = "idle"]
    /\ UNCHANGED <<rows, step, history, todo, ev, memo, seen, submitted, bounds>>

TurnDone  == mode[Agent] = "ending" /\ Leave(task)
TurnFails == mode[Agent] \in {"turn", "ending"} /\ ToolsDone /\ Leave("failed")

\* /stop, or a follow-up message that corrects the turn, cancels it wherever it
\* awaits: the active events are abandoned one by one, then the task.
CancelTurn ==
    /\ pc[Agent] = "next" /\ mode[Agent] \in {"turn", "ending"}
    /\ mode' = [mode EXCEPT ![Agent] = "cancel"]
    /\ todo' = [todo EXCEPT ![Agent] = ActiveRows]
    /\ UNCHANGED <<rows, board, history, pc, ev, memo, seen, submitted, bounds>>

CancelDone == mode[Agent] = "cancel" /\ todo[Agent] = {} /\ Leave("abandoned")

TurnProceeds ==
    \/ EndTurn \/ TurnDone
    \/ \E e \in Events : QueueEvent(e)
    \/ \E s \in Tools : StartTool(s) \/ FinishTool(s, "completed") \/ FinishTool(s, "failed")

Turn == TurnProceeds \/ TurnFails \/ CancelTurn \/ CancelDone

-----------------------------------------------------------------------------
(* Operators of the web UI: retry or abandon one event, retry what failed   *)
(* (a safe resume), recheck the task                                        *)

Ask(o, m, events) ==
    /\ pc[o] = "idle" /\ requests < MaxRequests /\ MayDisturb /\ ~LoopBusy
    /\ requests' = requests + 1
    /\ mode' = [mode EXCEPT ![o] = m]
    /\ todo' = [todo EXCEPT ![o] = events]
    /\ Goto(o, IF m = "recheck" THEN "gate" ELSE "next")
    /\ UNCHANGED <<rows, board, history, ev, memo, seen, submitted, crashes>>

Answer(o) ==
    /\ pc[o] = "next" /\ todo[o] = {}
    /\ Goto(o, "idle")
    /\ mode' = [mode EXCEPT ![o] = "idle"]
    /\ UNCHANGED <<rows, board, history, todo, ev, memo, seen, submitted, bounds>>

Operate(o) ==
    \/ \E e \in Stored : Ask(o, "retry", {e}) \/ Ask(o, "abandon", {e})
    \/ FailedRows # {} /\ Ask(o, "retry", FailedRows)
    \/ Ask(o, "recheck", {})
    \/ Answer(o)

-----------------------------------------------------------------------------
(* Time and failures *)

BecomeDue(e) ==
    /\ status[e] = "retrying" /\ e \notin due
    /\ due' = due \union {e}
    /\ UNCHANGED <<status, attempts, stale, recent, deadline, board, history, local, submitted, bounds>>

BecomeStale(e) ==
    /\ status[e] = "claimed" /\ e \notin stale
    /\ stale' = stale \union {e}
    /\ UNCHANGED <<status, attempts, due, recent, deadline, board, history, local, submitted, bounds>>

DebounceEnds(e) ==
    /\ e \in recent
    /\ recent' = recent \ {e}
    /\ UNCHANGED <<status, attempts, due, stale, deadline, board, history, local, submitted, bounds>>

DeadlinePasses(e) ==
    /\ deadline[e] = "future"
    /\ deadline' = [deadline EXCEPT ![e] = "past"]
    /\ UNCHANGED <<status, attempts, due, stale, recent, board, history, local, submitted, bounds>>

Time == \E e \in Events :
            BecomeDue(e) \/ BecomeStale(e) \/ DebounceEnds(e) \/ DeadlinePasses(e)

\* A ledger call of the dispatcher raises: a sweep is given up, a dispatch ends
\* its tick with the rest of the batch still claimed.
CallFails ==
    /\ crashes < MaxCrashes /\ MayDisturb
    /\ crashes' = crashes + 1
    /\ Return(Dispatcher)
    /\ todo' = [todo EXCEPT ![Dispatcher] = {}]
    /\ mode' = [mode EXCEPT ![Dispatcher] = IF @ = "dispatch" THEN "idle" ELSE @]
    /\ submitted' = FALSE
    /\ UNCHANGED <<rows, board, history, requests>>

\* The process dies and restarts: the ledger survives, the turn does not.
Crash ==
    /\ crashes < MaxCrashes /\ MayDisturb
    /\ crashes' = crashes + 1
    /\ pc'   = [a \in Actors |-> IF a = Dispatcher THEN "next" ELSE "idle"]
    /\ mode' = [a \in Actors |-> "idle"]
    /\ todo' = [a \in Actors |-> {}]
    /\ ev'   = [a \in Actors |-> NoEvent]
    /\ memo' = [a \in Actors |-> "none"]
    /\ seen' = [a \in Actors |-> {}]
    /\ submitted' = FALSE
    /\ UNCHANGED <<rows, board, history, requests>>

\* Nobody interrupts the task and nothing fails.
Undisturbed ==
    \/ Dispatch
    \/ TurnProceeds
    \/ \E a \in {Dispatcher, Agent} : Ledger(a)
    \/ Time

Next ==
    \/ Dispatch
    \/ Turn
    \/ \E o \in Operators : Operate(o)
    \/ \E a \in Actors : Ledger(a)
    \/ Time
    \/ CallFails
    \/ Crash

\* The dispatcher's coroutine and threads run on, calls return, time passes;
\* no turn has to end and no operator has to act.
Fairness ==
    /\ WF_vars(Dispatch)
    /\ \A a \in Actors : WF_vars(Ledger(a))
    /\ WF_vars(CancelDone)
    /\ \A e \in Events : WF_vars(BecomeDue(e)) /\ WF_vars(BecomeStale(e))
                         /\ WF_vars(DebounceEnds(e))

Spec      == Init /\ [][Next]_vars
FairSpec  == Spec /\ Fairness
CalmSpec  == Init /\ [][Undisturbed]_vars /\ Fairness /\ WF_vars(TurnProceeds)

-----------------------------------------------------------------------------
(* Properties *)

TypeOK ==
    /\ status \in [Events -> Statuses]
    /\ attempts \in [Events -> Nat]
    /\ due \subseteq Events /\ stale \subseteq Events /\ recent \subseteq Events
    /\ deadline \in [Events -> {"none", "future", "past"}]
    /\ task \in TaskStatuses
    /\ step \in [Steps -> StepStatuses \union {"none"}]
    /\ handoffs \in [Events -> Nat]
    /\ accepted \subseteq Events
    /\ reopened \in [Events -> Nat]
    /\ pc \in [Actors -> Labels]
    /\ mode \in [Actors -> Modes]
    /\ todo \in [Actors -> SUBSET Events]
    /\ ev \in [Actors -> Events \union {NoEvent}]
    /\ memo \in [Actors -> Statuses \union TaskStatuses]
    /\ seen \in [Actors -> SUBSET StepStatuses]
    /\ submitted \in BOOLEAN
    /\ requests \in 0..MaxRequests
    /\ crashes \in 0..MaxCrashes

\* No record of a delivery that did not happen: whoever races whom, a row says
\* "sent" only if the adapter accepted the event.
SentWasAccepted == \A e \in Events : status[e] = "sent" => e \in accepted

\* Every call of the adapter was charged to the row before it was made, so a
\* crash in between can only overcount the attempts.
HandoffsCharged == \A e \in Events : handoffs[e] <= attempts[e]

\* The retry budget: beyond max_attempts an event is only tried once more for
\* each time request_outbox_retry rescheduled it (an operator or a reclaim).
AttemptsGranted == \A e \in Events : attempts[e] <= MaxAttempts + reopened[e]

\* Whatever crashes, races or fails, a queued event gets a final status: a
\* claim is never held for good and a retry is never forgotten.
EventsSettle ==
    \A e \in Events :
        status[e] \in OutboxActive ~> status[e] \in OutboxTerminal \union {"dropped"}

\* The turn is over and the dispatcher has nothing in hand or left to do.
Quiet == /\ pc[Agent] = "idle" /\ ActiveRows = {}
         /\ \A a \in Actors \ {Agent} : pc[a] \in {"idle", "next"}

\* No other tool ran and no event expired.
OnlyEvents == /\ \A t \in Tools : step[t] = "none"
              /\ \A e \in Expiring : deadline[e] # "past"

StepsNow  == {step[s] : s \in Steps} \ {"none"}
EventsNow == {status[e] : e \in Stored}

\* Two finalizers, the turn's on the event loop and the dispatcher's in a
\* thread, write decisions they took from earlier reads; when a turn that only
\* queued events comes to rest, the task still shows the decision the gate
\* would take now.
QuietMatchesGate ==
    Quiet /\ OnlyEvents => task = Verdict(StepsNow, EventsNow, Verified)

\* A task nobody interrupts, of a turn that only queued events, is concluded,
\* and stays so.
TaskConcludes == <>[](task \in {"completed", "failed"} \/ ~OnlyEvents)

\* What the contract calls a status.
PhaseName(s) == CASE s = "none"                      -> "absent"
                  [] s \in OutboxActive              -> "open"
                  [] s = "sent"                      -> "delivered"
                  [] s \in OutboxTerminal \ {"sent"} -> "given up"
                  [] s = "dropped"                   -> "forgotten"
Phase == [e \in Events |-> PhaseName(status[e])]

\* The undisturbed outbox implements DeliveryContract (outbox.py:146).
Promise == INSTANCE DeliveryContract WITH phase <- Phase
KeepsPromise == Promise!Spec

-----------------------------------------------------------------------------
(* What the repository says of the ledger and the code does not do          *)

\* "cannot retry a sent outbox event" (runtime.py:1403):
\* it may be sent between request_outbox_retry's read and its write.
SentNotRetried ==
    [][\A e \in Events : status[e] = "sent" => status'[e] \notin OutboxActive]_vars

=============================================================================
