# LemonClaw in TLA+

LemonClaw is a personal agent runtime: messages come in from chat channels, the
web UI, timers and HTTP triggers; an agent loop runs a turn per message, calls
tools, and answers. What a turn promises to the outside world goes through a
durable task ledger with an outbox. This directory holds TLA+ models of the parts
where order, failure and concurrency decide whether that works, the TLC runs
that check them on small instances, and TLAPS proofs of what holds for any size.

## Inventory

Everything runs in one Python process on one asyncio event loop, with worker
threads for ledger calls, file I/O and some tools; the ledger is an SQLite (or
JSON) file; two channels have a Node bridge process beside them.

| part | source (`src/lemonclaw/`) | state | operations | what makes it correct |
| --- | --- | --- | --- | --- |
| task ledger, outbox store | `ledger/runtime.py`, `sqlite_store.py`, `types.py` | task rows, step and outbox event logs | enqueue, claim, mark sent/retry/failed, retry, abandon, expire, compact, update task and steps | an event gets a final status; `sent` is true; attempts are bounded; task, steps and events agree |
| completion gate | `ledger/completion_gate.py` | none of its own | evaluate, finalize | a task completes only when its steps and events are settled |
| outbox dispatcher | `ledger/outbox.py` | claimed batch, backoff | expire, reclaim, claim, deliver, mark, compact | a claim is never held for good, a handoff is charged first |
| delivery adapters | `ledger/delivery.py` | none | outbound message, webhook, HTTP, e-mail | say honestly whether the effect happened |
| agent loop: dispatch | `agent/loop.py` | session locks, active tasks, stop events | dispatch, stop, correct, evict locks | one turn per session at a time, /stop stops it |
| agent loop: history | `agent/loop.py`, `session/manager.py`, `session/compaction.py` | session messages, consolidation epoch | consolidate, /new, save, compact | no message lost or summarised twice |
| tools | `agent/tools/*.py` | per tool | execute through the registry | every call leaves a finished step |
| subagents | `agent/subagent.py`, `agent/registry.py` | running background tasks | spawn, announce, cancel | a result is announced once |
| conductor | `conductor/*.py` | subtasks with dependencies | split, run ready subtasks, retry, merge | dependencies first, late answers dropped |
| message bus | `bus/queue.py` | two bounded queues, pending replies | publish, consume, request, resolve | nothing put is lost; a request gets its reply or a timeout |
| channel manager | `channels/manager.py` | retry queue of undelivered messages | dispatch, retry, dead-letter | an accepted message is delivered or reported |
| channel adapters | `channels/*.py` | connections, dedupe sets | receive, send | (protocol specific) |
| pairing | `channels/auto_pairing.py`, `gateway/weixin_pairing.py` | pending codes | issue, approve, expire | only an approved sender is let in |
| cron | `cron/service.py` | job store, timer task | add, remove, enable, run, fire | a due job runs once, none is forgotten |
| heartbeat | `heartbeat/service.py` | timer | tick, decide, run | one heartbeat at a time |
| task recovery | `ledger/runtime.py`, `agent/loop.py`, `watchdog/service.py` | task status, recovery record, steps | mark stale, mark before a restart, request resume, replay, recheck | no task is forgotten, no side effect is repeated, the gate's decision stands |
| watchdog | `watchdog/service.py` | failure counts, cooldown | probe, mark stale tasks, soft and hard recovery | recovers a stuck process, not a busy one |
| triggers | `triggers/runtime.py` | trigger records | begin, finish, replay | one outcome per trigger |
| memory, learning | `agent/memory.py`, `agent/learning.py`, `memory/*.py` | files | append, consolidate, promote | (content) |
| knowledge | `knowledge/store.py` | SQLite index | ingest, search, delete | index and documents agree |
| governance | `governance/*.py` | capability tokens, kill switches | issue, authorize, revoke | a killed capability is refused |
| configuration | `config/*.py` | config file, watcher, sync | load, save, hot reload | a reload applies a whole file |
| gateway, web UI | `gateway/**` | web sessions, pub/sub | HTTP and websocket routes | (forwarding) |
| providers | `providers/*.py` | API clients | chat | (external calls) |
| Node bridges | `src/bridge/src/**` | sockets, event queue | relay WhatsApp and WeChat | events relayed in order |
| CLI, telemetry, skills, front end | `cli/`, `telemetry/`, `skills/`, `webui-v2/` | - | - | - |

They interact by bus messages (channels -> bus -> agent loop -> bus -> channel
manager), by direct calls (loop -> registry -> ledger), by worker threads
(dispatcher and web routes -> ledger), by callbacks (cron, heartbeat and
triggers -> agent loop), and through the rows of the ledger.

What is hard: the dispatcher and the operators change events in threads while a
turn runs; every ledger method reads, decides and writes in separate locked
sections; a turn is cancelled wherever it awaits; timers are cancelled while
they run a job; replies arrive after their request timed out; a crash may fall
between any two writes. `PROJECT.json` lists these hazards line by line.

## Modules

| module | models | composed with, checked through |
| --- | --- | --- |
| `CompletionGate` | status vocabulary and `evaluate_completion` (`Verdict`) | extended by `TaskLedger` and `TaskRecovery` |
| `TaskLedger` | one task, its steps and outbox events; dispatcher, turn and operators as actors | `MCTaskLedger` |
| `DeliveryContract` | abstract: what the outbox promises the tool that queued an event | implemented by `TaskLedger` (`KeepsPromise` for TLC, `KeepsContract` proved) |
| `DeliveryAccount` | abstract: what is left of that promise when operators, cancelled turns and crashes interfere | implemented by `TaskLedger` (`KeepsAccount`, proved) |
| `TaskRecovery` | one task that its turn, the watchdog and operators take for dead, resume and replay | `MCTaskRecovery` |
| `SessionDispatch` | turns of the agent loop: locks, corrections, stops, lock eviction | `MCSessionDispatch` |
| `SessionHistory` | the messages of one session in cache, file, archives and memory | `MCSessionHistory` |
| `CronService` | the cron scheduler, its store and its file | `MCCronService` |
| `Outbound` | the outbound queue, its dispatcher, retries, and the life of a channel | `MCOutbound` |
| `TaskLedgerProofs`, `TaskLedgerCalm`, `TaskRecoveryProofs`, `SessionDispatchProofs`, `SessionDispatchStops`, `SessionHistoryProofs`, `CronServiceProofs`, `OutboundProofs` | proofs about the module they are named after (`SessionDispatchStops`: about `SessionDispatch` too; `TaskLedgerCalm`: about `TaskLedger` while nobody interrupts) | `tlapm` |

The modules are cut along the program's own seams. `SessionDispatch` has a turn's
work under its lock as one phase, `TaskLedger` and `TaskRecovery` open it up;
`TaskLedger` races single reads and writes on the rows of a live task,
`TaskRecovery` takes the claims and attempts of an event as one step and lets whole
turns die and come back;
`SessionHistory` is what the turn does to its session, `Outbound` what becomes of
the answers it publishes. `CompletionGate` is shared, so the gate of both task
modules is one definition.

Operators whose comment starts with "Mutant of" are wrong on purpose: each is a
plausible bug in the definition it names. `PROJECT.json` (`mutants`) says which
property finds which of them; nothing else uses them.

### TaskLedger

The ledger's methods take a lock for each read and each write, never across a
read and the write that depends on it. So a method is a chain of steps, one per
locked section; `pc[a]` says which section actor `a` is at, `mode[a]` what it is
doing, `todo[a]` which events its loop has left, `ev[a]`/`memo[a]` the event and
the status it carries, `seen[a]` the step statuses the gate has read.

| state | code |
| --- | --- |
| `status`, `attempts` | the latest row of each outbox event |
| `due`, `stale`, `recent`, `deadline` | comparisons of `next_attempt_at_ms`, `claimed_at_ms`, `manual_retry_requested_at_ms`, `expires_at_ms` with the clock; `Time` raises them |
| `task`, `step` | the task's status; the latest row of each step |
| `handoffs`, `accepted`, `reopened` | history for the properties: adapter calls, adapter successes, reschedulings |
| `submitted` | the dispatcher's next call has been handed to a worker thread |

Actors: the dispatcher (a coroutine whose every ledger call is a trip to a worker
thread: `Submit` needs the loop, the call itself does not), the turn (runs on the
loop, so nothing else of the loop moves while it is between two awaits:
`LoopBusy`), and operators (one request is one call in a thread; their number is
the number of concurrent requests). Actions follow the code's order: `ExpireScan`,
`Expire`, `ReclaimScan`, `RetryRead`..., `ClaimDue`, `Check`, `Deliver`, `Recheck`,
`Mark`, `WriteStep`, `GateStart`... `GateWrite`, `Rest` for a tick; `QueueEvent`,
`StartTool`, `FinishTool`, `EndTurn`, `TurnDone`, `TurnFails`, `CancelTurn`,
`Abandon`, `CancelDone` for a turn; `Ask`, `Answer` for an operator. `CallFails` is
a dispatcher call that raises, `GateRaises` an evaluation that raises, `Crash` the
process dying and coming back with what the ledger holds.

Abstractions: payloads, errors and metadata are left out; the order in which due
events are claimed is any order; a tool that queues an event enqueues it and parks
its step in one step (the code does not await in between); a finalizer whose final
write raises *and* whose rollback raises is `CallFails` at the gate (both use the
same database; a rollback that succeeds alone is not modelled); the watchdog's
marks on the task row and the resume of a dead task are in `TaskRecovery`.

### TaskRecovery

Turns and resumes run on the event loop, and what they do between two awaits is one
step; so is the gate at a turn's end and in a resume. Everything else makes its
ledger calls in worker threads (`asyncio.to_thread`): the dispatcher's mark of the
event, update of the step and gate (`outbox.py:170-243`, three calls), the gate of the
recheck route (`routes.py:1657`), and the watchdog's passes. A call in a thread has no lock
across its reads and writes, so each of these is a step, and anything may happen between
two of them.

| state | code |
| --- | --- |
| `status`, `review`, `quiet` | the task row: status, `manual_review` in its recovery record, age |
| `crowded` | twenty waiting tasks with an older update and the watchdog's note come before it in the listing |
| `step`, `event` | latest rows of the steps; the outbox event one of them queues |
| `turn`, `active` | the task's own turn and the one a resume dispatches; tool calls under way |
| `mark`, `was` | where the watchdog's pass is, and the status it has read |
| `gate`, `seen`, `memo` | where the dispatcher (`sender`) and the recheck are in their calls; the steps their gate has read; the status they are about to write |
| `note` | the status that the recheck route, back on the loop, writes back with its note |
| `decision`, `overlap`, `asked` | history for the properties |

Actions: `StartTurn`, `StartTool`, `FinishTool`, `Checkpoint` (a tool of the model sets any
status), `EndTurn` (the gate), `LeaveTurn`, `FailTurn`, `CancelTurn`; `Deliver`, `Mark`,
`MarkStep`, `ReadRow`, `WriteRow` for the dispatcher (the last two are the row update inside
`update_step_state`); `Begin`, `ReadSteps`, `ReadEvents`, `Decide` for a gate in a thread;
`ListStale`, `ReadStale`, `FailStale`, `ReadForNote`, `WriteNote` for the watchdog's pass,
`ListAll`, `LeaveUnmarked`, `Restart` for a hard recovery (or a crash at any time);
`RequestResume`, `RetryEvent`, `Replay` (with its rollback when the dispatch fails),
`AskRecheck`, `Recheck`, `WriteBack`, `ResumeRecheck` for operators. `Candidate` is
`build_resume_candidate`.

Left out: what the loop's own ledger calls and a thread's do to each other within one
call, the claims, attempts, retries and expiry of the event (`TaskLedger`), tasks of cron and
conductor, a session with two locks (`SessionDispatch`). `TimePasses` assumes that no
read and the write that follows it are further apart than `task_stuck_threshold_s`.

What the model shows beside its properties; the code has no rule against these, and
the properties name them as their exceptions:

- A decision in a thread that had read the steps or the status before something newer
  was written overwrites it: the dispatcher's gate that read a running step turns the
  task that its turn has just completed back to `running`, a mark of the watchdog turns it
  into a failed one (`decision = "late"`).
- A resume executed while the task's turn is alive, or while a dispatcher is between the
  mark of the event and its gate, or a recheck or a note is under way in a thread, finds
  no open event, supersedes the failed steps and queues a replay; what was under way then
  concludes the task, and the replay runs the concluded task again (`overlap`).
- A recheck while a replay is queued does the same (`asked`).
- The listing of stale tasks is cut at 20, oldest update first, before the waiting tasks that
  the watchdog has annotated already are sorted out of it. Twenty of these hide every later
  stale task as long as nobody takes one of them up (`crowded`): `NothingForgotten` is
  promised only to a task that is not crowded out for good.

### SessionDispatch

`agent/loop.py` makes an asyncio task of every inbound message. One step of the
model is what the event loop runs between two awaits that suspend, so code
without such an await is atomic, as it is in the program.

| state | code |
| --- | --- |
| `pc`, `cancel` | where a turn's coroutine is; whether `Task.cancel()` was called and not yet delivered |
| `awaits` | the interrupted turns that `_cancel_session_work` has still to await |
| `ready` | tasks created and not yet run, in the loop's order |
| `active` | `_active_tasks` per session |
| `lockOf`, `order` | `_session_locks` and its LRU order; a lock is named after the turn that made it, so two locks of one session are told apart |
| `lock`, `waiters` | the lock object a turn has, and who waits for locks (`asyncio.Lock` is fair) |
| `task` | the status of the turn's task in the ledger |
| `stop`, `targets` | `/stop` in the chat or over the web, and the turns it awaits |
| `arrivals`, `aimed` | history for the properties |

Actions: `Arrive` (`run`, `_spawn_dispatch_task`), `Start` (the task's first
step: `NeverRun` when it was cancelled before it ran, `Interrupt` for a
correction, `DispatchAtOnce` otherwise), `Resume` (an interrupted turn has ended,
await the next), `Acquire`, `Direct` (`process_direct`), `Conclude`, `Err`, `Close`,
`Cancelled` (the ends of a turn), `Stop`, `AnswerStop`. `RequestLock` contains the whole
table operation: get or make the lock, move it to the end of the order, evict
what is idle. `Deliver` follows a cancellation along the chain of awaits: a turn
that awaits another hands the cancellation on and, because of its `except
CancelledError: pass`, forgets it.

Left out: what a turn does while it has the lock, stop events, subagents,
replies to bus requests. A chat `/stop` blocks the loop's consumer until its
targets have ended (`LoopBlocked`); one over the web does not.

What the model shows beside its properties: a `/stop` of a correction that awaits
its predecessors is handed to them and forgotten, so the correction runs after
it; a second `/stop` finds `_active_tasks` empty and is answered at once, while the
turns the first one awaits are still winding down.

### SessionHistory

A session is an object in the manager's cache and a file that `save` writes as a
whole. A turn keeps the object it was given until it saves it; whoever finds the
cache empty meanwhile loads a second object from the file.

| state | code |
| --- | --- |
| `messages`, `cached`, `file` | session objects in memory, the one in `_cache`, the session file |
| `archive`, `latest` | messages in archived session files; those in the file named after the present second |
| `turn`, `held` | the turn that has the session's lock, and its object |
| `job`, `text`, `original`, `since` | the background jobs: where each is, what it summarises; the consolidation's snapshot and epoch |
| `epoch`, `consolidating` | `_consolidation_epochs`, `_consolidating` |
| `queue`, `memory` | the memory store's lock with its waiters; how often each message has been written to `HISTORY.md` |
| `count`, `cleared`, `dropped`, `lost`, `blank`, `again`, `detached` | history for the properties |

Actions: `StartTurn`, `Proceed` (schedules a consolidation), `SaveTurn` (twice when the
message tool has sent something), `LeaveTurn`, `New`, `SwitchModel`; `Snapshot`, `Enter`,
`Ask`, `Answer` (`should_commit`; with an entry to write or, `skipped`, without one), `AskFails`, `WriteHistory`, `WriteFails`, `Finish` (the
prefix check and the cut) for consolidation and archive jobs; `Persist` (AgentBridge
channel), `Touch`, `Delete`, `Realign` (web UI), `Invalidate` (watchdog), `SecondPasses`,
`Crash`. Messages are numbers in the order in which they are first saved; a turn's
messages count as one.

Left out: what of the history the model is shown, the compaction within a turn,
attachments, the replies of other commands, and `_truncate_history_if_needed`: when
`HISTORY.md` has more than 200 entries, the oldest are dropped and 150 kept, so
`memory` says that a message was written there once, not that it still is. The watchdog does not strike between
the two saves of one turn, which are seconds apart.

What the model shows beside its properties: an answer of the model without a
`history_entry`, or with an empty one, writes nothing and is still a success
(`memory.py:750`; 685-687 for content that cannot be used), and the session is cut by
messages of which no record is left (`blank`); two archives within one second
overwrite each other (`lost`); a `/new` between the write of the memory and the cut
has the same messages summarised by both jobs (`again`); the save of a turn whose object
is not the cached one any more brings back what was cleared meanwhile (`detached`, the
exception of `ClearedStaysCleared`); a `/model` that clears the
session does not raise the epoch, but the prefix check keeps the consolidation
from cutting what is not there.

### CronService

| state | code |
| --- | --- |
| `jobs`, `enabled`, `next` | `_store`; `next_run_at_ms` against the clock: `none`, `future`, `due` |
| `saved`, `savedOn` | the file |
| `timer`, `phase`, `cur`, `todo` | `_timer_task`; where each timer task is, the job it runs, the due jobs it has left |
| `process` | up, after `stop()`, down |
| `past` | one-shots whose time has passed |
| `known`, `removed`, `concluded`, `halted` | history for the properties |

A timer task sleeps (`asleep`), wakes (`ringing`), runs a job (`working`), awaits
the promotion of what the job learnt (`promoting`), and, when cancelled while
it awaits, comes out of it (`winding`). `Wake` and `Finish` are `_on_timer` around
the jobs, with the save and the arming of the successor as part of the step that
ends the batch; `Raise` is a ledger or trigger call outside the `try`; `StopTurn` is a
`/stop` or a correction in the job's chat, which cancels the timer task because
`process_direct` registers the task it runs in as the session's turn; `Add` and
`Remove` save and arm, which cancels a timer task in the middle of a job, the one
that made the call included; `Boot`, `Stop`, `Crash` bound the process's life; `Reach` is
the clock. Due jobs run in any order; the identity of a task that has ended is
used again.

Left out: `enable_job`, `run_job` and edits of the file by the CLI's own process
(see "What is left"), recovery of a damaged file,
expressions that never fire, a full disk.

### Outbound

One channel of the manager, and the queue it shares with the others. Code without
a suspension is one step: the dispatcher looks at a channel and calls its `send()`
in one.

| state | code |
| --- | --- |
| `queue`, `retrying`, `tries` | `bus.outbound`; the sleeping `_requeue_later` tasks; `_dispatch_retry_count` |
| `dispatcher`, `hand` | `_dispatch_task`; the message whose `send()` is awaited |
| `outcome` | sent, failed, unrouted, dead letter, lost |
| `channel`, `configured`, `available`, `error` | `channels[name]`, `_channel_status[name]` |
| `up`, `task`, `owner`, `tracked` | `is_running` of each object; each `start()` task, whose object it runs; `_channel_tasks[name]` |
| `call`, `target`, `reap` | calls of `restart_channel`, `refresh_channels_from_config`, `ensure_channel`: where each is, the object and the task it has read |
| `puts`, `handed`, `blemish`, `overlap` | history for the properties |

Actions: `Publish`, `TakeStray`, `Postpone`, `Requeue`, `Drop`, `Send`, `Sent` for messages;
`Start`, `Finish`, `Fail` for a channel's task; `AskRestart`, `BeginRestart`, `RestartStopped`,
`Respawn`, `EndRestart`, `AskRefresh`, `RefreshStopped`, `RefreshCleared`, `Ensure` for calls.

Left out: `stop_all`, the progress filter, messages of the web UI and the activity
feed, what `delivery_context` rewrites, requests and replies over the bus (only the
conductor and tests make them, and nothing constructs a conductor).

What the model shows beside its properties: a message for a channel without a
capability entry ("cli" from a cron job without a channel, `cli/commands.py:677`)
raises `KeyError` at `manager.py:670` and ends the dispatcher, although line 690 means
to log "Unknown channel"; the queue then fills and turns wait in
`publish_outbound`, where a cancellation marks a task abandoned that the gate had
completed (`loop.py:1981`). A restart that succeeds after a failed `start()` leaves
`available` false, and messages are put off until they are dead letters
(`blemish`). A refresh takes no restart lock: beside a restart it leaves two
listeners, or revives a channel that was switched off (`overlap`). An exception of
`send()` is logged and the message is not tried again.

## Runs

| run | instance | shows |
| --- | --- | --- |
| `ledger_disturbed` | 1 expiring event, 2 attempts, 1 disturbance: an operator's retry, abandon or recheck, a crash, or a failing call | types, `SentWasAccepted`, `HandoffsCharged`, `AttemptsGranted`, and that events settle (`EventsSettle`) whatever happens between a read and its write |
| `ledger_promise` | 2 events of an undisturbed turn, one expiring, and another tool | `KeepsPromise`: the outbox implements `DeliveryContract`; `QuietMatchesGate`: two finalizers, one outcome; `TaskConcludes` |
| `dispatch_queue` | 3 turns of one session (1 direct), a chat `/stop` and one over the web, turns may never end | types, one turn at a time, in order of arrival; an answered stop leaves nothing alive, stopped turns do not run, every stop is answered |
| `dispatch_corrections` | 3 turns of one session, 2 of them corrections, a direct turn of another, a chat `/stop`, a table of one lock | nobody is lost, table and order agree under eviction, every turn ends |
| `cron_timer` | a recurring job, a one-shot that is disabled and one that is deleted after its run, 1 restart, 1 stop, 1 error | one timer, armed when it should be, the file current between jobs, nothing run that was removed or is over, due jobs run |
| `session_history` | 3 messages, window 2, one `/new` or `/model`, one watchdog recovery, one deletion or archive by the web UI, one crash or failed write | no message is lost but those named (`dropped`, `lost`, `blank`), summarised once, cleared stays cleared, in order, background jobs end |
| `task_recovery` | a replayable tool call and one that queues an event, 2 disturbances: requests, checkpoints, failures, cancellations, failed dispatches, restarts | the gate's decision stands unless it was late, replays start on safe ground unless their resume overlapped other work, no task is forgotten unless it is crowded out |
| `outbound` | 3 messages (1 for an unknown channel), queue of 2, 2 retries, 2 calls, 2 failures | a message is sent once and overtaken only if it was put off, one listener, given up for cause, every message ends |

`expect: violation` runs each show one disagreement between the code and what the
repository says of it; `PROJECT.json` (`findings`) quotes both sides.

| run | the code |
| --- | --- |
| `ledger_retry_after_sent` | an operator's retry and the dispatcher's `sent` cross: a sent event is delivered again |
| `dispatch_two_locks` | a full lock table evicts a lock that was just released and has a waiter: two turns of a session at once |
| `cron_stopped_timer` | a `/stop` in the chat of a running job ends the timer for good |
| `session_overwritten` | the watchdog drops the session of a running turn from the cache: what is saved meanwhile is overwritten by the turn |

### Bounds

*Ledger.* `MaxRequests` and `MaxCrashes` count what an environment does at will,
`MaxDisturbances` both together: one disturbance already meets every section of the
other actors. `MaxAttempts = 2` is the least value with a retry that is granted and
one that is refused. One event is enough for the races on a row and its task; the
batch and the task-level races need two (`ledger_promise`). Two events with
crashes were also explored (7.6 million states) and are left out of the regular
runs for time. `QuietMatchesGate` speaks of turns that only queue events and of events
that did not expire: with another tool, or with the expiry sweep (one thread call
that does not wait for the loop), a finalizer may be held up in its thread while
the other decides, and then overwrite the newer decision with its own. The
dispatcher's finalizer may likewise complete a task whose turn has started, or
will start, another step. Both are hazards of the code, not of the model.

*Recovery.* One step of each kind, since they differ only in whether they may be
repeated. Two disturbances of any kind at any point: a replay and one thing that happens
while it is queued, two requests that cross, a cancellation and the restart after it.
The turns, the dispatcher, the watchdog and the clock act beside them, and are not
counted. The theorems have no bound.

*Dispatch.* Three turns of one session are the least with a holder, a waiter and
one who arrives when the lock has just been released; the fourth, in
`dispatch_corrections` and `dispatch_two_locks`, belongs to another session, whose
lock pushes the first out of a table of one. Two stops are needed for the one
that finds nothing left to stop. `MaxLocks` is 512 in the code: 1 and 2 stand for
"fewer than the sessions" and "enough". `StoppedNeverRuns` and `ArrivalOrder` are
checked without corrections: with them the first is false (see above) and the second too: a
message may overtake a correction that still awaits its predecessors. `MutualExclusion` needs a
table with room for every session: with less it is false (`dispatch_two_locks`).
`StopLeavesNothing` was also explored with corrections (450,000 states).

*History.* A window of two messages keeps one and summarises one, so a third saved
meanwhile makes every part of `Shortened` non-empty; one archive job and the
consolidation are the two that compete for the memory's lock. One of each
disturbance, at any point (870,000 states).

*Cron.* Three timer tasks: one that comes out of a cancelled job, one that was
cancelled meanwhile, and their successor. One restart, stop and error each meet
every phase of the timer. `halted` marks the time between a stop or an error in a job
and the next arming; the properties that name it say nothing of that time, which
`cron_stopped_timer` looks at.

*Outbound.* A queue of two is full while a third message waits, two calls are the
least that overlap, two failures let a `start()` and a `stop()` fail. `MaxTries` is 240
in the code; the other limit, an age of 5 minutes, is the choice to give a message
up once it has been put off (550,000 states).

### Fairness

*Ledger.* The dispatcher's loop, a call once begun, a cancellation once begun and
the clock go on (`Fairness`); a turn need not end, operators need not act, and
nothing is assumed of crashes or of the adapter's answer. `CalmSpec` adds that the
turn, left alone, ends.

*Recovery.* A turn's iterations and tool calls are bounded, so it ends; the watchdog
ticks; calls of the ledger that have begun in a thread go on; a process that has decided to
restart does; time passes. Operators need not act, the dispatcher need not deliver,
nothing resumes a task by itself, and nobody need make room in the watchdog's listing.

*Dispatch.* The event loop runs what is ready (`LoopFairness`), and nothing more, for
`StopAnswers`. `TurnsEnd` adds that a turn that runs ends (`EndFairness`): the loop has
`max_iterations`, providers and tools have timeouts.

*History.* Background jobs run; the model's call has a timeout, which is one of the
ways it returns. Turns need not end.

*Cron.* The event loop, the turns and the clock go on, and a supervisor starts the
process again. Nothing is assumed of users.

*Outbound.* `send()` returns, sleeping tasks wake, tasks of the event loop run, `stop()`
returns or raises. Nobody must publish, restart or refresh, and a channel need
never come back.

## Proofs

TLC checks the instances above; the theorems hold for any number of events,
tools, operators, attempts, requests and crashes; of turns, sessions, stops and
corrections; of jobs, timer tasks and restarts; of messages, retries, calls and
failures.

| theorem | states |
| --- | --- |
| `TypeCorrect` (three modules), `DispatchTypeCorrect`, `CronTypeCorrect`, `HistoryTypeCorrect` | `TypeOK` |
| `SentIsTrue` | a row says `sent` only of an event its adapter accepted |
| `HandoffsAreCharged` | the adapter is never called more often than the row was charged |
| `AttemptsAreGranted` | attempts beyond `max_attempts` go back to a rescheduling |
| `SentStaysSent` | a sent event opens again only by a retry that had read it before it was sent |
| `SentStaysUnasked` | while no operator asks for a retry, what is sent stays sent |
| `KeepsAccount` | the ledger implements `DeliveryAccount`, whoever interferes |
| `KeepsContract` | every step of the undisturbed ledger is a step of `DeliveryContract`, or none |
| `QuietTaskMatchesGate` | an undisturbed turn that only queued events comes to rest on the decision the gate would take now |
| `ReplaysStartSafely` | a replay starts on an unsettled task without open delivery or failed side effect, unless its resume overlapped other work on the task or the gate was run for an operator while it was queued |
| `GatePrevails` | after the last turn, and with no thread between a change and its decision, the status is the gate's, unless what was written last had been read before something newer |
| `NobodyIsLost` | a turn that has not ended is tracked, or awaited by who cancelled it |
| `OrderListsLocks` | the LRU order lists exactly the locks in the table |
| `OneTurnUnlessEvicted` | mutual exclusion, until an eviction takes a lock that a live turn awaits |
| `OneTurnPerSession` | mutual exclusion, if the table has room for every session |
| `StopsLeaveNothing` | what an answered stop had found is dead or awaited by another stop |
| `SessionsNeverStuck` | while a session has work, or a stop of it waits, some turn of it can move |
| `StoppedStayStopped` | what a stop found before it ran never runs, if no message interrupts |
| `ArrivalOrderUnlessEvicted` | a session's turns run in order of arrival, if no message interrupts, until an eviction takes a lock that one of them awaits |
| `ArrivalOrderKept` | the same for a table with room for every session |
| `NoMessageIsLost` | a saved message is kept somewhere, or was discarded, overwritten, or cut by a consolidation that had no entry to write |
| `MemoryHasItOnce` | no message is summarised twice, unless a consolidation was overtaken |
| `ClearedIsGone` | what `/new`, `/model` or DELETE removed does not come back |
| `TurnsStayAttached` | no turn works on a stale object while nobody takes its session out of the cache |
| `SavedIsKeptUnlessReplaced` | a saved message is kept, but for a stale object, an archive of the same second, or a consolidation that had no entry to write |
| `StaysInOrder` | a session's messages stay in order, each once |
| `JobsNeverStuck` | one job has the memory store's lock, and the others wait for one that can go on |
| `OneTimerOnly`, `TimerIsSet` | only `_timer_task` goes on, and it is there and awake when a job needs it |
| `StoreIsSaved` | between jobs the file holds the jobs and their flags |
| `RemovedStaysRemoved`, `OneShotIsOver` | nothing removed or concluded is started again, restarts included |
| `SentOnce`, `PartsInOrder` | a message is given to `send()` once, and overtaken only if it was put off |
| `ListensOnce` | one listener, the registered object's, unless a refresh overlapped another call |
| `GivenUpFairly` | a message is given up only for cause |
| `MessagesAccounted` | a message without an outcome is queued, asleep or being sent, in one place only |

Assumptions are the named `ASSUME`s of the modules (the sets of constants are
disjoint, the bounds natural numbers), and for `OneTurnPerSession` and
`ArrivalOrderKept` also `Fits`: no more sessions than `MaxLocks`. `StoppedStayStopped` and
both theorems on `ArrivalOrder` assume `NoCorrections`, and are false without it: a correction
that awaits its predecessors forgets a cancellation that reaches it, and is
overtaken by a message that comes while it awaits. `QuietTaskMatchesGate` assumes
`NothingFails` (`MaxCrashes = 0`): an evaluation that raises fails the task, whatever
the gate would have said.

Three of the properties that the code violates (the findings) are theorems under a
hypothesis about the behaviour, not about a bound. The hypothesis names the one step
that breaks the property: without it the property holds, whatever else happens. (The
fourth, `cron_stopped_timer`, is what `TimerIsSet` excludes by `halted`.)

| property | run that violates it | holds as long as |
| --- | --- | --- |
| `MutualExclusion` | `dispatch_two_locks` | `AwaitedLocksStay`: no step takes a lock out of the table for which a live turn of the session waits |
| `SentNotRetried` | `ledger_retry_after_sent` | never `RetryOvertaken`: no retry of an operator is about to write while its event is sent |
| `SavedIsKept` | `session_overwritten` | never `detached` (no turn has a stale object), which `LeavesTurnsAlone` ensures, and `ArchivesApart`: no two archives in one second |

`Fits` is only a way to have `AwaitedLocksStay` (`RoomForAll`).

*Ledger.* `TypeOK` is not inductive by itself, because a step may copy the status an actor
carries (`memo`) to the row: `Typed` adds what a carried status may be at each
`pc` (`Held`). `SentInv` adds `CarriesSent`: a dispatcher that carries `sent` to
the row carries it for an event that was accepted. `ChargeInv` adds
`SpareAttempt`: each event of the batch that has yet to be handed off has an attempt
that no handoff has used. `BudgetInv` adds `AttemptLeft`: an event that may be
claimed has an attempt of its own, or one that a rescheduling granted.

`HandInv` is what holds of the work in an actor's hand whoever interferes: each kind of
actor is in the modes the code gives it (`Places`); what it goes through has been
queued, what the dispatcher delivers has not been compacted, and what it is about to
mark was handed off and is not `sent` (`WorkKnown`); and only an operator's retry, or the
sweep for stale claims on an event that is not `sent`, reopens (`SweepsUnsent`). With
it `SentStep` finds the one write that takes `sent` back. `KeepsAccount` is a full
refinement: each action maps to the step of `DeliveryAccount` of the same meaning, or
to none (`NextAccount`). One of those steps has no counterpart in the contract:
`Postpone`, the transient failure of a handoff that reopens an event which an operator or
a cancelled turn abandoned after the dispatcher had looked at it again (`Recheck`);
`mark_outbox_retry`, the write that follows in a thread, does not look at the status it
replaces.

`KeepsContract` rests on `Calm`: while nobody interferes a claim lives for the tick that
made it, in the dispatcher's batch or in its hand, so the sweep for stale claims
finds none and nothing is reopened. With that, each action maps to the contract's
step of the same meaning, or to none; compaction is the one that moves several
events.

`QuietTaskMatchesGate` builds on `Calm`. A step says what became of its event
(`StepsFollow`) but for the event the dispatcher has just given a status, so once all
events are settled the events add nothing to what the steps say
(`EventsAddNothing`), and the gate's `LastWord` depends on the steps alone. `Decides`
then holds of both finalizers: whoever is at the gate has read those steps or is
about to write the last word, or the dispatcher will still go through the gate
(`Owes`). That the turn's finalizer runs on the loop is needed: the dispatcher cannot begin
its own while the turn's is under way, unless it had been handed to its thread
before.

*Recovery.* `TypeOK` is taken in parts, one per actor's variables. `ReplaysStartSafely` adds
`ReplayWaitsSafely` (while a replay is queued, what its resume relied on holds, or
one of the named exceptions has happened). `GatePrevails` adds that one turn runs at
a time (`OneRuns`), so what `decision` says is of the last one; a step that changes the
steps or the event after a decision either leaves the gate's answer as it is or belongs to a
thread that has its own decision still to write (`Deciding`), and each write of the status
says whether what it writes is still so (`Conclude`, `Overwrite`).

*Dispatch.* `NobodyLost` is inductive with types and `ReadySpawned` (what is in `ready` has
not run). The lock table has an invariant of its own: `Listed`, order and table have the
same sessions, each once. An eviction keeps it because what it goes through is a first
part of the order (`ScannedFacts`), the busy locks met there keep their order
(`KeptFacts`) and go behind the rest, and only locks that nobody holds are dropped
(`EvictsIdle`). `LockShared` says that every turn at its session's lock (`AtLock`: it
holds it, or waits and is not cancelled) refers to the one in the table, and
`LockExclusive` that a lock has one holder; an eviction of an awaited lock is the only
step that breaks the first, so both are inductive under `AwaitedLocksStay`.

`SessionsNeverStuck` is the safety core of `TurnsEnd`. `CanMove` lists when a turn can
take a step. Of the turns of a session that interrupt, the one that arrived first
(`FirstFacts`) awaits a turn that is over or does not itself interrupt, because the
interrupters it took arrived before it (`Chained`). Who does not interrupt is in line
to start (`Lined`), holds its lock, or waits: then the holder of that lock or the first
in its queue can move (`QueueMoves`), and is a turn of the same session, since a lock is
made by its own session (`OwnLocks`) and the queue has who waits (`Waits`), no one else.

`StopsLeaveNothing` is about chains of awaits. `Lined` says that turns start in the
order in which they arrived, so an interrupter arrived after the interrupters it
takes (`Chained`). `Aimed` says what a stop found: it is out of `_active_tasks` for
good, and so is all that awaits it or that it awaits. A turn that an answered stop found
and that still lives is awaited (`NobodyLost`), by a waiting stop or by an
interrupter the stop found as well; among these interrupters one arrived last
(`LastPosition`), and its own awaiter can only be a stop. Without corrections nobody
interrupts (`Calm`), and a turn taken out of `_active_tasks` before it ran carries its
cancellation (`Marked`). For `ArrivalOrder`, `Queued` adds that the waiters of a
lock are in order of arrival among those of a kind.

*History.* `CacheInv` (an object in the cache equals the file) is what every other
invariant needs; `SessionMoves` then says once that any step moves the session in
one of five ways: as it was, one message longer, cut by a consolidation, replaced by
a stale object, or cleared. `StaysInOrder` follows from these and from what a prefix
is. A turn's object is the cached one (`HeldCached`) unless somebody takes it out of the
cache meanwhile; with that, and archives of different seconds, `lost` stays empty
(`NothingOverwritten`), so `NoMessageIsLost` is left with two exceptions: what was discarded on
purpose and what a consolidation cut without an entry (`blank`). `WrittenInv` (a job that
has written an entry has its text in the memory) carries `NoMessageIsLost`. For `MemoryHasItOnce`, `NumbersInv` says which numbers occur at all,
`BehindInv` that a session still begins with the consolidation's snapshot or has
started over, and `OnceInv` that a message has been written once or is going to be
by one job, and is in the session only until it is cut. `JobsNeverStuck` is the part of
`JobsEnd` that is safety: the lock's queue holds each job once and all but the first are
waiting (`LockQueue`), so the first can always take a step; and `_consolidating` has the
session exactly while its job is not over (`FlagInv`).

*Cron.* `CronInv` is one invariant for all six theorems: file and memory hold no
job that was removed (`Stored`), only enabled jobs have a next run (`Listed`), a
process that is down runs nothing (`Resting`), only `_timer_task` goes on
(`OneTimer`), what a timer task works on is enabled (`Batch`), one-shots that are
due or taken have had their time (`Timely`) and one that has been run has no way
back (`Over`). `Batch` is where the arming that cancels a busy timer is needed: a
removal takes a job out of `enabled`, and the task that still has it in `todo`
must not go on. `ArmedWell` says once what `_arm_timer` establishes, for the five
actions that arm. The two action properties follow from the invariant by
`StartsDue`: what a step starts is enabled and not over.

*Outbound.* `MailOrder`: queued, sleeping and handed messages are disjoint and without
repetition, and a message is behind a later one only if it was put off. `OnePlace`
(`MessagesAccounted`) adds the converse: what was put and has no outcome is in one of
these places. It is what `MessagesEnd` is built on: no step drops a message silently.
`LifeOrder`: as long as no calls overlapped, each call under way knows the object
and the task the manager knows. `StatusClear`: the status says unavailable only with
a cause.

Only model-checked: everything under fairness (`EventsSettle`, `TaskConcludes`,
`StopAnswers`, `TurnsEnd`, `DueJobRuns`, `JobsEnd`, `NothingForgotten`, `MessagesEnd`, the
contract's `Settles`), which the proof system does not reach. Of `TurnsEnd`, `JobsEnd` and
`MessagesEnd` the safety that they rest on is proved (`SessionsNeverStuck`,
`JobsNeverStuck`, `MessagesAccounted`).

## What is left

1. `enable_job` and `run_job` of the cron service and the CLI's process on its file:
   lost updates between two processes.
2. The turn itself (`agent/loop.py`, the iteration loop, tool registry, compaction
   within a turn), between `SessionDispatch` and `TaskLedger`.
3. `stop_all` and the start of the channel manager; several channels behind one
   queue.
4. Subagents, heartbeat and triggers, whose tables change in single steps of the
   event loop.

## Not modelled

Each part is listed in `PROJECT.json` with its reason. In short: adapters, providers,
the Node bridges, gateway routes, CLI output and telemetry forward calls and keep
next to no state of their own; memory, learning, knowledge, context and skills
are about content; governance, pairing and configuration are small tables changed
in single steps; delivery adapters appear in `TaskLedger` as an effect that happened,
did not, or is not known. No entry point of the repository constructs the
conductor, so no schedule of it can be taken from the program. Subagents,
heartbeat and triggers do what they do in single steps between calls of the model.
