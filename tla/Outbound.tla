------------------------------ MODULE Outbound ------------------------------
(***************************************************************************)
(* The way of a message out of the program: the bounded outbound queue of  *)
(* the bus (bus/queue.py), the dispatcher that takes messages from it, the *)
(* retries of what a channel cannot take yet, and the life of a channel,   *)
(* which operators restart, settings replace and failures end              *)
(* (channels/manager.py).                                                  *)
(*                                                                         *)
(* There is one channel: the manager keeps the same state for each and     *)
(* they share the queue only.  Code without a suspension is one step: the  *)
(* dispatcher looks at a channel and calls its send() in one, for the      *)
(* broadcast to the activity feed in between never suspends.               *)
(***************************************************************************)
EXTENDS Naturals, Sequences

CONSTANTS
    MaxMessages,   \* bound: messages that are put
    Strays,        \* those for a channel without a capability ("cli", a typo)
    Capacity,      \* of the outbound queue
    MaxTries,      \* _DISPATCH_RETRY_MAX_ATTEMPTS
    MaxCalls,      \* bound: calls of restart_channel, refresh and ensure_channel
    MaxFailures,   \* bound: start() and stop() that raise
    None

ASSUME OutboundAssumption ==
    /\ MaxMessages \in Nat /\ Strays \subseteq 1..MaxMessages /\ None \notin Nat
    /\ Capacity \in Nat /\ Capacity > 0 /\ MaxTries \in Nat /\ MaxTries > 0
    /\ MaxCalls \in Nat /\ MaxFailures \in Nat

\* Messages are numbered as they are put, calls as they are made.  A channel object is named after the
\* call that built it, a task that runs its start() after the call that created
\* the task; 0 stands for start_all.
Messages == 1..MaxMessages
Calls    == 1..MaxCalls
Boot     == 0
Makers   == 0..MaxCalls

VARIABLES
    queue,         \* bus.outbound
    dispatcher,    \* "running", or "dead" of an exception nobody catches
    hand,          \* the message whose send() is awaited
    retrying,      \* messages whose _requeue_later task is alive
    tries,         \* _dispatch_retry_count of each message
    outcome,       \* what has become of each message
    channel,       \* self.channels[name]
    configured, available, error,   \* self._channel_status[name]
    up,            \* is_running of each channel object
    task, owner,   \* phase of each start() task, the object it runs
    tracked,       \* self._channel_tasks[name]
    call, target, reap,   \* where each call is, the object and task it has read
    \* history for the properties, and a bound
    puts,          \* messages put so far
    handed,        \* messages in the order they were given to send()
    blemish,       \* a start() has raised since the object was built
    overlap,       \* a refresh or ensure ran beside another call
    failures

mail    == <<queue, retrying, tries, outcome>>
status  == <<configured, available, error>>
tasks   == <<up, task, owner, tracked>>
calls   == <<call, target, reap>>
life    == <<channel, status, tasks, calls, blemish, overlap, failures>>
vars    == <<mail, dispatcher, hand, puts, handed, life>>

Phases   == {"idle", "waiting", "stopping", "reaping", "settling",
             "closing", "clearing", "done"}
Outcomes == {"none", "sent", "failed", "unrouted", "dead", "lost"}

Init ==
    /\ queue = <<>> /\ dispatcher = "running" /\ hand = None /\ retrying = {}
    /\ tries = [m \in Messages |-> 0]
    /\ outcome = [m \in Messages |-> "none"]
    /\ channel = Boot
    /\ configured = TRUE /\ available = TRUE /\ error = FALSE
    /\ up = [x \in Makers |-> FALSE]
    /\ task = [x \in Makers |-> IF x = Boot THEN "spawned" ELSE "none"]
    /\ owner = [x \in Makers |-> IF x = Boot THEN Boot ELSE None]
    /\ tracked = Boot
    /\ call = [c \in Calls |-> "idle"]
    /\ target = [c \in Calls |-> None]
    /\ reap = [c \in Calls |-> None]
    /\ puts = 0 /\ handed = <<>>
    /\ blemish = FALSE /\ overlap = FALSE /\ failures = 0

-----------------------------------------------------------------------------
(* What the manager knows of the channel *)

Alive(x) == x # None /\ task[x] \in {"spawned", "running"}

LockHeld == \E c \in Calls : call[c] \in {"stopping", "reaping", "settling"}

Unavailable ==
    \/ LockHeld
    \/ channel = None /\ configured /\ ~error
    \/ channel # None /\ configured /\ (~available \/ error)
    \/ channel # None /\ ~up[channel] /\ Alive(tracked)

-----------------------------------------------------------------------------
(* Messages *)

\* Mutant of Room: one too many.
RoomForOneMore == Len(queue) <= Capacity

\* await self.outbound.put(msg): whoever publishes waits for room.
Room == Len(queue) < Capacity

Publish(m) ==
    /\ m = puts + 1 /\ Room
    /\ queue' = Append(queue, m)
    /\ puts' = m
    /\ UNCHANGED <<retrying, tries, outcome, dispatcher, hand, handed, life>>

\* Mutant of Taken: the latest message is taken first.
TakenLast(m) ==
    /\ dispatcher = "running" /\ hand = None
    /\ queue # <<>> /\ m = queue[Len(queue)]
    /\ queue' = SubSeq(queue, 1, Len(queue) - 1)

\* The dispatcher has taken m from the queue.
Taken(m) ==
    /\ dispatcher = "running" /\ hand = None
    /\ queue # <<>> /\ m = Head(queue)
    /\ queue' = Tail(queue)

\* get_channel_capability raises KeyError, which the loop does not catch.
TakeStray(m) ==
    /\ Taken(m) /\ m \in Strays
    /\ dispatcher' = "dead"
    /\ outcome' = [outcome EXCEPT ![m] = "lost"]
    /\ UNCHANGED <<retrying, tries, hand, puts, handed, life>>

\* Mutant of Tries: the clone that is requeued carries no count.
TriesForgotten(m) == 0

\* The number of this retry.
Tries(m) == tries[m] + 1

\* _schedule_outbound_retry: a task that sleeps and then puts a copy, or the
\* end of the message when it has been retried too often or for too long.
Postpone(m) ==
    /\ Taken(m) /\ m \notin Strays /\ Unavailable
    /\ \/ /\ Tries(m) <= MaxTries
          /\ tries' = [tries EXCEPT ![m] = Tries(m)]
          /\ retrying' = retrying \union {m}
          /\ UNCHANGED outcome
       \/ /\ tries[m] > 0
          /\ outcome' = [outcome EXCEPT ![m] = "dead"]
          /\ UNCHANGED <<tries, retrying>>
    /\ UNCHANGED <<dispatcher, hand, puts, handed, life>>

Requeue(m) ==
    /\ m \in retrying /\ Room
    /\ queue' = Append(queue, m)
    /\ retrying' = retrying \ {m}
    /\ UNCHANGED <<tries, outcome, dispatcher, hand, puts, handed, life>>

\* The channel is switched off, or could not be built: logged and forgotten.
Drop(m) ==
    /\ Taken(m) /\ m \notin Strays /\ ~Unavailable /\ channel = None
    /\ outcome' = [outcome EXCEPT ![m] = "unrouted"]
    /\ UNCHANGED <<retrying, tries, dispatcher, hand, puts, handed, life>>

Send(m) ==
    /\ Taken(m) /\ m \notin Strays /\ ~Unavailable /\ channel # None
    /\ hand' = m
    /\ handed' = Append(handed, m)
    /\ UNCHANGED <<retrying, tries, outcome, dispatcher, puts, life>>

\* Mutant of AfterSend: a send that raised is retried like an absent channel.
AfterSendAgain(m, result) ==
    /\ outcome' = [outcome EXCEPT ![m] = IF result = "failed" THEN "none" ELSE result]
    /\ retrying' = IF result = "failed" THEN retrying \union {m} ELSE retrying

\* An exception of send() is logged, the message is not tried again.
AfterSend(m, result) ==
    /\ outcome' = [outcome EXCEPT ![m] = result]
    /\ retrying' = retrying

Sent ==
    /\ hand # None
    /\ \E result \in {"sent", "failed"} : AfterSend(hand, result)
    /\ hand' = None
    /\ UNCHANGED <<queue, tries, dispatcher, puts, handed, life>>

-----------------------------------------------------------------------------
(* The tasks that run a channel *)

Unmailed == UNCHANGED <<mail, hand, puts, handed>>

\* create_task(_start_channel(object)); t holds the phases before that.
Spawn(c, t, object) ==
    /\ task' = [t EXCEPT ![c] = "spawned"]
    /\ owner' = [owner EXCEPT ![c] = object]
    /\ tracked' = c

\* The first step of _start_channel, and of start(), which returns at once where
\* a library or a part of the configuration is missing.
Start(x) ==
    /\ task[x] = "spawned"
    /\ \/ /\ task' = [task EXCEPT ![x] = "running"]
          /\ up' = [up EXCEPT ![owner[x]] = TRUE]
       \/ /\ task' = [task EXCEPT ![x] = "done"]
          /\ up' = up
    /\ error' = FALSE
    /\ Unmailed
    /\ UNCHANGED <<dispatcher, channel, configured, available, owner, tracked>>
    /\ UNCHANGED <<calls, blemish, overlap, failures>>

\* start() returns: the object was stopped, or the adapter caught what went wrong.
Finish(x) ==
    /\ task[x] = "running"
    /\ task' = [task EXCEPT ![x] = "done"]
    /\ Unmailed
    /\ UNCHANGED <<dispatcher, channel, status, up, owner, tracked>>
    /\ UNCHANGED <<calls, blemish, overlap, failures>>

\* start() raises, whatever the object's state.
Fail(x) ==
    /\ task[x] = "running" /\ failures < MaxFailures
    /\ task' = [task EXCEPT ![x] = "done"]
    /\ up' = [up EXCEPT ![owner[x]] = FALSE]
    /\ available' = FALSE /\ error' = TRUE
    /\ blemish' = TRUE
    /\ failures' = failures + 1
    /\ Unmailed
    /\ UNCHANGED <<dispatcher, channel, configured, owner, tracked, calls, overlap>>

-----------------------------------------------------------------------------
(* Calls of the manager: at most one thing each *)

\* c is the next call.
Called(c) == call[c] = "idle" /\ \A d \in Calls : d < c => call[d] # "idle"

\* The call is over and its local variables with it.
Return(c) ==
    /\ call' = [call EXCEPT ![c] = "done"]
    /\ target' = [target EXCEPT ![c] = None]
    /\ reap' = [reap EXCEPT ![c] = None]

Refreshing == \E c \in Calls : call[c] \in {"closing", "clearing"}
Restarting == \E c \in Calls : call[c] \in {"waiting", "stopping", "reaping", "settling"}

\* restart_channel, from the web UI, the chat or the watchdog: the object is
\* read before the lock is asked for.
AskRestart(c) ==
    /\ Called(c) /\ channel # None
    /\ call' = [call EXCEPT ![c] = "waiting"]
    /\ target' = [target EXCEPT ![c] = channel]
    /\ overlap' = (overlap \/ Refreshing)
    /\ Unmailed
    /\ UNCHANGED <<dispatcher, channel, status, tasks, reap, blemish, failures>>

\* With the lock: the task is read and stop() begins.
BeginRestart(c) ==
    /\ call[c] = "waiting" /\ ~LockHeld
    /\ call' = [call EXCEPT ![c] = "stopping"]
    /\ reap' = [reap EXCEPT ![c] = tracked]
    /\ up' = [up EXCEPT ![target[c]] = FALSE]
    /\ Unmailed
    /\ UNCHANGED <<dispatcher, channel, status, task, owner, tracked, target>>
    /\ UNCHANGED <<blemish, overlap, failures>>

\* stop() returns, or raises and ends the restart.
RestartStopped(c) ==
    /\ call[c] = "stopping"
    /\ \/ /\ call' = [call EXCEPT ![c] = "reaping"]
          /\ UNCHANGED <<target, reap, failures>>
       \/ /\ failures < MaxFailures
          /\ Return(c)
          /\ failures' = failures + 1
    /\ Unmailed
    /\ UNCHANGED <<dispatcher, channel, status, tasks, blemish, overlap>>

\* Mutant of Reaped: a task that does not end in time is left to itself.
ReapedLate(t, x) == IF x # None /\ t[x] = "spawned" THEN [t EXCEPT ![x] = "done"] ELSE t

\* The task x has ended by itself within half a second, or was cancelled.
Reaped(t, x) == IF x # None /\ t[x] # "none" THEN [t EXCEPT ![x] = "done"] ELSE t

Respawn(c) ==
    /\ call[c] = "reaping"
    /\ call' = [call EXCEPT ![c] = "settling"]
    /\ Spawn(c, Reaped(task, reap[c]), target[c])
    /\ Unmailed
    /\ UNCHANGED <<dispatcher, channel, status, up, target, reap>>
    /\ UNCHANGED <<blemish, overlap, failures>>

\* sleep(0) lets the new task run before the lock is released.
EndRestart(c) ==
    /\ call[c] = "settling" /\ task[c] # "spawned"
    /\ Return(c)
    /\ Unmailed
    /\ UNCHANGED <<dispatcher, channel, status, tasks, blemish, overlap, failures>>

\* Mutant of Register: the new object inherits the status of the old one.
RegisterStale(c, t) ==
    /\ channel' = c
    /\ configured' = TRUE /\ UNCHANGED <<available, error>>
    /\ blemish' = FALSE
    /\ dispatcher' = "running"
    /\ Spawn(c, t, c)

\* A new object is registered, and the dispatcher started if it has ended.
Register(c, t) ==
    /\ channel' = c
    /\ configured' = TRUE /\ available' = TRUE /\ error' = FALSE
    /\ blemish' = FALSE
    /\ dispatcher' = "running"
    /\ Spawn(c, t, c)

\* The second half of a refresh: the status is made anew, and the object if
\* the channel is switched on and its configuration complete.
Rebuild(c, t, kept) ==
    /\ Return(c)
    /\ \/ Register(c, t)
       \/ /\ \E enabled \in BOOLEAN :
                configured' = enabled /\ available' = FALSE /\ error' = enabled
          /\ task' = t /\ tracked' = kept
          /\ UNCHANGED <<channel, dispatcher, owner, blemish>>

\* refresh_channels_from_config, no lock held: the object is taken out of the
\* table and its stop() begins.
AskRefresh(c) ==
    /\ Called(c)
    /\ overlap' = (overlap \/ Refreshing \/ Restarting)
    /\ \/ /\ channel # None
          /\ channel' = None
          /\ target' = [target EXCEPT ![c] = channel]
          /\ up' = [up EXCEPT ![channel] = FALSE]
          /\ call' = [call EXCEPT ![c] = "closing"]
          /\ UNCHANGED <<dispatcher, status, task, owner, tracked, reap, blemish>>
       \/ /\ channel = None
          /\ Rebuild(c, task, tracked)
          /\ UNCHANGED up
    /\ Unmailed
    /\ UNCHANGED failures

\* stop() returns, or raises, which is noted as an error of the channel; the
\* task is taken out of its table, and waited for if it is alive.
RefreshStopped(c) ==
    /\ call[c] = "closing"
    /\ IF Alive(tracked)
       THEN /\ \/ error' = error /\ failures' = failures
               \/ error' = TRUE /\ failures < MaxFailures /\ failures' = failures + 1
            /\ call' = [call EXCEPT ![c] = "clearing"]
            /\ reap' = [reap EXCEPT ![c] = tracked]
            /\ tracked' = None
            /\ UNCHANGED <<dispatcher, channel, configured, available, task, owner>>
            /\ UNCHANGED <<target, blemish>>
       ELSE Rebuild(c, task, None) /\ UNCHANGED failures
    /\ Unmailed
    /\ UNCHANGED <<up, overlap>>

RefreshCleared(c) ==
    /\ call[c] = "clearing"
    /\ Rebuild(c, Reaped(task, reap[c]), tracked)
    /\ Unmailed
    /\ UNCHANGED <<up, overlap, failures>>

\* ensure_channel, for a channel that became usable while the program runs;
\* its callers have seen that no object is registered.
Ensure(c) ==
    /\ Called(c) /\ channel = None
    /\ Return(c)
    /\ overlap' = (overlap \/ Refreshing \/ Restarting)
    /\ Register(c, task)
    /\ Unmailed
    /\ UNCHANGED <<up, failures>>

-----------------------------------------------------------------------------
Dispatch == \E m \in Messages :
               TakeStray(m) \/ Postpone(m) \/ Drop(m) \/ Send(m)

Step(c) ==
    BeginRestart(c) \/ RestartStopped(c) \/ Respawn(c) \/ EndRestart(c)
    \/ RefreshStopped(c) \/ RefreshCleared(c)

Next ==
    \/ Dispatch \/ Sent
    \/ \E m \in Messages : Publish(m) \/ Requeue(m)
    \/ \E x \in Makers : Start(x) \/ Finish(x) \/ Fail(x)
    \/ \E c \in Calls : AskRestart(c) \/ AskRefresh(c) \/ Ensure(c) \/ Step(c)

Spec == Init /\ [][Next]_vars

\* send() returns, sleeping tasks wake, tasks of the event loop run, stop()
\* returns or raises.  Nobody must publish, restart or refresh, and a channel
\* need never come back.
Fairness ==
    /\ WF_vars(Dispatch) /\ WF_vars(Sent)
    /\ \A m \in Messages : WF_vars(Requeue(m))
    /\ \A x \in Makers : WF_vars(Start(x))
    /\ \A c \in Calls : WF_vars(Step(c))

FairSpec == Spec /\ Fairness

-----------------------------------------------------------------------------
(* Properties *)

\* Every variable keeps its type, the queue its bound and a message its number
\* of retries (bus/queue.py:35, manager.py:580).
TypeOK ==
    /\ queue \in Seq(Messages) /\ Len(queue) <= Capacity
    /\ dispatcher \in {"running", "dead"}
    /\ hand \in Messages \union {None}
    /\ retrying \subseteq Messages
    /\ tries \in [Messages -> 0..MaxTries]
    /\ outcome \in [Messages -> Outcomes]
    /\ channel \in Makers \union {None}
    /\ configured \in BOOLEAN /\ available \in BOOLEAN /\ error \in BOOLEAN
    /\ up \in [Makers -> BOOLEAN]
    /\ task \in [Makers -> {"none", "spawned", "running", "done"}]
    /\ owner \in [Makers -> Makers \union {None}]
    /\ tracked \in Makers \union {None}
    /\ call \in [Calls -> Phases]
    /\ target \in [Calls -> Makers \union {None}]
    /\ reap \in [Calls -> Makers \union {None}]
    /\ puts \in 0..MaxMessages /\ handed \in Seq(Messages)
    /\ blemish \in BOOLEAN /\ overlap \in BOOLEAN /\ failures \in 0..MaxFailures

\* A message is given to send() at most once, however often it was requeued
\* and whatever send() did with it (manager.py:684).
HandedOnce ==
    \A i, j \in 1..Len(handed) : handed[i] = handed[j] => i = j

\* Only a message that was requeued is overtaken by one put later, so the parts
\* of an answer arrive in order as long as the channel is there
\* (manager.py:603).
OvertakenIfRequeued ==
    \A k, l \in 1..Len(handed) : k < l /\ handed[l] < handed[k] => tries[handed[l]] > 0

\* A message is given up only while the channel could not have sent it, or
\* after a start() has raised since the object was built (a restart that
\* succeeds leaves the channel unavailable then), or after a refresh or
\* ensure_channel ran beside another call (manager.py:303, :566).
GivenUpForCause ==
    [][\A m \in Messages :
          outcome[m] = "none" /\ outcome'[m] = "dead"
              => LockHeld \/ channel = None \/ ~up[channel] \/ blemish \/ overlap]_vars

\* Unless a refresh or ensure_channel runs beside another call, at most one
\* start() of the channel runs, it is that of the registered object, and none
\* runs when no object is registered and no refresh is about to end it
\* (manager.py:225, :409).
OneListener ==
    overlap \/ Refreshing \/
    \A x \in Makers : Alive(x) => x = tracked /\ owner[x] = channel

\* A message that was put is sent, or ends some other way, unless the
\* dispatcher has died of a stray message (manager.py:620).
MessagesEnd ==
    \A m \in Messages :
        (m <= puts) ~> (outcome[m] # "none" \/ dispatcher = "dead")
=============================================================================
