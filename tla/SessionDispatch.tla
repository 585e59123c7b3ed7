--------------------------- MODULE SessionDispatch ---------------------------
(***************************************************************************)
(* How the agent loop (agent/loop.py) schedules turns.  Every inbound      *)
(* message becomes an asyncio task, a turn; web routes, cron and the CLI   *)
(* start turns of their own (process_direct).  A turn takes its session's  *)
(* lock from an LRU table of locks, a follow-up of the user cancels the    *)
(* turns before it and waits for them, and /stop does the same.            *)
(*                                                                         *)
(* One step is what the event loop runs between two awaits that suspend.   *)
(* Task.cancel() only marks a turn: the turn learns it when it next runs.  *)
(* A turn that awaits another passes the cancellation on to that one, and  *)
(* the `except CancelledError: pass` around the await hides it.            *)
(***************************************************************************)
EXTENDS Naturals, Sequences, FiniteSets

CONSTANTS
    Sessions, Turns, Stops,
    SessionOf,     \* the session of each turn and stop
    Corrections,   \* turns whose message interrupts the session's running work
    Directs,       \* turns started by process_direct
    ChatStops,     \* stops read from the bus; the others come from a web route
    MaxLocks,      \* _MAX_SESSION_LOCKS
    MaxScan,       \* locks one eviction looks at
    None

ASSUME TurnsAssumption ==
    /\ SessionOf \in [Turns \union Stops -> Sessions]
    /\ Corrections \subseteq Turns \ Directs
    /\ Directs \subseteq Turns
    /\ ChatStops \subseteq Stops
    /\ None \notin Turns
ASSUME LocksAssumption ==
    /\ IsFiniteSet(Sessions)
    /\ MaxLocks \in Nat
    /\ MaxScan \in Nat

VARIABLES
    pc,        \* where a turn is
    cancel,    \* turns with a cancellation to deliver
    awaits,    \* the turns an interrupting turn still has to await
    task,      \* the status of a turn's ledger task
    ready,     \* tasks created and not yet run, oldest first
    active,    \* _active_tasks, lists in the order of arrival
    lockOf,    \* _session_locks; a lock is named after the turn that made it
    order,     \* _session_lock_order
    lock,      \* the lock a turn holds or waits for
    waiters,   \* turns waiting for locks, oldest first
    stop,      \* where a stop is
    targets,   \* the turns a stop awaits
    arrivals,  \* turns in the order they arrived
    \* for the properties
    aimed      \* the session's unfinished turns when a stop was handled

turnVars == <<pc, cancel, awaits, task, ready, active>>
lockVars == <<lockOf, order, lock, waiters>>
stopVars == <<stop, targets, aimed>>
vars     == <<turnVars, lockVars, stopVars, arrivals>>

Phases   == {"absent", "spawned", "interrupting", "waiting", "running", "ending", "done"}
Statuses == {"none", "running", "settled", "failed", "abandoned"}

TypeOK ==
    /\ pc \in [Turns -> Phases]
    /\ cancel \subseteq Turns
    /\ awaits \in [Turns -> SUBSET Turns]
    /\ task \in [Turns -> Statuses]
    /\ ready \in Seq(Turns)
    /\ active \in [Sessions -> SUBSET Turns]
    /\ lockOf \in [Sessions -> Turns \union {None}]
    /\ order \in Seq(Sessions)
    /\ lock \in [Turns -> Turns \union {None}]
    /\ waiters \in Seq(Turns)
    /\ stop \in [Stops -> {"absent", "waiting", "answered"}]
    /\ targets \in [Stops -> SUBSET Turns]
    /\ arrivals \in Seq(Turns)
    /\ aimed \in [Stops -> SUBSET Turns]

Init ==
    /\ pc = [t \in Turns |-> "absent"]
    /\ cancel = {}
    /\ awaits = [t \in Turns |-> {}]
    /\ task = [t \in Turns |-> "none"]
    /\ ready = <<>>
    /\ active = [s \in Sessions |-> {}]
    /\ lockOf = [s \in Sessions |-> None]
    /\ order = <<>>
    /\ lock = [t \in Turns |-> None]
    /\ waiters = <<>>
    /\ stop = [x \in Stops |-> "absent"]
    /\ targets = [x \in Stops |-> {}]
    /\ arrivals = <<>>
    /\ aimed = [x \in Stops |-> {}]

-----------------------------------------------------------------------------
(* Helpers *)

Elems(seq) == {seq[i] : i \in DOMAIN seq}

\* list.remove, which the code calls for members only.
Without(seq, x) ==
    IF x \in Elems(seq)
    THEN LET i == CHOOSE i \in DOMAIN seq : seq[i] = x
         IN  SubSeq(seq, 1, i - 1) \o SubSeq(seq, i + 1, Len(seq))
    ELSE seq

\* The members of seq that are in set, in the order of seq.
Kept(seq, set) ==
    LET at     == {i \in DOMAIN seq : seq[i] \in set}
        nth(k) == CHOOSE i \in at : Cardinality({j \in at : j < i}) = k - 1
    IN  [k \in 1..Cardinality(at) |-> seq[nth(k)]]

Before(t, u) ==
    \E i, j \in DOMAIN arrivals : i < j /\ arrivals[i] = t /\ arrivals[j] = u

\* The turn of ts that arrived first.
First(ts) == CHOOSE t \in ts : \A u \in ts \ {t} : Before(t, u)

Unfinished(t) == pc[t] \notin {"absent", "done"}
InTurn(t)     == pc[t] \in {"running", "ending"}

\* Mutant of Locked: nobody gives the lock back.
LockedForGood(l) == \E t \in Turns : lock[t] = l /\ (InTurn(t) \/ pc[t] = "done")

Locked(l) == \E t \in Turns : lock[t] = l /\ InTurn(t)

\* handle_stop runs in the loop that consumes the bus: while it awaits the
\* turns it cancelled, no message is consumed.
LoopBlocked == \E x \in ChatStops : stop[x] = "waiting"

\* Mutant of Deliver: only turns that run are cancelled.
DeliverToRunning(ts) == cancel \union {t \in ts : InTurn(t)}

\* Turn t hands a cancellation on to the turn it awaits.
Passes(t) == pc[t] = "interrupting" /\ pc[First(awaits[t])] # "done"

\* Where Task.cancel() on the turns of ts gets to along the chains of awaits.
Reached(ts) ==
    {u \in Turns : \A closed \in SUBSET Turns :
        ts \subseteq closed /\ (\A t \in closed : Passes(t) => First(awaits[t]) \in closed)
            => u \in closed}

\* The marks once every turn of ts is cancelled.  An interrupting turn keeps
\* none: it hands the cancellation on, or swallows it.
Deliver(ts) ==
    cancel \union {u \in Reached(ts) : pc[u] \notin {"interrupting", "done"}}

-----------------------------------------------------------------------------
(* The table of session locks *)

Held(table) == {s \in Sessions : table[s] # None}

IdleLock(s) == ~Locked(lockOf[s])

\* The part of the LRU order that an eviction of `excess` locks goes through:
\* up to the last victim, or all it may look at.
Scanned(excess) ==
    LET cap     == IF Len(order) < MaxScan THEN Len(order) ELSE MaxScan
        idle(n) == Cardinality({i \in 1..n : IdleLock(order[i])})
    IN  SubSeq(order, 1, Cardinality({i \in 1..cap : idle(i - 1) < excess}))

\* Mutant of Evicted: the busy locks it meets are dropped from the order.
EvictedForgets(table) ==
    LET scanned == Scanned(Cardinality(Held(table)) - MaxLocks)
    IN  [table |-> [s \in Sessions |->
                      IF s \in Elems(scanned) /\ IdleLock(s) THEN None ELSE table[s]],
         order |-> SubSeq(order, Len(scanned) + 1, Len(order))]

\* _evict_idle_session_locks: the oldest idle locks go, the busy ones met on
\* the way move to the end of the order.
Evicted(table) ==
    LET scanned == Scanned(Cardinality(Held(table)) - MaxLocks)
    IN  [table |-> [s \in Sessions |->
                      IF s \in Elems(scanned) /\ IdleLock(s) THEN None ELSE table[s]],
         order |-> SubSeq(order, Len(scanned) + 1, Len(order))
                     \o Kept(scanned, {s \in Sessions : ~IdleLock(s)})]

\* Mutant of TableFor: every turn brings a lock of its own.
TableFresh(t) == [table |-> [lockOf EXCEPT ![SessionOf[t]] = t], order |-> order]

\* The table and its order once turn t's session has a lock in it.
TableFor(t) ==
    LET grown == [lockOf EXCEPT ![SessionOf[t]] = t]
    IN  IF lockOf[SessionOf[t]] # None THEN [table |-> lockOf, order |-> order]
        ELSE IF Cardinality(Held(grown)) > MaxLocks THEN Evicted(grown)
        ELSE [table |-> grown, order |-> order]

\* Mutant of MayTake: a free lock goes to whoever asks, whoever is waiting.
MayTakeFree(l) == ~Locked(l)

\* asyncio.Lock.acquire takes the lock at once: it is free and every waiter
\* has been cancelled.
MayTake(l) ==
    /\ ~Locked(l)
    /\ \A i \in DOMAIN waiters : lock[waiters[i]] = l => waiters[i] \in cancel

\* Turn t gets a lock and takes it, or starts to wait for it.
RequestLock(t) ==
    LET left == TableFor(t)
        mine == left.table[SessionOf[t]]
    IN  /\ lockOf' = left.table
        /\ order' = Append(Without(left.order, SessionOf[t]), SessionOf[t])
        /\ lock' = [lock EXCEPT ![t] = mine]
        /\ IF MayTake(mine)
           THEN pc' = [pc EXCEPT ![t] = "running"] /\ UNCHANGED waiters
           ELSE pc' = [pc EXCEPT ![t] = "waiting"] /\ waiters' = Append(waiters, t)

-----------------------------------------------------------------------------
(* Turns *)

\* run: a message is consumed and _spawn_dispatch_task creates its task.
Arrive(t) ==
    /\ pc[t] = "absent"
    /\ t \notin Directs
    /\ ~LoopBlocked
    /\ pc' = [pc EXCEPT ![t] = "spawned"]
    /\ ready' = Append(ready, t)
    /\ active' = [active EXCEPT ![SessionOf[t]] = @ \union {t}]
    /\ arrivals' = Append(arrivals, t)
    /\ UNCHANGED <<cancel, awaits, task, lockVars, stopVars>>

\* process_direct, up to its lock.  The ledger task is made under the lock.
Direct(t) ==
    /\ pc[t] = "absent"
    /\ t \in Directs
    /\ RequestLock(t)
    /\ task' = [task EXCEPT ![t] = IF pc'[t] = "running" THEN "running" ELSE "none"]
    /\ active' = [active EXCEPT ![SessionOf[t]] = @ \union {t}]
    /\ arrivals' = Append(arrivals, t)
    /\ UNCHANGED <<cancel, awaits, ready, stopVars>>

\* _dispatch, up to the lock: ensure_task comes first.
Dispatch(t) ==
    /\ RequestLock(t)
    /\ task' = [task EXCEPT ![t] = "running"]
    /\ awaits' = [awaits EXCEPT ![t] = {}]

\* The session's other turns.
Others(t) == active[SessionOf[t]] \ {t}

\* _dispatch_entry of a turn cancelled before it ran: none of it is executed.
NeverRun(t) ==
    /\ t \in cancel
    /\ pc' = [pc EXCEPT ![t] = "done"]
    /\ active' = [active EXCEPT ![SessionOf[t]] = @ \ {t}]
    /\ UNCHANGED <<cancel, awaits, task, lockVars>>

\* _cancel_session_work for a correction: t keeps itself in _active_tasks,
\* cancels the others and starts to await them.
Interrupt(t) ==
    /\ t \notin cancel
    /\ t \in Corrections
    /\ Others(t) # {}
    /\ pc' = [pc EXCEPT ![t] = "interrupting"]
    /\ cancel' = Deliver(Others(t))
    /\ awaits' = [awaits EXCEPT ![t] = Others(t)]
    /\ active' = [active EXCEPT ![SessionOf[t]] = @ \intersect {t}]
    /\ UNCHANGED <<task, lockVars>>

\* _dispatch_entry with nothing to interrupt.
DispatchAtOnce(t) ==
    /\ t \notin cancel
    /\ t \notin Corrections \/ Others(t) = {}
    /\ Dispatch(t)
    /\ UNCHANGED <<cancel, active>>

\* The oldest task that has not run yet takes its first step.
Start ==
    /\ ready # <<>>
    /\ LET t == Head(ready) IN NeverRun(t) \/ Interrupt(t) \/ DispatchAtOnce(t)
    /\ ready' = Tail(ready)
    /\ UNCHANGED <<stopVars, arrivals>>

\* The turn that t awaits has ended: t awaits the next one or dispatches.
Resume(t) ==
    /\ pc[t] = "interrupting"
    /\ pc[First(awaits[t])] = "done"
    /\ LET left == {u \in awaits[t] : Unfinished(u)}
       IN  \/ /\ left # {}
              /\ awaits' = [awaits EXCEPT ![t] = left]
              /\ UNCHANGED <<pc, task, lockVars>>
           \/ /\ left = {}
              /\ Dispatch(t)
    /\ UNCHANGED <<cancel, ready, active, stopVars, arrivals>>

\* The waiters without t: asyncio.Lock.acquire removes its future either way.
DropWaiter(t) == Without(waiters, t)

\* A free lock goes to the first turn that waits for it.
Acquire(t) ==
    /\ pc[t] = "waiting"
    /\ t \notin cancel
    /\ ~Locked(lock[t])
    /\ \E i \in DOMAIN waiters :
          /\ waiters[i] = t
          /\ \A j \in 1..(i - 1) : lock[waiters[j]] # lock[t]
    /\ waiters' = DropWaiter(t)
    /\ pc' = [pc EXCEPT ![t] = "running"]
    /\ task' = [task EXCEPT ![t] = "running"]
    /\ UNCHANGED <<cancel, awaits, ready, active, lockOf, order, lock, stopVars, arrivals>>

\* Turn t ends: its done callback takes it out of _active_tasks.
Leave(t) ==
    /\ pc' = [pc EXCEPT ![t] = "done"]
    /\ active' = [active EXCEPT ![SessionOf[t]] = @ \ {t}]

\* _process_message returned and the gate ran; publish_outbound may have to
\* wait for room in the queue.  process_direct publishes nothing.
Conclude(t) ==
    /\ pc[t] = "running"
    /\ t \notin cancel
    /\ task' = [task EXCEPT ![t] = "settled"]
    /\ \/ Leave(t)
       \/ /\ t \notin Directs
          /\ pc' = [pc EXCEPT ![t] = "ending"]
          /\ UNCHANGED active
    /\ UNCHANGED <<cancel, awaits, ready, lockVars, stopVars, arrivals>>

\* _process_message raised: process_direct fails the task and raises,
\* _dispatch first awaits the reflection on the failure.
Err(t) ==
    /\ pc[t] = "running"
    /\ t \notin cancel
    /\ \/ /\ t \in Directs
          /\ task' = [task EXCEPT ![t] = "failed"]
          /\ Leave(t)
       \/ /\ t \notin Directs
          /\ pc' = [pc EXCEPT ![t] = "ending"]
          /\ UNCHANGED <<task, active>>
    /\ UNCHANGED <<cancel, awaits, ready, lockVars, stopVars, arrivals>>

\* What an ending turn awaits is over: the reflection, after which the task
\* fails and the error is published, or the publication.
Close(t) ==
    /\ pc[t] = "ending"
    /\ t \notin cancel
    /\ task' = [task EXCEPT ![t] = IF @ = "running" THEN "failed" ELSE @]
    /\ \/ Leave(t)
       \/ task[t] = "running" /\ UNCHANGED <<pc, active>>
    /\ UNCHANGED <<cancel, awaits, ready, lockVars, stopVars, arrivals>>

\* Mutant of CancelStatus: the stage written as the status.
CancelStatusStage(t) == IF pc[t] = "running" THEN "cancelled" ELSE task[t]

\* The task's status once turn t has been cancelled.  The handler covers the
\* call of _process_message and what follows it, neither the wait for the lock
\* nor the handler of other errors.
CancelStatus(t) ==
    IF pc[t] = "running" \/ (pc[t] = "ending" /\ task[t] = "settled")
    THEN "abandoned"
    ELSE task[t]

\* A cancellation reaches a turn that waits for its lock or holds it.
Cancelled(t) ==
    /\ t \in cancel
    /\ pc[t] \in {"waiting", "running", "ending"}
    /\ Leave(t)
    /\ task' = [task EXCEPT ![t] = CancelStatus(t)]
    /\ waiters' = DropWaiter(t)
    /\ UNCHANGED <<cancel, awaits, ready, lockOf, order, lock, stopVars, arrivals>>

-----------------------------------------------------------------------------
(* Stops *)

\* Mutant of StopTargets: the stop awaits no one.
StopTargetsNone(x) == {}

\* The turns that a stop cancels and awaits.
StopTargets(x) == active[SessionOf[x]]

\* _handle_stop, up to its first await that suspends.
Stop(x) ==
    /\ stop[x] = "absent"
    /\ x \in ChatStops => ~LoopBlocked
    /\ cancel' = Deliver(active[SessionOf[x]])
    /\ active' = [active EXCEPT ![SessionOf[x]] = {}]
    /\ targets' = [targets EXCEPT ![x] = StopTargets(x)]
    /\ stop' = [stop EXCEPT ![x] = IF StopTargets(x) = {} THEN "answered" ELSE "waiting"]
    /\ aimed' = [aimed EXCEPT ![x] =
                   {t \in Turns : SessionOf[t] = SessionOf[x] /\ Unfinished(t)}]
    /\ UNCHANGED <<pc, awaits, task, ready, lockVars, arrivals>>

\* Every turn it awaited has ended: the stop is answered.
AnswerStop(x) ==
    /\ stop[x] = "waiting"
    /\ \A t \in targets[x] : pc[t] = "done"
    /\ stop' = [stop EXCEPT ![x] = "answered"]
    /\ UNCHANGED <<turnVars, lockVars, targets, aimed, arrivals>>

-----------------------------------------------------------------------------

TurnEnds(t) == Conclude(t) \/ Err(t) \/ Close(t)

Next ==
    \/ Start
    \/ \E t \in Turns : \/ Arrive(t) \/ Direct(t) \/ Resume(t) \/ Acquire(t)
                        \/ Conclude(t) \/ Err(t) \/ Close(t) \/ Cancelled(t)
    \/ \E x \in Stops : Stop(x) \/ AnswerStop(x)

\* The event loop runs every step that is ready.
LoopFairness ==
    /\ WF_vars(Start)
    /\ \A t \in Turns : WF_vars(Resume(t)) /\ WF_vars(Acquire(t)) /\ WF_vars(Cancelled(t))
    /\ \A x \in Stops : WF_vars(AnswerStop(x))

\* A turn ends by itself: max_iterations, timeouts of providers and tools.
EndFairness == \A t \in Turns : WF_vars(TurnEnds(t))

Spec     == Init /\ [][Next]_vars
\* Turns that may take as long as they like.
LoopSpec == Spec /\ LoopFairness
FairSpec == LoopSpec /\ EndFairness

-----------------------------------------------------------------------------
(* Safety *)

\* Two turns of a session never run at the same time: "Process a message under
\* a per-session lock" (_dispatch).  It takes a table that never evicts.
MutualExclusion ==
    \A t, u \in Turns :
        InTurn(t) /\ InTurn(u) /\ SessionOf[t] = SessionOf[u] => t = u

\* A turn that has not ended is in _active_tasks, or whoever took it out of
\* there (a correction or a stop) still awaits it: the chain of awaits from the
\* tracked turns and the waiting stops loses nobody.
NobodyLost ==
    \A t \in Turns : Unfinished(t) =>
        \/ t \in active[SessionOf[t]]
        \/ \E u \in Turns : pc[u] = "interrupting" /\ t \in awaits[u]
        \/ \E x \in Stops : stop[x] = "waiting" /\ t \in targets[x]

\* Once a stop is answered no turn that it found in the session is alive, not
\* even one that an earlier correction had taken out of _active_tasks, unless
\* another stop still awaits it.
StopLeavesNothing ==
    \A x \in Stops : stop[x] = "answered" =>
        \A t \in aimed[x] : Unfinished(t) =>
            \E y \in Stops : stop[y] = "waiting" /\ t \in aimed[y]

\* A turn that a stop found in the session, and that was not yet running, never
\* starts to run: the user stopped it before it did anything.
StoppedNeverRuns ==
    [][\A x \in Stops : \A t \in aimed[x] : pc[t] # "running" => pc'[t] # "running"]_vars

\* The messages of a session run in the order they arrived: a turn starts to
\* run only when the earlier ones of its kind have ended or were cancelled.
ArrivalOrder ==
    [][\A t, u \in Turns :
         /\ SessionOf[t] = SessionOf[u]
         /\ t \in Directs <=> u \in Directs
         /\ Before(t, u)'
         /\ pc[u] # "running" /\ pc'[u] = "running"
         => pc[t] = "done" \/ t \in cancel]_vars

\* The LRU order lists exactly the sessions that have a lock, each once: the
\* eviction can reach every lock and finds no session without one.
OrderMatchesLocks ==
    /\ Elems(order) = Held(lockOf)
    /\ Len(order) = Cardinality(Elems(order))

-----------------------------------------------------------------------------
(* Liveness *)

\* A stop is answered however long the session's turns would have taken.
StopAnswers == \A x \in Stops : stop[x] = "waiting" ~> stop[x] = "answered"

\* Every turn that arrives ends: no two turns await each other, no lock is
\* left behind by a turn that was cancelled.
TurnsEnd == \A t \in Turns : Unfinished(t) ~> pc[t] = "done"
=============================================================================
