--------------------------- MODULE OutboundProofs ---------------------------
(***************************************************************************)
(* What Outbound guarantees for every number of messages and calls and     *)
(* every capacity: its types, that a message is sent once and overtaken    *)
(* only after it was requeued, that none gets lost, that it is given up    *)
(* for a cause, and that a channel has one listener.                       *)
(***************************************************************************)
EXTENDS Outbound, TLAPS

MailStep(m) ==
    Publish(m) \/ TakeStray(m) \/ Postpone(m) \/ Drop(m) \/ Send(m) \/ Requeue(m)

TaskStep(x) == Start(x) \/ Finish(x) \/ Fail(x)

CallStep(c) == AskRestart(c) \/ AskRefresh(c) \/ Ensure(c) \/ Step(c)

\* Next by the part of the state that a step changes.
LEMMA NextCases ==
    Next => \/ Sent
            \/ \E m \in Messages : MailStep(m)
            \/ \E x \in Makers : TaskStep(x)
            \/ \E c \in Calls : CallStep(c)
BY DEF Next, Dispatch, MailStep, TaskStep, CallStep

-----------------------------------------------------------------------------
(* Types *)

MailType ==
    /\ queue \in Seq(Messages) /\ Len(queue) <= Capacity
    /\ hand \in Messages \union {None}
    /\ retrying \subseteq Messages
    /\ tries \in [Messages -> 0..MaxTries]
    /\ outcome \in [Messages -> Outcomes]
    /\ puts \in 0..MaxMessages /\ handed \in Seq(Messages)

StatusType ==
    /\ dispatcher \in {"running", "dead"}
    /\ configured \in BOOLEAN /\ available \in BOOLEAN /\ error \in BOOLEAN
    /\ blemish \in BOOLEAN /\ overlap \in BOOLEAN /\ failures \in 0..MaxFailures

TaskType ==
    /\ channel \in Makers \union {None}
    /\ up \in [Makers -> BOOLEAN]
    /\ task \in [Makers -> {"none", "spawned", "running", "done"}]
    /\ owner \in [Makers -> Makers \union {None}]
    /\ tracked \in Makers \union {None}

CallType ==
    /\ call \in [Calls -> Phases]
    /\ target \in [Calls -> Makers \union {None}]
    /\ reap \in [Calls -> Makers \union {None}]

\* TypeOK is these four.
LEMMA TypeParts == TypeOK <=> MailType /\ StatusType /\ TaskType /\ CallType
BY DEF TypeOK, MailType, StatusType, TaskType, CallType

\* Calls and the start of the program are makers of tasks and objects.
LEMMA MakersHold == Boot \in Makers /\ Calls \subseteq Makers /\ None \notin Makers
BY OutboundAssumption DEF Boot, Makers, Calls

\* Types hold at first.
LEMMA TypeInit == Init => TypeOK
<1> SUFFICES ASSUME Init PROVE TypeOK
  OBVIOUS
<1> USE OutboundAssumption, MakersHold DEF Init
<1>1. MailType
  BY DEF MailType, Outcomes
<1>2. StatusType
  <2>1. failures \in 0..MaxFailures
    OBVIOUS
  <2> QED
    BY <2>1, Zenon DEF StatusType
<1>3. TaskType
  BY DEF TaskType
<1>4. CallType
  BY DEF CallType, Phases
<1> QED
  BY <1>1, <1>2, <1>3, <1>4, TypeParts

\* A step of the mail keeps its types.
LEMMA MailTypeNext == MailType /\ StatusType /\ [Next]_vars => MailType'
<1> SUFFICES ASSUME MailType, StatusType, [Next]_vars PROVE MailType'
  OBVIOUS
<1> USE OutboundAssumption DEF MailType, Outcomes
<1>1. CASE Sent
  BY <1>1 DEF Sent, AfterSend
<1>2. ASSUME NEW m \in Messages, MailStep(m) PROVE MailType'
  <2>1. CASE Publish(m)
    BY <2>1 DEF Publish, Room, Messages
  <2>2. CASE Requeue(m)
    BY <2>2 DEF Requeue, Room
  <2>3. ASSUME Taken(m) PROVE queue' \in Seq(Messages) /\ Len(queue') <= Capacity
    BY <2>3 DEF Taken
  <2>4. CASE TakeStray(m)
    BY <2>3, <2>4 DEF TakeStray
  <2>5. CASE Postpone(m)
    <3>1. queue' \in Seq(Messages) /\ Len(queue') <= Capacity
      BY <2>3, <2>5 DEF Postpone
    <3>2. tries' \in [Messages -> 0..MaxTries] /\ retrying' \subseteq Messages
      BY <2>5 DEF Postpone, Tries
    <3>3. outcome' \in [Messages -> {"none", "sent", "failed", "unrouted", "dead", "lost"}]
      BY <2>5 DEF Postpone
    <3> QED
      BY <2>5, <3>1, <3>2, <3>3 DEF Postpone
  <2>6. CASE Drop(m)
    BY <2>3, <2>6 DEF Drop
  <2>7. CASE Send(m)
    BY <2>3, <2>7 DEF Send
  <2> QED
    BY <1>2, <2>1, <2>2, <2>4, <2>5, <2>6, <2>7 DEF MailStep
<1>3. CASE UNCHANGED <<mail, hand, puts, handed>>
  BY <1>3 DEF mail
<1>4. ASSUME NEW x \in Makers, TaskStep(x) PROVE UNCHANGED <<mail, hand, puts, handed>>
  BY <1>4 DEF TaskStep, Start, Finish, Fail, Unmailed
<1>5. ASSUME NEW c \in Calls, CallStep(c) PROVE UNCHANGED <<mail, hand, puts, handed>>
  BY <1>5 DEF CallStep, AskRestart, AskRefresh, Ensure, Step, BeginRestart,
     RestartStopped, Respawn, EndRestart, RefreshStopped, RefreshCleared, Unmailed
<1> QED
  BY <1>1, <1>2, <1>3, <1>4, <1>5, NextCases DEF vars

\* A step of the mail leaves the channel and its tasks alone.
LEMMA MailKeepsLife ==
    ASSUME NEW m \in Messages, MailStep(m) PROVE UNCHANGED life
BY DEF MailStep, Publish, TakeStray, Postpone, Drop, Send, Requeue

\* Registering an object, and the second half of a refresh, keep the types.
LEMMA RebuildTypes ==
    ASSUME StatusType, TaskType, CallType, NEW c \in Calls,
           NEW t \in [Makers -> {"none", "spawned", "running", "done"}],
           NEW kept \in Makers \union {None},
           Return(c),
           \/ Rebuild(c, t, kept)
           \/ Register(c, t),
           up' \in [Makers -> BOOLEAN], overlap' \in BOOLEAN, failures' \in 0..MaxFailures
    PROVE  StatusType' /\ TaskType' /\ CallType'
<1> USE MakersHold
<1>1. CallType'
  BY DEF CallType, Return, Phases
<1>2. CASE Register(c, t)
  <2>1. TaskType'
    BY <1>2 DEF TaskType, Register, Spawn
  <2> QED
    BY <1>1, <1>2, <2>1, Zenon DEF StatusType, Register
<1>3. ASSUME Rebuild(c, t, kept), ~Register(c, t) PROVE StatusType' /\ TaskType'
  <2>1. TaskType'
    BY <1>3 DEF TaskType, Rebuild
  <2>2. UNCHANGED <<dispatcher, blemish>>
    BY <1>3 DEF Rebuild
  <2>3. configured' \in BOOLEAN /\ available' \in BOOLEAN /\ error' \in BOOLEAN
    BY <1>3, Zenon DEF Rebuild
  <2> QED
    BY <2>1, <2>2, <2>3, Zenon DEF StatusType
<1> QED
  BY <1>1, <1>2, <1>3

\* Reaping a task keeps the types.
LEMMA ReapedType ==
    ASSUME TaskType, NEW x
    PROVE  Reaped(task, x) \in [Makers -> {"none", "spawned", "running", "done"}]
BY DEF Reaped, TaskType

\* A step of the life of the channel keeps its types.
LEMMA LifeTypeNext ==
    StatusType /\ TaskType /\ CallType /\ [Next]_vars
        => StatusType' /\ TaskType' /\ CallType'
<1> DEFINE Types == StatusType /\ TaskType /\ CallType
<1> SUFFICES ASSUME Types, [Next]_vars PROVE Types'
  OBVIOUS
<1> USE OutboundAssumption, MakersHold
<1>1. CASE UNCHANGED <<dispatcher, life>>
  BY <1>1 DEF StatusType, TaskType, CallType, life, status, tasks, calls
<1>2. CASE Sent
  BY <1>1, <1>2 DEF Sent
<1>3. ASSUME NEW m \in Messages, MailStep(m) PROVE Types'
  <2>1. dispatcher' \in {"running", "dead"}
    BY <1>3 DEF MailStep, Publish, TakeStray, Postpone, Drop, Send, Requeue, StatusType
  <2>2. UNCHANGED life
    BY <1>3, MailKeepsLife
  <2> QED
    BY <2>1, <2>2, Zenon DEF StatusType, TaskType, CallType, life, status, tasks, calls
<1>4. ASSUME NEW x \in Makers, TaskStep(x) PROVE Types'
  <2>1. CallType'
    BY <1>4 DEF TaskStep, Start, Finish, Fail, CallType, calls
  <2>2. TaskType'
    BY <1>4 DEF TaskStep, Start, Finish, Fail, TaskType, tasks
  <2>3. failures' \in 0..MaxFailures
    BY <1>4 DEF TaskStep, Start, Finish, Fail, StatusType, status
  <2> QED
    BY <1>4, <2>1, <2>2, <2>3, Zenon DEF TaskStep, Start, Finish, Fail, StatusType, status
<1>5. ASSUME NEW c \in Calls, CallStep(c) PROVE Types'
  <2>1. CASE AskRestart(c)
    BY <2>1, Zenon DEF AskRestart, StatusType, TaskType, CallType, status, tasks, Phases
  <2>2. CASE BeginRestart(c)
    BY <2>2 DEF BeginRestart, StatusType, TaskType, CallType, status, Phases
  <2>3. CASE RestartStopped(c)
    BY <2>3 DEF RestartStopped, Return, StatusType, TaskType, CallType, status, tasks, Phases
  <2>4. CASE Respawn(c)
    BY <2>4, ReapedType DEF Respawn, Spawn, StatusType, TaskType, CallType, status, Phases
  <2>5. CASE EndRestart(c)
    BY <2>5 DEF EndRestart, Return, StatusType, TaskType, CallType, status, tasks, Phases
  <2>6. CASE AskRefresh(c) /\ channel # None
    <3>1. CallType'
      <4>1. call' \in [Calls -> Phases]
        BY <2>6 DEF AskRefresh, CallType, Phases
      <4>2. target' \in [Calls -> Makers \union {None}] /\ reap' = reap
        BY <2>6 DEF AskRefresh, CallType, TaskType
      <4> QED
        BY <4>1, <4>2 DEF CallType
    <3>2. TaskType'
      <4>1. up' = [up EXCEPT ![channel] = FALSE]
        BY <2>6 DEF AskRefresh
      <4>2. channel' = None /\ UNCHANGED <<task, owner, tracked>>
        BY <2>6 DEF AskRefresh
      <4> QED
        BY <4>1, <4>2 DEF TaskType
    <3>3. UNCHANGED <<dispatcher, configured, available, error, blemish, failures>>
      BY <2>6 DEF AskRefresh, status
    <3>4. overlap' \in BOOLEAN
      BY <2>6, Zenon DEF AskRefresh
    <3> QED
      BY <3>1, <3>2, <3>3, <3>4, Zenon DEF StatusType
  <2>7. CASE AskRefresh(c) /\ channel = None
    <3>1. Return(c) /\ Rebuild(c, task, tracked) /\ UNCHANGED <<up, failures>>
      BY <2>7 DEF AskRefresh, Rebuild
    <3>2. overlap' \in BOOLEAN
      BY <2>7, Zenon DEF AskRefresh
    <3> QED
      BY <3>1, <3>2, RebuildTypes DEF StatusType, TaskType
  <2>8. CASE RefreshStopped(c) /\ Alive(tracked)
    <3>1. TaskType' /\ CallType'
      BY <2>8 DEF RefreshStopped, TaskType, CallType, Phases
    <3>2. failures' \in 0..MaxFailures
      BY <2>8 DEF RefreshStopped, StatusType
    <3> QED
      BY <2>8, <3>1, <3>2, Zenon DEF RefreshStopped, StatusType
  <2>9. CASE RefreshStopped(c) /\ ~Alive(tracked)
    BY <2>9, RebuildTypes DEF RefreshStopped, Rebuild, StatusType, TaskType
  <2>10. CASE RefreshCleared(c)
    BY <2>10, RebuildTypes, ReapedType DEF RefreshCleared, Rebuild, StatusType, TaskType
  <2>11. CASE Ensure(c)
    BY <2>11, RebuildTypes DEF Ensure, StatusType, TaskType
  <2> QED
    BY <1>5, <2>1, <2>2, <2>3, <2>4, <2>5, <2>6, <2>7, <2>8, <2>9, <2>10, <2>11
    DEF CallStep, Step
<1> QED
  BY <1>1, <1>2, <1>3, <1>4, <1>5, NextCases DEF vars

\* Every variable keeps its type, the queue its bound and a message its number
\* of retries.
THEOREM TypeCorrect == Spec => []TypeOK
<1>1. TypeOK /\ [Next]_vars => TypeOK'
  <2> SUFFICES ASSUME TypeOK, [Next]_vars PROVE TypeOK'
    OBVIOUS
  <2>1. MailType' /\ StatusType' /\ TaskType' /\ CallType'
    BY MailTypeNext, LifeTypeNext, TypeParts
  <2> QED
    BY <2>1 DEF TypeOK, MailType, StatusType, TaskType, CallType
<1> QED
  BY <1>1, TypeInit, PTL DEF Spec

-----------------------------------------------------------------------------
(* Messages: once, and in order unless requeued.                           *)
(* What is queued, sleeping before a retry and handed over are disjoint    *)
(* and without repetition, and whatever is behind a later message has been *)
(* requeued: both are needed of the queue for the handed to keep them.     *)

QueueOnce == \A i, j \in 1..Len(queue) : queue[i] = queue[j] => i = j

QueueFresh ==
    \A i \in 1..Len(queue) : queue[i] <= puts /\ queue[i] \notin retrying

RetryCounted == \A m \in retrying : m <= puts /\ tries[m] > 0

HandedGone ==
    \A k \in 1..Len(handed) :
        /\ handed[k] <= puts /\ handed[k] \notin retrying
        /\ \A i \in 1..Len(queue) : queue[i] # handed[k]

QueueOrder ==
    \A i, j \in 1..Len(queue) : i < j /\ queue[j] < queue[i] => tries[queue[j]] > 0

BehindHanded ==
    \A i \in 1..Len(queue), k \in 1..Len(handed) :
        queue[i] < handed[k] => tries[queue[i]] > 0

MailOrder ==
    /\ QueueOnce /\ QueueFresh /\ RetryCounted /\ HandedGone
    /\ HandedOnce /\ QueueOrder /\ BehindHanded /\ OvertakenIfRequeued

\* Nothing is anywhere at first.
LEMMA OrderInit == Init => MailOrder
BY DEF Init, MailOrder, QueueOnce, QueueFresh, RetryCounted, HandedGone,
   HandedOnce, QueueOrder, BehindHanded, OvertakenIfRequeued

\* A publication appends the greatest message.
LEMMA PublishOrder ==
    ASSUME MailType, MailOrder, NEW m \in Messages, Publish(m)
    PROVE  MailOrder'
<1> USE DEF MailOrder
<1>1. /\ m = puts + 1 /\ puts' = m /\ puts \in Nat
      /\ UNCHANGED <<retrying, tries, handed>>
  BY DEF Publish, MailType
<1>2. /\ Len(queue') = Len(queue) + 1
      /\ \A i \in 1..Len(queue') : queue'[i] = IF i <= Len(queue) THEN queue[i] ELSE m
      /\ Len(queue) \in Nat /\ \A i \in 1..Len(queue) : queue[i] \in Nat
      /\ Len(handed) \in Nat /\ \A k \in 1..Len(handed) : handed[k] \in Nat
  <2>1. /\ Len(queue') = Len(queue) + 1 /\ Len(queue) \in Nat
        /\ \A i \in 1..Len(queue') : queue'[i] = IF i <= Len(queue) THEN queue[i] ELSE m
    BY DEF Publish, MailType
  <2>2. \A i \in 1..Len(queue) : queue[i] \in Messages
    BY DEF MailType
  <2>3. Len(handed) \in Nat /\ \A k \in 1..Len(handed) : handed[k] \in Messages
    BY DEF MailType
  <2>4. Messages \subseteq Nat
    BY DEF Messages
  <2> QED
    BY <2>1, <2>2, <2>3, <2>4
<1>3. m \notin retrying /\ \A i \in 1..Len(queue) : queue[i] < m
  BY <1>1, <1>2 DEF QueueFresh, RetryCounted
<1>4. QueueOnce' /\ QueueFresh'
  BY <1>1, <1>2, <1>3, SMTT(30) DEF QueueOnce, QueueFresh
<1>5. RetryCounted' /\ HandedOnce' /\ OvertakenIfRequeued'
  BY <1>1, <1>2 DEF RetryCounted, HandedOnce, OvertakenIfRequeued, MailType, Messages
<1>6. HandedGone'
  BY <1>1, <1>2 DEF HandedGone
<1>7. QueueOrder'
  BY <1>1, <1>2, <1>3 DEF QueueOrder
<1>8. BehindHanded'
  BY <1>1, <1>2 DEF BehindHanded, HandedGone
<1> QED
  BY <1>4, <1>5, <1>6, <1>7, <1>8

\* A message that is requeued has a count.
LEMMA RequeueOrder ==
    ASSUME MailType, MailOrder, NEW m \in Messages, Requeue(m)
    PROVE  MailOrder'
<1> USE DEF MailOrder
<1>1. /\ m \in retrying /\ tries[m] > 0 /\ m <= puts
      /\ retrying' = retrying \ {m}
      /\ UNCHANGED <<tries, handed, puts>>
  BY DEF Requeue, RetryCounted
<1>2. /\ Len(queue') = Len(queue) + 1
      /\ \A i \in 1..Len(queue') : queue'[i] = IF i <= Len(queue) THEN queue[i] ELSE m
      /\ Len(queue) \in Nat /\ Len(handed) \in Nat
  BY DEF Requeue, MailType
<1>3. QueueOnce' /\ QueueFresh'
  BY <1>1, <1>2 DEF QueueOnce, QueueFresh
<1>4. RetryCounted' /\ HandedOnce' /\ OvertakenIfRequeued'
  BY <1>1 DEF RetryCounted, HandedOnce, OvertakenIfRequeued
<1>5. HandedGone'
  BY <1>1, <1>2 DEF HandedGone
<1>6. QueueOrder'
  BY <1>1, <1>2 DEF QueueOrder
<1>7. BehindHanded'
  BY <1>1, <1>2 DEF BehindHanded
<1> QED
  BY <1>3, <1>4, <1>5, <1>6, <1>7

\* What the queue is once its head m has been taken.
LEMMA TakenQueue ==
    ASSUME MailType, MailOrder, NEW m, Taken(m)
    PROVE  /\ Len(queue') = Len(queue) - 1 /\ Len(queue) \in Nat /\ Len(queue) > 0
           /\ \A i \in 1..Len(queue') : i + 1 \in 1..Len(queue) /\ queue'[i] = queue[i + 1]
           /\ m = queue[1] /\ m \in Messages /\ m <= puts /\ m \notin retrying
           /\ \A i \in 1..Len(queue') : queue'[i] # m
           /\ \A k \in 1..Len(handed) : handed[k] # m
<1>1. /\ Len(queue') = Len(queue) - 1 /\ Len(queue) \in Nat /\ Len(queue) > 0
      /\ \A i \in 1..Len(queue') : queue'[i] = queue[i + 1]
      /\ m = queue[1] /\ m \in Messages
  BY DEF Taken, MailType
<1>2. \A i \in 1..Len(queue') : i + 1 \in 1..Len(queue)
  BY <1>1
<1>3. 1 \in 1..Len(queue)
  BY <1>1
<1> QED
  BY <1>1, <1>2, <1>3 DEF MailOrder, QueueOnce, QueueFresh, HandedGone

\* Taking a message keeps the order of those that stay.
LEMMA TakenOrder ==
    ASSUME MailType, MailOrder, NEW m, Taken(m), UNCHANGED <<retrying, tries, handed, puts>>
    PROVE  MailOrder'
<1> USE TakenQueue DEF MailOrder
<1>1. QueueOnce' /\ QueueFresh' /\ HandedGone'
  BY DEF QueueOnce, QueueFresh, HandedGone
<1>2. RetryCounted' /\ HandedOnce' /\ OvertakenIfRequeued'
  BY DEF RetryCounted, HandedOnce, OvertakenIfRequeued
<1>3. QueueOrder' /\ BehindHanded'
  BY DEF QueueOrder, BehindHanded
<1> QED
  BY <1>1, <1>2, <1>3

\* A message that is to be retried gets a count, and no other changes.
LEMMA PostponeOrder ==
    ASSUME MailType, MailOrder, NEW m \in Messages, Postpone(m)
    PROVE  MailOrder'
<1>1. Taken(m) /\ UNCHANGED <<handed, puts>>
  BY DEF Postpone
<1>2. CASE UNCHANGED <<tries, retrying>>
  BY <1>1, <1>2, TakenOrder
<1>3. ASSUME tries' = [tries EXCEPT ![m] = Tries(m)], retrying' = retrying \union {m}
      PROVE  MailOrder'
  <2> USE <1>1, <1>3 DEF MailOrder
  <2>1. /\ \A n \in Messages : tries[n] \in Nat /\ (tries[n] > 0 => tries'[n] > 0)
        /\ tries'[m] > 0
    BY DEF MailType, Tries
  <2>2. QueueOnce' /\ QueueFresh' /\ HandedGone'
    BY TakenQueue, SMTT(30) DEF QueueOnce, QueueFresh, HandedGone
  <2>3. RetryCounted'
    BY <2>1, TakenQueue DEF RetryCounted, MailType
  <2>4. /\ \A i \in 1..Len(queue) : queue[i] \in Messages
        /\ \A k \in 1..Len(handed) : handed[k] \in Messages
    BY DEF MailType
  <2>5. HandedOnce' /\ OvertakenIfRequeued'
    BY <2>1, <2>4 DEF HandedOnce, OvertakenIfRequeued
  <2>6. QueueOrder'
    <3> SUFFICES ASSUME NEW i \in 1..Len(queue'), NEW j \in 1..Len(queue'),
                        i < j, queue'[j] < queue'[i]
                 PROVE  tries'[queue'[j]] > 0
      BY DEF QueueOrder
    <3>1. /\ i + 1 \in 1..Len(queue) /\ j + 1 \in 1..Len(queue) /\ i + 1 < j + 1
          /\ queue'[i] = queue[i + 1] /\ queue'[j] = queue[j + 1]
      BY TakenQueue, <1>1
    <3>2. tries[queue[j + 1]] > 0
      BY <3>1 DEF QueueOrder
    <3> QED
      BY <2>1, <2>4, <3>1, <3>2
  <2>7. BehindHanded'
    <3> SUFFICES ASSUME NEW i \in 1..Len(queue'), NEW k \in 1..Len(handed),
                        queue'[i] < handed[k]
                 PROVE  tries'[queue'[i]] > 0
      BY DEF BehindHanded
    <3>1. i + 1 \in 1..Len(queue) /\ queue'[i] = queue[i + 1]
      BY TakenQueue, <1>1
    <3> QED
      BY <2>1, <2>4, <3>1 DEF BehindHanded
  <2> QED
    BY <2>2, <2>3, <2>5, <2>6, <2>7
<1> QED
  BY <1>2, <1>3 DEF Postpone

\* A message that is handed over was in front of what is queued, and behind no
\* handed message unless it has been requeued.
LEMMA SendOrder ==
    ASSUME MailType, MailOrder, NEW m \in Messages, Send(m)
    PROVE  MailOrder'
<1> USE DEF MailOrder
<1>1. Taken(m) /\ UNCHANGED <<retrying, tries, puts>>
  BY DEF Send
<1>2. /\ Len(handed') = Len(handed) + 1 /\ Len(handed) \in Nat
      /\ \A k \in 1..Len(handed') : handed'[k] = IF k <= Len(handed) THEN handed[k] ELSE m
  BY DEF Send, MailType
<1> USE <1>1, <1>2, TakenQueue
<1>3. QueueOnce' /\ QueueFresh'
  BY DEF QueueOnce, QueueFresh
<1>4. HandedGone' /\ HandedOnce' /\ RetryCounted'
  BY DEF HandedGone, HandedOnce, RetryCounted
<1>5. QueueOrder'
  BY DEF QueueOrder
<1>6. \A i \in 1..Len(queue') : queue'[i] < m => tries[queue'[i]] > 0
  <2>1. 1 \in 1..Len(queue)
    OBVIOUS
  <2> QED
    BY <2>1 DEF QueueOrder
<1>7. BehindHanded'
  BY <1>6, SMTT(30) DEF BehindHanded
<1>8. \A k \in 1..Len(handed) : m < handed[k] => tries[m] > 0
  <2>1. 1 \in 1..Len(queue)
    OBVIOUS
  <2> QED
    BY <2>1 DEF BehindHanded
<1>9. OvertakenIfRequeued'
  BY <1>8 DEF OvertakenIfRequeued
<1> QED
  BY <1>3, <1>4, <1>5, <1>7, <1>9

\* Every step keeps the order.
LEMMA OrderNext == MailType /\ MailOrder /\ [Next]_vars => MailOrder'
<1> SUFFICES ASSUME MailType, MailOrder, [Next]_vars PROVE MailOrder'
  OBVIOUS
<1>1. CASE UNCHANGED <<queue, retrying, tries, handed, puts>>
  BY <1>1 DEF MailOrder, QueueOnce, QueueFresh, RetryCounted, HandedGone,
     HandedOnce, QueueOrder, BehindHanded, OvertakenIfRequeued
<1>2. CASE Sent
  BY <1>1, <1>2 DEF Sent, AfterSend
<1>3. ASSUME NEW m \in Messages, MailStep(m) PROVE MailOrder'
  <2>1. CASE TakeStray(m) \/ Drop(m)
    BY <2>1, TakenOrder DEF TakeStray, Drop
  <2> QED
    BY <1>3, <2>1, PublishOrder, RequeueOrder, PostponeOrder, SendOrder DEF MailStep
<1>4. ASSUME NEW x \in Makers, TaskStep(x) PROVE UNCHANGED mail /\ UNCHANGED <<puts, handed>>
  BY <1>4 DEF TaskStep, Start, Finish, Fail, Unmailed
<1>5. ASSUME NEW c \in Calls, CallStep(c) PROVE UNCHANGED mail /\ UNCHANGED <<puts, handed>>
  BY <1>5 DEF CallStep, AskRestart, AskRefresh, Ensure, Step, BeginRestart,
     RestartStopped, Respawn, EndRestart, RefreshStopped, RefreshCleared, Unmailed
<1> QED
  BY <1>1, <1>2, <1>3, <1>4, <1>5, NextCases DEF vars, mail

\* The order holds in every state of every behaviour.
LEMMA OrderHolds == Spec => []MailOrder
<1>1. TypeOK => MailType
  BY TypeParts
<1> QED
  BY <1>1, OrderInit, OrderNext, TypeCorrect, PTL DEF Spec

\* A message is given to send() at most once.
THEOREM SentOnce == Spec => []HandedOnce
<1>1. MailOrder => HandedOnce
  BY DEF MailOrder
<1> QED
  BY <1>1, OrderHolds, PTL

\* Only a message that was requeued is overtaken by one put later.
THEOREM PartsInOrder == Spec => []OvertakenIfRequeued
<1>1. MailOrder => OvertakenIfRequeued
  BY DEF MailOrder
<1> QED
  BY <1>1, OrderHolds, PTL

-----------------------------------------------------------------------------
(* Where a message is: queued, asleep before a retry, or in the hand of    *)
(* the dispatcher as long as nothing has become of it, and never in two of *)
(* these places.  MailOrder has that the queue holds it once.              *)

InQueue(m) == \E i \in 1..Len(queue) : queue[i] = m

Held(m) == InQueue(m) \/ m \in retrying \/ m = hand

\* A message that was put and has no outcome yet is held, and no other is; it
\* is held in one place, and only what was put has an outcome (manager.py:568
\* to :700).
OnePlace ==
    \A m \in Messages :
        /\ InQueue(m) => m \notin retrying /\ m # hand
        /\ m \in retrying => m # hand
        /\ m <= puts /\ outcome[m] = "none" <=> Held(m)
        /\ puts < m => outcome[m] = "none"

\* At first nothing was put.
LEMMA PlaceInit == Init => OnePlace
BY OutboundAssumption DEF Init, OnePlace, Held, InQueue, Messages

\* What is appended to the queue is in it with all that was.
LEMMA AppendedPlace ==
    ASSUME MailType, NEW m \in Messages, queue' = Append(queue, m)
    PROVE  \A n : InQueue(n)' <=> InQueue(n) \/ n = m
<1>1. /\ Len(queue') = Len(queue) + 1 /\ Len(queue) \in Nat
      /\ \A i \in 1..Len(queue') : queue'[i] = IF i <= Len(queue) THEN queue[i] ELSE m
  BY DEF MailType
<1>2. \A i \in 1..Len(queue) : i \in 1..Len(queue') /\ queue'[i] = queue[i]
  BY <1>1
<1>3. Len(queue') \in 1..Len(queue') /\ queue'[Len(queue')] = m
  BY <1>1
<1>4. \A i \in 1..Len(queue') : i \in 1..Len(queue) \/ queue'[i] = m
  BY <1>1
<1> QED
  BY <1>2, <1>3, <1>4 DEF InQueue

\* A message that was taken is no longer in the queue, the others still are.
LEMMA TakenPlace ==
    ASSUME MailType, MailOrder, NEW m, Taken(m)
    PROVE  /\ m \in Messages /\ InQueue(m) /\ ~InQueue(m)'
           /\ \A n : n # m => (InQueue(n)' <=> InQueue(n))
<1>1. /\ Len(queue') = Len(queue) - 1 /\ Len(queue) \in Nat /\ Len(queue) > 0
      /\ \A i \in 1..Len(queue') : i + 1 \in 1..Len(queue) /\ queue'[i] = queue[i + 1]
      /\ m = queue[1] /\ m \in Messages
      /\ \A i \in 1..Len(queue') : queue'[i] # m
  BY TakenQueue
<1>2. 1 \in 1..Len(queue)
  BY <1>1
<1>3. InQueue(m) /\ ~InQueue(m)'
  BY <1>1, <1>2 DEF InQueue
<1>4. ASSUME NEW n, n # m, InQueue(n) PROVE InQueue(n)'
  <2>1. PICK i \in 1..Len(queue) : queue[i] = n
    BY <1>4 DEF InQueue
  <2>2. i - 1 \in 1..Len(queue') /\ (i - 1) + 1 = i
    BY <1>1, <1>4, <2>1
  <2>3. queue'[i - 1] = n
    BY <1>1, <2>1, <2>2
  <2> QED
    BY <2>2, <2>3 DEF InQueue
<1>5. ASSUME NEW n, InQueue(n)' PROVE InQueue(n)
  BY <1>1, <1>5 DEF InQueue
<1> QED
  BY <1>1, <1>3, <1>4, <1>5

\* Each step of the mail moves the message it is about, and no other.
LEMMA PlaceMail ==
    ASSUME MailType, MailOrder, OnePlace, NEW m \in Messages, MailStep(m)
    PROVE  OnePlace'
<1> USE DEF OnePlace, Held
<1>1. \A n \in Messages : n \in Nat /\ n # None
  BY OutboundAssumption DEF Messages
<1>2. CASE Publish(m)
  <2>1. /\ m = puts + 1 /\ puts' = m /\ puts \in Nat
        /\ UNCHANGED <<retrying, outcome, hand>>
    BY <1>2 DEF Publish, MailType, life
  <2>2. \A n : InQueue(n)' <=> InQueue(n) \/ n = m
    BY <1>2, AppendedPlace DEF Publish
  <2>3. ~(m <= puts)
    BY <2>1
  <2>4. ~Held(m)
    BY <2>3
  <2>5. outcome[m] = "none"
    BY <2>1
  <2>6. \A n \in Messages : n <= puts' <=> n <= puts \/ n = m
    BY <1>1, <2>1
  <2>7. m # hand /\ m \notin retrying /\ ~InQueue(m)
    BY <2>4
  <2>8. \A n \in Messages : puts' < n => puts < n
    BY <1>1, <2>1
  <2> QED
    BY <2>1, <2>2, <2>5, <2>6, <2>7, <2>8
<1>3. CASE Requeue(m)
  <2>1. m \in retrying /\ retrying' = retrying \ {m} /\ UNCHANGED <<outcome, hand, puts>>
    BY <1>3 DEF Requeue
  <2>2. \A n : InQueue(n)' <=> InQueue(n) \/ n = m
    BY <1>3, AppendedPlace DEF Requeue
  <2> QED
    BY <2>1, <2>2
<1>4. ASSUME Taken(m)
      PROVE  /\ InQueue(m) /\ m \notin retrying /\ m # hand /\ hand = None
             /\ m <= puts /\ ~(puts < m) /\ outcome[m] = "none" /\ ~InQueue(m)'
             /\ \A n : n # m => (InQueue(n)' <=> InQueue(n))
  <2>1. puts \in Nat
    BY DEF MailType
  <2> QED
    BY <1>1, <1>4, <2>1, TakenPlace DEF Taken
<1>5. ASSUME Taken(m), NEW o \in {"dead", "lost", "unrouted"},
             outcome' = [outcome EXCEPT ![m] = o], UNCHANGED <<retrying, hand, puts>>
      PROVE  OnePlace'
  <2>1. outcome'[m] # "none" /\ \A n \in Messages : n # m => outcome'[n] = outcome[n]
    BY <1>5 DEF MailType
  <2> QED
    BY <1>4, <1>5, <2>1
<1>6. CASE TakeStray(m)
  BY <1>5, <1>6 DEF TakeStray
<1>7. CASE Drop(m)
  BY <1>5, <1>7 DEF Drop
<1>8. CASE Postpone(m)
  <2>1. Taken(m) /\ UNCHANGED <<hand, puts>>
    BY <1>8 DEF Postpone
  <2>2. CASE retrying' = retrying \union {m} /\ outcome' = outcome
    BY <1>1, <1>4, <2>1, <2>2
  <2>3. CASE outcome' = [outcome EXCEPT ![m] = "dead"] /\ retrying' = retrying
    BY <1>5, <2>1, <2>3
  <2> QED
    BY <1>8, <2>2, <2>3 DEF Postpone
<1>9. CASE Send(m)
  <2>1. Taken(m) /\ hand' = m /\ UNCHANGED <<retrying, outcome, puts>>
    BY <1>9 DEF Send
  <2> QED
    BY <1>1, <1>4, <2>1
<1> QED
  BY <1>2, <1>3, <1>6, <1>7, <1>8, <1>9 DEF MailStep

\* Every step keeps each message in its place.
LEMMA PlaceNext == MailType /\ MailOrder /\ OnePlace /\ [Next]_vars => OnePlace'
<1> SUFFICES ASSUME MailType, MailOrder, OnePlace, [Next]_vars PROVE OnePlace'
  OBVIOUS
<1>1. CASE UNCHANGED <<mail, hand, puts>>
  BY <1>1 DEF OnePlace, Held, InQueue, mail
<1>2. CASE Sent
  <2>1. PICK result \in {"sent", "failed"} : AfterSend(hand, result)
    BY <1>2 DEF Sent
  <2>2. hand \in Messages /\ hand' = None /\ UNCHANGED <<queue, puts, retrying>>
    BY <1>2, <2>1 DEF Sent, AfterSend, MailType
  <2>3. outcome'[hand] # "none" /\ \A n \in Messages : n # hand => outcome'[n] = outcome[n]
    BY <2>1, <2>2 DEF AfterSend, MailType
  <2>4. None \notin Messages
    BY OutboundAssumption DEF Messages
  <2>5. \A n : InQueue(n)' <=> InQueue(n)
    BY <2>2 DEF InQueue
  <2>6. hand <= puts /\ ~(puts < hand)
    <3>1. hand <= puts
      BY <2>2 DEF OnePlace, Held
    <3> QED
      BY <2>2, <3>1 DEF MailType, Messages
  <2> QED
    BY <2>2, <2>3, <2>4, <2>5, <2>6 DEF OnePlace, Held
<1>3. ASSUME NEW m \in Messages, MailStep(m) PROVE OnePlace'
  BY <1>3, PlaceMail
<1>4. ASSUME NEW x \in Makers, TaskStep(x) PROVE OnePlace'
  BY <1>1, <1>4 DEF TaskStep, Start, Finish, Fail, Unmailed
<1>5. ASSUME NEW c \in Calls, CallStep(c) PROVE OnePlace'
  BY <1>1, <1>5 DEF CallStep, AskRestart, AskRefresh, Ensure, Step, BeginRestart,
     RestartStopped, Respawn, EndRestart, RefreshStopped, RefreshCleared, Unmailed
<1> QED
  BY <1>1, <1>2, <1>3, <1>4, <1>5, NextCases DEF vars

\* No message is lost sight of or held twice: one that was put is queued, or
\* sleeps before a retry, or is being sent, until it has an outcome.
THEOREM MessagesAccounted == Spec => []OnePlace
<1>1. TypeOK => MailType
  BY TypeParts
<1> QED
  BY <1>1, PlaceInit, PlaceNext, OrderHolds, TypeCorrect, PTL DEF Spec

-----------------------------------------------------------------------------
(* The listener.  As long as no refresh or ensure_channel has run beside   *)
(* another call, each call that is under way knows the object and the task *)
(* the manager knows; that is what lets it end the listener it replaces.   *)

Locks(c)     == call[c] \in {"stopping", "reaping", "settling"}
Restarts(c)  == call[c] \in {"waiting", "stopping", "reaping", "settling"}
Refreshes(c) == call[c] \in {"closing", "clearing"}

LockOnce == \A c, d \in Calls : Locks(c) /\ Locks(d) => c = d

TargetsKnown == \A c \in Calls : Restarts(c) => target[c] # None

ListenersOwned == \A x \in Makers : Alive(x) => owner[x] # None

OneRefresh ==
    \A c, d \in Calls : Refreshes(c) => ~Restarts(d) /\ (Refreshes(d) => c = d)

RestartKnows ==
    \A c \in Calls :
        /\ Restarts(c) => channel # None /\ target[c] = channel
        /\ call[c] \in {"stopping", "reaping"} => reap[c] = tracked

Listening ==
    (\A c \in Calls : ~Refreshes(c)) =>
        \A x \in Makers : Alive(x) => x = tracked /\ owner[x] = channel

RefreshKnows ==
    \A c \in Calls :
        /\ Refreshes(c) => channel = None
        /\ call[c] = "closing" => \A x \in Makers : Alive(x) => x = tracked
        /\ call[c] = "clearing" => \A x \in Makers : Alive(x) => x = reap[c]

Orderly == OneRefresh /\ RestartKnows /\ Listening /\ RefreshKnows

LifeOrder == LockOnce /\ TargetsKnown /\ ListenersOwned /\ (overlap \/ Orderly)

\* At first the task of start_all listens and nobody calls.
LEMMA LifeInit == Init => LifeOrder
<1> SUFFICES ASSUME Init PROVE LifeOrder
  OBVIOUS
<1>1. \A c \in Calls : call[c] = "idle"
  BY DEF Init
<1>2. \A x \in Makers : Alive(x) => x = tracked /\ owner[x] = channel /\ owner[x] # None
  BY MakersHold DEF Init, Alive
<1> QED
  BY <1>1, <1>2 DEF LifeOrder, LockOnce, TargetsKnown, ListenersOwned, Orderly, OneRefresh,
     RestartKnows, Listening, RefreshKnows, Locks, Restarts, Refreshes

\* A task that starts, ends or fails was alive before.
LEMMA TaskOrder ==
    ASSUME TaskType, LifeOrder, NEW x \in Makers, TaskStep(x)
    PROVE  LifeOrder'
<1>1. UNCHANGED <<call, target, reap, channel, owner, tracked>> /\ overlap' = overlap
  BY DEF TaskStep, Start, Finish, Fail, calls
<1>2. \A y \in Makers : Alive(y)' => Alive(y)
  BY DEF TaskStep, Start, Finish, Fail, TaskType, Alive
<1>3. LockOnce' /\ TargetsKnown'
  BY <1>1 DEF LifeOrder, LockOnce, TargetsKnown, Locks, Restarts
<1>4. ListenersOwned'
  BY <1>1, <1>2 DEF LifeOrder, ListenersOwned
<1>5. Orderly => OneRefresh' /\ RestartKnows'
  BY <1>1 DEF Orderly, OneRefresh, RestartKnows, Restarts, Refreshes
<1>6. Orderly => Listening' /\ RefreshKnows'
  BY <1>1, <1>2 DEF Orderly, Listening, RefreshKnows, Refreshes
<1>7. Orderly => Orderly'
  BY <1>5, <1>6 DEF Orderly
<1> QED
  BY <1>1, <1>3, <1>4, <1>7, Zenon DEF LifeOrder

\* One call moves to a phase, the others stay where they are.
LEMMA CallMoves ==
    ASSUME CallType, NEW c \in Calls, NEW p, call' = [call EXCEPT ![c] = p]
    PROVE  call'[c] = p /\ \A d \in Calls : d # c => call'[d] = call[d]
BY DEF CallType

\* A restart that is asked for knows the registered object.
LEMMA AskRestartOrder ==
    ASSUME CallType, LifeOrder, NEW c \in Calls, AskRestart(c)
    PROVE  LifeOrder'
<1>1. /\ call'[c] = "waiting" /\ \A d \in Calls : d # c => call'[d] = call[d]
      /\ target'[c] = channel /\ \A d \in Calls : d # c => target'[d] = target[d]
      /\ channel # None /\ UNCHANGED <<channel, task, owner, tracked, reap>>
  BY CallMoves DEF AskRestart, CallType, tasks
<1>2. LockOnce' /\ TargetsKnown' /\ ListenersOwned'
  BY <1>1 DEF LifeOrder, LockOnce, TargetsKnown, ListenersOwned, Locks, Restarts, Alive
<1>3. overlap' = (overlap \/ Refreshing)
  BY DEF AskRestart
<1>4. ASSUME Orderly, ~Refreshing PROVE Orderly'
  <2>1. \A d \in Calls : ~Refreshes(d) /\ ~Refreshes(d)'
    BY <1>1, <1>4 DEF Refreshing, Refreshes
  <2>2. RestartKnows'
    BY <1>1, <1>4 DEF Orderly, RestartKnows, Restarts
  <2>3. OneRefresh' /\ Listening' /\ RefreshKnows'
    BY <1>1, <1>4, <2>1 DEF Orderly, OneRefresh, Listening, RefreshKnows, Alive, Refreshes
  <2> QED
    BY <2>2, <2>3 DEF Orderly
<1> QED
  BY <1>2, <1>3, <1>4, Zenon DEF LifeOrder

\* Whoever gets the lock is alone with it and reads the task the manager knows.
LEMMA BeginOrder ==
    ASSUME CallType, LifeOrder, NEW c \in Calls, BeginRestart(c)
    PROVE  LifeOrder'
<1>1. /\ call[c] = "waiting" /\ call'[c] = "stopping"
      /\ \A d \in Calls : d # c => call'[d] = call[d]
      /\ reap'[c] = tracked /\ \A d \in Calls : d # c => reap'[d] = reap[d]
      /\ UNCHANGED <<channel, task, owner, tracked, target>> /\ overlap' = overlap
      /\ \A d \in Calls : ~Locks(d)
  BY CallMoves DEF BeginRestart, CallType, LockHeld, Locks
<1>2. LockOnce' /\ TargetsKnown' /\ ListenersOwned'
  BY <1>1 DEF LifeOrder, LockOnce, TargetsKnown, ListenersOwned, Locks, Restarts, Alive
<1>3. ASSUME Orderly PROVE Orderly'
  <2>1. OneRefresh'
    BY <1>1, <1>3 DEF Orderly, OneRefresh, Restarts, Refreshes
  <2>2. RestartKnows'
    BY <1>1, <1>3 DEF Orderly, RestartKnows, Restarts
  <2>3. Listening' /\ RefreshKnows'
    BY <1>1, <1>3 DEF Orderly, Listening, RefreshKnows, Alive, Refreshes
  <2> QED
    BY <2>1, <2>2, <2>3 DEF Orderly
<1> QED
  BY <1>1, <1>2, <1>3, Zenon DEF LifeOrder

\* A restart whose stop() has returned or raised, or that ends, knows no more
\* and no less.
LEMMA LeaveOrder ==
    ASSUME CallType, LifeOrder, NEW c \in Calls, RestartStopped(c) \/ EndRestart(c)
    PROVE  LifeOrder'
<1>1. /\ UNCHANGED <<channel, task, owner, tracked>> /\ overlap' = overlap
      /\ \A d \in Calls : d # c => call'[d] = call[d] /\ target'[d] = target[d] /\ reap'[d] = reap[d]
      /\ \/ call'[c] = "done"
         \/ call[c] = "stopping" /\ call'[c] = "reaping" /\ target' = target /\ reap' = reap
      /\ Restarts(c)
  BY DEF RestartStopped, EndRestart, Return, CallType, tasks, Restarts
<1>2. LockOnce' /\ TargetsKnown' /\ ListenersOwned'
  BY <1>1 DEF LifeOrder, LockOnce, TargetsKnown, ListenersOwned, Locks, Restarts, Alive
<1>3. ASSUME Orderly PROVE Orderly'
  <2>1. OneRefresh'
    BY <1>1, <1>3 DEF Orderly, OneRefresh, Restarts, Refreshes
  <2>2. RestartKnows'
    BY <1>1, <1>3 DEF Orderly, RestartKnows, Restarts
  <2>3. Listening' /\ RefreshKnows'
    BY <1>1, <1>3 DEF Orderly, OneRefresh, Listening, RefreshKnows, Alive, Refreshes, Restarts
  <2> QED
    BY <2>1, <2>2, <2>3 DEF Orderly
<1> QED
  BY <1>1, <1>2, <1>3, Zenon DEF LifeOrder

\* Who is alive after a task has been reaped and another spawned.
LEMMA SpawnAlive ==
    ASSUME TaskType, NEW c \in Calls, NEW object,
           NEW t \in [Makers -> {"none", "spawned", "running", "done"}],
           Spawn(c, t, object)
    PROVE  /\ tracked' = c /\ owner'[c] = object
           /\ \A x \in Makers : x # c => owner'[x] = owner[x] /\ task'[x] = t[x]
BY MakersHold DEF Spawn, TaskType

\* A task that has been reaped is not alive.
LEMMA ReapedGone ==
    ASSUME TaskType, NEW y \in Makers \union {None}, NEW x \in Makers,
           Reaped(task, y)[x] \in {"spawned", "running"}
    PROVE  Alive(x) /\ x # y
BY MakersHold DEF Reaped, TaskType, Alive

\* The listener of a restart replaces the one the manager knew.
LEMMA RespawnOrder ==
    ASSUME TaskType, CallType, LifeOrder, NEW c \in Calls, Respawn(c)
    PROVE  LifeOrder'
<1> DEFINE t == Reaped(task, reap[c])
<1>1. /\ call[c] = "reaping" /\ call'[c] = "settling"
      /\ \A d \in Calls : d # c => call'[d] = call[d]
      /\ UNCHANGED <<channel, target, reap>> /\ overlap' = overlap
  BY CallMoves DEF Respawn
<1>2. /\ tracked' = c /\ owner'[c] = target[c]
      /\ \A x \in Makers : x # c => owner'[x] = owner[x] /\ task'[x] = t[x]
  BY SpawnAlive, ReapedType DEF Respawn
<1>3. \A x \in Makers : Alive(x)' /\ x # c => Alive(x) /\ x # reap[c]
  BY <1>2, ReapedGone, MakersHold DEF Alive, CallType
<1>4. LockOnce' /\ TargetsKnown'
  BY <1>1 DEF LifeOrder, LockOnce, TargetsKnown, Locks, Restarts
<1>5. ListenersOwned'
  BY <1>1, <1>2, <1>3 DEF LifeOrder, TargetsKnown, ListenersOwned, Restarts
<1>6. ASSUME Orderly PROVE Orderly'
  <2>1. /\ channel # None /\ target[c] = channel /\ reap[c] = tracked
        /\ \A d \in Calls : ~Refreshes(d) /\ ~Refreshes(d)'
    BY <1>1, <1>6 DEF Orderly, OneRefresh, RestartKnows, Restarts, Refreshes
  <2>2. Listening'
    BY <1>1, <1>2, <1>3, <1>6, <2>1 DEF Orderly, Listening
  <2>3. \A d \in Calls : d # c => ~Locks(d)
    BY <1>1 DEF LifeOrder, LockOnce, Locks
  <2>4. RestartKnows'
    BY <1>1, <1>6, <2>3 DEF Orderly, RestartKnows, Restarts, Locks
  <2>5. OneRefresh' /\ RefreshKnows'
    BY <2>1 DEF OneRefresh, RefreshKnows, Refreshes
  <2> QED
    BY <2>2, <2>4, <2>5 DEF Orderly
<1> QED
  BY <1>1, <1>4, <1>5, <1>6, Zenon DEF LifeOrder

\* A call that ends by registering an object, or by finding none to register,
\* leaves at most its own listener if it was alone and found none alive.
LEMMA RebuildOrder ==
    ASSUME TaskType, CallType, LifeOrder, NEW c \in Calls,
           NEW t \in [Makers -> {"none", "spawned", "running", "done"}], NEW kept,
           Return(c), Rebuild(c, t, kept) \/ Register(c, t),
           \A x \in Makers : t[x] \in {"spawned", "running"} => Alive(x),
           \/ overlap'
           \/ /\ channel = None
              /\ \A d \in Calls : d # c => ~Refreshes(d) /\ ~Restarts(d)
              /\ \A x \in Makers : t[x] \notin {"spawned", "running"}
    PROVE  LifeOrder'
<1>1. /\ call'[c] = "done"
      /\ \A d \in Calls : d # c => call'[d] = call[d] /\ target'[d] = target[d] /\ reap'[d] = reap[d]
  BY DEF Return, CallType
<1>2. LockOnce' /\ TargetsKnown'
  BY <1>1 DEF LifeOrder, LockOnce, TargetsKnown, Locks, Restarts
<1>3. \/ /\ channel' = c /\ tracked' = c /\ owner'[c] = c
         /\ \A x \in Makers : x # c => owner'[x] = owner[x] /\ task'[x] = t[x]
      \/ channel' = channel /\ owner' = owner /\ task' = t
  BY SpawnAlive, Zenon DEF Register, Rebuild
<1>4. ListenersOwned'
  BY <1>3, MakersHold DEF LifeOrder, ListenersOwned, Alive
<1>5. ASSUME channel = None, \A d \in Calls : d # c => ~Refreshes(d) /\ ~Restarts(d),
             \A x \in Makers : t[x] \notin {"spawned", "running"}
      PROVE  Orderly'
  <2>1. \A d \in Calls : ~Refreshes(d)' /\ ~Restarts(d)'
    BY <1>1, <1>5 DEF Refreshes, Restarts
  <2>2. Listening'
    BY <1>3, <1>5 DEF Listening, Alive
  <2>3. OneRefresh' /\ RefreshKnows'
    BY <2>1 DEF OneRefresh, RefreshKnows, Refreshes
  <2>4. RestartKnows'
    BY <2>1 DEF RestartKnows, Restarts
  <2> QED
    BY <2>2, <2>3, <2>4 DEF Orderly
<1> QED
  BY <1>2, <1>4, <1>5, Zenon DEF LifeOrder

\* A refresh that takes an object out of the table is alone, or notes that it
\* is not.
LEMMA AskRefreshOrder ==
    ASSUME TaskType, CallType, LifeOrder, NEW c \in Calls, AskRefresh(c)
    PROVE  LifeOrder'
<1>1. overlap' = (overlap \/ Refreshing \/ Restarting)
  BY DEF AskRefresh
<1>2. ASSUME ~Refreshing, ~Restarting PROVE \A d \in Calls : ~Refreshes(d) /\ ~Restarts(d)
  BY <1>2 DEF Refreshing, Restarting, Refreshes, Restarts
<1>3. CASE channel = None
  <2>1. Return(c) /\ Rebuild(c, task, tracked)
    BY <1>3 DEF AskRefresh, Rebuild
  <2>2. task \in [Makers -> {"none", "spawned", "running", "done"}]
    BY DEF TaskType
  <2>3. \A x \in Makers : task[x] \in {"spawned", "running"} => Alive(x)
    BY MakersHold DEF Alive
  <2>4. ASSUME Orderly, ~Refreshing, ~Restarting
        PROVE  \A x \in Makers : task[x] \notin {"spawned", "running"}
    BY <1>2, <1>3, <2>3, <2>4 DEF LifeOrder, ListenersOwned, Orderly, Listening
  <2>5. overlap' \/ (~Refreshing /\ ~Restarting /\ Orderly)
    BY <1>1, Zenon DEF LifeOrder
  <2> QED
    BY <1>2, <1>3, <2>1, <2>2, <2>3, <2>4, <2>5, RebuildOrder
<1>4. CASE channel # None
  <2>1. /\ channel' = None /\ UNCHANGED <<task, owner, tracked, reap>>
        /\ call' = [call EXCEPT ![c] = "closing"]
        /\ \A d \in Calls : d # c => target'[d] = target[d]
    BY <1>4 DEF AskRefresh, CallType
  <2>2. call'[c] = "closing" /\ \A d \in Calls : d # c => call'[d] = call[d]
    BY <2>1, CallMoves
  <2>3. LockOnce' /\ TargetsKnown' /\ ListenersOwned'
    BY <2>1, <2>2 DEF LifeOrder, LockOnce, TargetsKnown, ListenersOwned, Locks, Restarts, Alive
  <2>4. ASSUME Orderly, ~Refreshing, ~Restarting PROVE Orderly'
    <3>1. \A d \in Calls : d # c => ~Refreshes(d)' /\ ~Restarts(d)'
      BY <1>2, <2>2, <2>4 DEF Refreshes, Restarts
    <3>2. OneRefresh' /\ RestartKnows'
      BY <2>2, <3>1 DEF OneRefresh, RestartKnows, Refreshes, Restarts
    <3>3. Refreshes(c)'
      BY <2>2 DEF Refreshes
    <3>4. Listening'
      BY <3>3 DEF Listening
    <3>5. \A x \in Makers : Alive(x)' => x = tracked'
      BY <1>2, <2>1, <2>4 DEF Orderly, Listening, Alive
    <3>6. RefreshKnows'
      BY <2>1, <2>2, <3>1, <3>5 DEF RefreshKnows, Refreshes
    <3> QED
      BY <3>2, <3>4, <3>6 DEF Orderly
  <2>5. overlap' \/ (~Refreshing /\ ~Restarting /\ Orderly)
    BY <1>1, Zenon DEF LifeOrder
  <2> QED
    BY <2>3, <2>4, <2>5, Zenon DEF LifeOrder
<1> QED
  BY <1>3, <1>4

\* After stop() a refresh takes the task it will end, or finds none alive.
LEMMA StoppedOrder ==
    ASSUME TaskType, CallType, LifeOrder, NEW c \in Calls, RefreshStopped(c)
    PROVE  LifeOrder'
<1>1. call[c] = "closing" /\ overlap' = overlap
  BY DEF RefreshStopped
<1>2. ASSUME Orderly
      PROVE  /\ channel = None
             /\ \A d \in Calls : d # c => ~Refreshes(d) /\ ~Restarts(d)
             /\ \A x \in Makers : Alive(x) => x = tracked
  BY <1>1, <1>2 DEF Orderly, OneRefresh, RefreshKnows, Refreshes
<1>3. CASE ~Alive(tracked)
  <2>1. Return(c) /\ Rebuild(c, task, None)
    BY <1>3 DEF RefreshStopped, Rebuild
  <2>2. task \in [Makers -> {"none", "spawned", "running", "done"}]
    BY DEF TaskType
  <2>3. \A x \in Makers : task[x] \in {"spawned", "running"} => Alive(x)
    BY MakersHold DEF Alive
  <2>4. overlap' \/ Orderly
    BY <1>1, Zenon DEF LifeOrder
  <2> QED
    BY <1>2, <1>3, <2>1, <2>2, <2>3, <2>4, RebuildOrder
<1>4. CASE Alive(tracked)
  <2>1. /\ call' = [call EXCEPT ![c] = "clearing"]
        /\ reap'[c] = tracked /\ \A d \in Calls : d # c => reap'[d] = reap[d]
        /\ UNCHANGED <<channel, task, owner, target>>
    BY <1>4 DEF RefreshStopped, CallType
  <2>2. call'[c] = "clearing" /\ \A d \in Calls : d # c => call'[d] = call[d]
    BY <2>1, CallMoves
  <2>3. LockOnce' /\ TargetsKnown' /\ ListenersOwned'
    BY <2>1, <2>2 DEF LifeOrder, LockOnce, TargetsKnown, ListenersOwned, Locks, Restarts, Alive
  <2>4. ASSUME Orderly PROVE Orderly'
    <3>1. \A d \in Calls : d # c => ~Refreshes(d)' /\ ~Restarts(d)'
      BY <1>2, <2>2, <2>4 DEF Refreshes, Restarts
    <3>2. OneRefresh' /\ RestartKnows'
      BY <2>2, <3>1 DEF OneRefresh, RestartKnows, Refreshes, Restarts
    <3>3. Refreshes(c)'
      BY <2>2 DEF Refreshes
    <3>4. Listening'
      BY <3>3 DEF Listening
    <3>5. \A x \in Makers : Alive(x)' => x = reap'[c]
      BY <1>2, <2>1, <2>4 DEF Alive
    <3>6. RefreshKnows'
      BY <1>2, <2>1, <2>2, <2>4, <3>1, <3>5 DEF RefreshKnows, Refreshes
    <3> QED
      BY <3>2, <3>4, <3>6 DEF Orderly
  <2> QED
    BY <1>1, <2>3, <2>4, Zenon DEF LifeOrder
<1> QED
  BY <1>3, <1>4

\* Once that task has ended, none is alive.
LEMMA ClearedOrder ==
    ASSUME TaskType, CallType, LifeOrder, NEW c \in Calls, RefreshCleared(c)
    PROVE  LifeOrder'
<1> DEFINE t == Reaped(task, reap[c])
<1>1. /\ call[c] = "clearing" /\ overlap' = overlap
      /\ Return(c) /\ Rebuild(c, t, tracked)
  BY DEF RefreshCleared, Rebuild
<1>2. t \in [Makers -> {"none", "spawned", "running", "done"}]
  BY ReapedType
<1>3. \A x \in Makers : t[x] \in {"spawned", "running"} => Alive(x) /\ x # reap[c]
  BY ReapedGone DEF CallType
<1>4. ASSUME Orderly
      PROVE  /\ channel = None
             /\ \A d \in Calls : d # c => ~Refreshes(d) /\ ~Restarts(d)
             /\ \A x \in Makers : t[x] \notin {"spawned", "running"}
  BY <1>1, <1>3, <1>4 DEF Orderly, OneRefresh, RefreshKnows, Refreshes
<1>5. overlap' \/ Orderly
  BY <1>1, Zenon DEF LifeOrder
<1> HIDE DEF t
<1> QED
  BY <1>1, <1>2, <1>3, <1>4, <1>5, RebuildOrder

\* ensure_channel finds no listener, or notes that it is not alone.
LEMMA EnsureOrder ==
    ASSUME TaskType, CallType, LifeOrder, NEW c \in Calls, Ensure(c)
    PROVE  LifeOrder'
<1>1. /\ overlap' = (overlap \/ Refreshing \/ Restarting) /\ channel = None
      /\ Return(c) /\ Register(c, task)
  BY DEF Ensure
<1>2. ASSUME ~Refreshing, ~Restarting PROVE \A d \in Calls : ~Refreshes(d) /\ ~Restarts(d)
  BY <1>2 DEF Refreshing, Restarting, Refreshes, Restarts
<1>3. task \in [Makers -> {"none", "spawned", "running", "done"}]
  BY DEF TaskType
<1>4. \A x \in Makers : task[x] \in {"spawned", "running"} => Alive(x)
  BY MakersHold DEF Alive
<1>5. ASSUME Orderly, ~Refreshing, ~Restarting
      PROVE  \A x \in Makers : task[x] \notin {"spawned", "running"}
  BY <1>1, <1>2, <1>4, <1>5 DEF LifeOrder, ListenersOwned, Orderly, Listening
<1>6. overlap' \/ (~Refreshing /\ ~Restarting /\ Orderly)
  BY <1>1, Zenon DEF LifeOrder
<1> QED
  BY <1>1, <1>2, <1>3, <1>4, <1>5, <1>6, RebuildOrder

\* Every step keeps the order of the calls.
LEMMA LifeNext == TaskType /\ CallType /\ LifeOrder /\ [Next]_vars => LifeOrder'
<1> SUFFICES ASSUME TaskType, CallType, LifeOrder, [Next]_vars PROVE LifeOrder'
  OBVIOUS
<1>1. CASE UNCHANGED life
  <2>1. UNCHANGED <<call, target, reap, channel, task, owner, tracked>> /\ overlap' = overlap
    BY <1>1 DEF life, tasks, calls
  <2>2. LockOnce' /\ TargetsKnown' /\ ListenersOwned'
    BY <2>1 DEF LifeOrder, LockOnce, TargetsKnown, ListenersOwned, Locks, Restarts, Alive
  <2>3. Orderly => OneRefresh' /\ RestartKnows' /\ RefreshKnows' /\ Listening'
    BY <2>1 DEF Orderly, OneRefresh, RestartKnows, RefreshKnows, Listening, Restarts, Refreshes, Alive
  <2> QED
    BY <2>1, <2>2, <2>3, Zenon DEF LifeOrder, Orderly
<1>2. ASSUME NEW m \in Messages, MailStep(m) PROVE LifeOrder'
  BY <1>1, <1>2, MailKeepsLife
<1>3. CASE Sent
  BY <1>1, <1>3 DEF Sent
<1>4. ASSUME NEW x \in Makers, TaskStep(x) PROVE LifeOrder'
  BY <1>4, TaskOrder
<1>5. ASSUME NEW c \in Calls, CallStep(c) PROVE LifeOrder'
  BY <1>5, AskRestartOrder, BeginOrder, LeaveOrder, RespawnOrder, AskRefreshOrder,
     StoppedOrder, ClearedOrder, EnsureOrder DEF CallStep, Step
<1> QED
  BY <1>1, <1>2, <1>3, <1>4, <1>5, NextCases DEF vars

\* The order of the calls holds in every state of every behaviour.
LEMMA LifeHolds == Spec => []LifeOrder
<1>1. TypeOK => TaskType /\ CallType
  BY TypeParts
<1> QED
  BY <1>1, LifeInit, LifeNext, TypeCorrect, PTL DEF Spec

\* Unless a refresh or ensure_channel runs beside another call, at most one
\* start() of the channel runs, and it is that of the registered object.
THEOREM ListensOnce == Spec => []OneListener
<1>1. ASSUME Orderly, ~Refreshing
      PROVE  \A x \in Makers : Alive(x) => x = tracked /\ owner[x] = channel
  BY <1>1 DEF Orderly, Listening, Refreshing, Refreshes
<1>2. LifeOrder => OneListener
  BY <1>1, Zenon DEF LifeOrder, OneListener
<1> QED
  BY <1>2, LifeHolds, PTL

-----------------------------------------------------------------------------
(* What a message is given up for: the status of a registered channel says *)
(* that it can be used unless one of its start() has raised.               *)

StatusClear == overlap \/ channel = None \/ blemish \/ (available /\ ~error)

\* The status is clear at first.
LEMMA ClearInit == Init => StatusClear
BY DEF Init, StatusClear

\* Registering an object makes its status clear, and without one there is
\* nothing to be clear about.
LEMMA RebuildClear ==
    ASSUME NEW c, NEW t, NEW kept,
           Rebuild(c, t, kept) \/ Register(c, t), overlap' \/ channel = None
    PROVE  StatusClear'
<1>1. CASE Register(c, t)
  BY <1>1, Zenon DEF Register, StatusClear
<1>2. CASE Rebuild(c, t, kept) /\ ~Register(c, t)
  <2>1. channel' = channel
    BY <1>2, Zenon DEF Rebuild
  <2> QED
    BY <2>1, Zenon DEF StatusClear
<1> QED
  BY <1>1, <1>2

\* Every step keeps the status clear.
LEMMA ClearNext == LifeOrder /\ StatusClear /\ [Next]_vars => StatusClear'
<1> SUFFICES ASSUME LifeOrder, StatusClear, [Next]_vars PROVE StatusClear'
  OBVIOUS
<1>1. CASE UNCHANGED <<overlap, channel, blemish, available, error>>
  BY <1>1, Zenon DEF StatusClear
<1>2. CASE UNCHANGED life
  BY <1>1, <1>2 DEF life, status
<1>3. ASSUME NEW m \in Messages, MailStep(m) PROVE StatusClear'
  BY <1>2, <1>3, MailKeepsLife
<1>4. CASE Sent
  BY <1>2, <1>4 DEF Sent
<1>5. ASSUME NEW x \in Makers, TaskStep(x) PROVE StatusClear'
  <2>1. CASE Start(x)
    <3>1. UNCHANGED <<overlap, channel, blemish, available>> /\ error' = FALSE
      BY <2>1 DEF Start
    <3> QED
      BY <3>1, Zenon DEF StatusClear
  <2>2. CASE Finish(x)
    BY <1>1, <2>2 DEF Finish, status
  <2>3. CASE Fail(x)
    BY <2>3, Zenon DEF Fail, StatusClear
  <2> QED
    BY <1>5, <2>1, <2>2, <2>3 DEF TaskStep
<1>6. ASSUME NEW c \in Calls, CallStep(c) PROVE StatusClear'
  <2>1. CASE AskRestart(c)
    <3>1. UNCHANGED <<channel, blemish, available, error>> /\ overlap' = (overlap \/ Refreshing)
      BY <2>1 DEF AskRestart, status
    <3> QED
      BY <3>1, Zenon DEF StatusClear
  <2>2. CASE BeginRestart(c) \/ RestartStopped(c) \/ Respawn(c) \/ EndRestart(c)
    BY <1>1, <2>2 DEF BeginRestart, RestartStopped, Respawn, EndRestart, status
  <2>3. CASE AskRefresh(c) /\ channel # None
    <3>1. channel' = None
      BY <2>3 DEF AskRefresh
    <3> QED
      BY <3>1, Zenon DEF StatusClear
  <2>4. CASE AskRefresh(c) /\ channel = None
    <3>1. Rebuild(c, task, tracked)
      BY <2>4 DEF AskRefresh, Rebuild
    <3> QED
      BY <2>4, <3>1, RebuildClear
  <2>5. ASSUME Refreshes(c) PROVE overlap \/ channel = None
    BY <2>5, Zenon DEF LifeOrder, Orderly, RefreshKnows
  <2>6. CASE RefreshStopped(c)
    <3>1. Refreshes(c) /\ overlap' = overlap
      BY <2>6 DEF RefreshStopped, Refreshes
    <3>2. channel' = channel \/ Rebuild(c, task, None)
      BY <2>6 DEF RefreshStopped, Rebuild
    <3>3. CASE channel' = channel
      BY <2>5, <3>1, <3>3, Zenon DEF StatusClear
    <3>4. CASE Rebuild(c, task, None)
      <4>1. overlap' \/ channel = None
        BY <2>5, <3>1, Zenon
      <4> QED
        BY <3>4, <4>1, RebuildClear
    <3> QED
      BY <3>2, <3>3, <3>4
  <2>7. CASE RefreshCleared(c)
    <3>1. /\ Refreshes(c) /\ overlap' = overlap
          /\ Rebuild(c, Reaped(task, reap[c]), tracked)
      BY <2>7 DEF RefreshCleared, Refreshes, Rebuild
    <3>2. overlap' \/ channel = None
      BY <2>5, <3>1, Zenon
    <3> QED
      BY <3>1, <3>2, RebuildClear
  <2>8. CASE Ensure(c)
    <3>1. Register(c, task) /\ channel = None
      BY <2>8 DEF Ensure
    <3> QED
      BY <3>1, RebuildClear
  <2> QED
    BY <1>6, <2>1, <2>2, <2>3, <2>4, <2>6, <2>7, <2>8 DEF CallStep, Step
<1> QED
  BY <1>1, <1>2, <1>3, <1>4, <1>5, <1>6, NextCases DEF vars

\* A message is given up only while the channel could not have sent it, after
\* a start() has raised, or after calls that overlapped.
THEOREM GivenUpFairly == Spec => GivenUpForCause
<1> DEFINE Cause == LockHeld \/ channel = None \/ ~up[channel] \/ blemish \/ overlap
           Fair  == \A m \in Messages :
                       outcome[m] = "none" /\ outcome'[m] = "dead" => Cause
<1>1. MailType /\ StatusClear /\ [Next]_vars => Fair
  <2> SUFFICES ASSUME MailType, StatusClear, [Next]_vars,
                      NEW m \in Messages, outcome[m] = "none", outcome'[m] = "dead"
               PROVE  Cause
    OBVIOUS
  <2>1. outcome' # outcome
    BY DEF MailType
  <2>2. ~Sent
    BY DEF Sent, AfterSend, MailType
  <2>3. ASSUME NEW x \in Makers, TaskStep(x) PROVE FALSE
    BY <2>1, <2>3 DEF TaskStep, Start, Finish, Fail, Unmailed, mail
  <2>4. ASSUME NEW c \in Calls, CallStep(c) PROVE FALSE
    BY <2>1, <2>4 DEF CallStep, AskRestart, AskRefresh, Ensure, Step, BeginRestart,
       RestartStopped, Respawn, EndRestart, RefreshStopped, RefreshCleared, Unmailed, mail
  <2>5. PICK n \in Messages : MailStep(n)
    BY <2>1, <2>2, <2>3, <2>4, NextCases DEF vars, mail
  <2>6. Postpone(n)
    BY <2>1, <2>5 DEF MailStep, Publish, TakeStray, Drop, Send, Requeue, MailType
  <2>7. Unavailable
    BY <2>6 DEF Postpone
  <2> QED
    BY <2>7, Zenon DEF Unavailable, StatusClear
<1>2. TypeOK => MailType
  BY TypeParts
<1>3. Spec => []StatusClear
  BY ClearInit, ClearNext, LifeHolds, PTL DEF Spec
<1>4. Fair => Fair
  OBVIOUS
<1> QED
  BY <1>1, <1>2, <1>3, TypeCorrect, PTL DEF Spec, GivenUpForCause
=============================================================================
