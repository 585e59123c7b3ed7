-------------------------- MODULE TaskLedgerProofs --------------------------
(***************************************************************************)
(* What the ledger keeps for any number of events, tools and operators,    *)
(* any max_attempts and any number of requests and crashes.                *)
(***************************************************************************)
EXTENDS TaskLedger, TLAPS

(***************************************************************************)
(* What an actor holds between two steps: a task status it read or         *)
(* decided, the status it reopens an event with, the outcome of a handoff. *)
(* Only the dispatcher delivers.                                           *)
(***************************************************************************)
HeldOK(a) ==
    /\ pc[a] \in {"touchWrite", "gateWrite"} => memo[a] \in TaskStatuses
    /\ pc[a] = "reopen" => memo[a] \in {"pending", "retrying"} /\ ev[a] \in Events
    /\ pc[a] \in {"recheck", "mark"} => memo[a] \in {"sent", "failed", "retrying"}
    /\ pc[a] \in {"deliver", "recheck", "mark"} => a = Dispatcher /\ ev[a] \in Events

Held == \A a \in Actors : HeldOK(a)

\* Typed is inductive; TypeOK alone is not, for TouchWrite copies memo to task.
Typed == TypeOK /\ Held

\* The first state is well typed.
LEMMA InitTyped == Init => Typed
<1> SUFFICES ASSUME Init PROVE Typed
  OBVIOUS
<1>1. TypeOK
  <2> USE DEF Init, TypeOK
  <2>1. pc \in [Actors -> Labels] /\ mode \in [Actors -> Modes]
    BY DEF Labels, Modes
  <2>2. memo \in [Actors -> Statuses \union TaskStatuses]
    BY DEF Statuses
  <2>3. status \in [Events -> Statuses] /\ task \in TaskStatuses
    BY DEF Statuses, TaskStatuses
  <2>4. requests \in 0..MaxRequests /\ crashes \in 0..MaxCrashes
    BY BoundsAssumption
  <2> QED
    BY <2>1, <2>2, <2>3, <2>4
<1>2. Held
  BY DEF Init, Held, HeldOK
<1> QED
  BY <1>1, <1>2 DEF Typed

\* Whatever status an event has got, its step gets a step status.
LEMMA StepForType == \A s : StepFor(s) \in StepStatuses
BY DEF StepFor, StepStatuses

\* Every step of a ledger call keeps the types and what is carried.
LEMMA LedgerTyped ==
    ASSUME Typed, NEW a \in Actors, Ledger(a)
    PROVE  Typed'
<1> USE ActorsAssumption, EventsAssumption, BoundsAssumption
    DEF Typed, TypeOK, Held, HeldOK, rows, board, history, local, bounds, Goto, Return, CallEnds
<1>1. CASE WriteStep(a)
  <2>1. step' \in [Steps -> StepStatuses \union {"none"}]
    BY <1>1, StepForType DEF WriteStep
  <2>2. CASE Return(a)
    BY <1>1, <2>1, <2>2, ZenonT(30) DEF WriteStep, Labels, Statuses
  <2>3. CASE Goto(a, "touch")
    BY <1>1, <2>1, <2>3 DEF WriteStep, Labels
  <2>4. CASE Goto(a, "gate")
    BY <1>1, <2>1, <2>4, ZenonT(30) DEF WriteStep, Labels
  <2> QED
    BY <1>1, <2>2, <2>3, <2>4 DEF WriteStep
<1>2. CASE TouchRead(a)
  BY <1>2 DEF TouchRead, Labels
<1>3. CASE TouchWrite(a)
  BY <1>3 DEF TouchWrite, Labels, Statuses, Finalizes
<1>4. CASE GateStart(a)
  BY <1>4 DEF GateStart, Labels, TaskStatuses
<1>5. CASE GateReadSteps(a)
  BY <1>5 DEF GateReadSteps, Labels
<1>6. CASE GateReadEvents(a)
  BY <1>6 DEF GateReadEvents, Verdict, Labels, TaskStatuses
<1>7. CASE GateRaises(a)
  BY <1>7 DEF GateRaises, Labels, TaskStatuses
<1>8. CASE GateWrite(a)
  BY <1>8 DEF GateWrite, Labels, Statuses
<1>9. ASSUME NEW e \in Events, RetryRead(a, e) PROVE Typed'
  BY <1>9 DEF RetryRead, Labels, Statuses, OutboxStatuses, OutboxActive
<1>10. CASE RetryWrite(a)
  BY <1>10 DEF RetryWrite, Labels, Statuses, OutboxStatuses, OutboxActive
<1>11. CASE RetryTask(a)
  BY <1>11 DEF RetryTask, Labels, TaskStatuses
<1>12. ASSUME NEW e \in Events, Abandon(a, e) PROVE Typed'
  BY <1>12, SMTT(30) DEF Abandon, Close, Labels, Statuses, OutboxStatuses, OutboxTerminal, OutboxAbandoned
<1> QED
  BY <1>1, <1>2, <1>3, <1>4, <1>5, <1>6, <1>7, <1>8, <1>9, <1>10, <1>11, <1>12 DEF Ledger

\* So does every step of the dispatcher.
LEMMA DispatchTyped ==
    ASSUME Typed, Dispatch
    PROVE  Typed'
<1> USE ActorsAssumption, EventsAssumption, BoundsAssumption
    DEF Typed, TypeOK, Held, HeldOK, rows, board, history, local, bounds, Goto, Return, Tick
<1>1. CASE ExpireScan
  BY <1>1 DEF ExpireScan, ActiveRows, Actors, Modes
<1>2. CASE ReclaimScan
  BY <1>2 DEF ReclaimScan, StaleClaims, Actors, Modes
<1>3. CASE Recheck
  BY <1>3 DEF Recheck, Actors, Labels, Statuses
<1>4. CASE Submit
  BY <1>4 DEF Submit
<1>5. CASE Mark
  <2>1. Dispatcher \in Actors
    BY DEF Actors
  <2>2. Outcome(ev[Dispatcher], memo[Dispatcher]) \in {"sent", "failed", "retrying", "expired"}
    BY <1>5, <2>1 DEF Mark, Outcome
  <2>3. status' \in [Events -> Statuses]
    BY <1>5, <2>2 DEF Mark, Statuses, OutboxStatuses, OutboxActive, OutboxTerminal,
       OutboxSuccess, OutboxFailure
  <2>4. memo' \in [Actors -> Statuses \union TaskStatuses]
    BY <1>5, <2>2 DEF Mark, Statuses, OutboxStatuses, OutboxActive, OutboxTerminal,
       OutboxSuccess, OutboxFailure
  <2>5. pc' \in [Actors -> Labels] /\ ev' \in [Actors -> Events \union {NoEvent}]
    BY <1>5, <2>1 DEF Mark, Labels
  <2>6. TypeOK'
    BY <1>5, <2>1, <2>3, <2>4, <2>5 DEF Mark
  <2>7. Held'
    BY <1>5, <2>1 DEF Mark
  <2> QED
    BY <2>6, <2>7
<1>6. ASSUME NEW e \in Events, Expire(e) PROVE Typed'
  BY <1>6 DEF Expire, Close, Actors, Labels, Statuses, OutboxStatuses, OutboxTerminal, OutboxFailure
<1>7. ASSUME NEW e \in Events, Check(e) PROVE Typed'
  BY <1>7 DEF Check, Actors, Labels
<1>8. ASSUME NEW batch \in SUBSET DueRows, ClaimDue(batch) PROVE Typed'
  <2>1. batch \subseteq Events /\ Dispatcher \in Actors
    BY DEF DueRows, Actors
  <2>2. attempts' \in [Events -> Nat]
    BY <1>8 DEF ClaimDue, Charged
  <2>3. status' \in [Events -> Statuses]
    BY <1>8 DEF ClaimDue, Statuses, OutboxStatuses, OutboxActive
  <2> QED
    BY <1>8, <2>1, <2>2, <2>3 DEF ClaimDue, Modes
<1>9. ASSUME NEW outcome \in {"sent", "failed", "retrying"}, Deliver(outcome) PROVE Typed'
  BY <1>9 DEF Deliver, Actors, Labels, Statuses, OutboxStatuses, OutboxActive,
     OutboxTerminal, OutboxSuccess, OutboxFailure
<1>10. ASSUME NEW gone \in SUBSET Events, Rest(gone) PROVE Typed'
  BY <1>10 DEF Rest, Actors, Modes, Statuses
<1> QED
  BY <1>1, <1>2, <1>3, <1>4, <1>5, <1>6, <1>7, <1>8, <1>9, <1>10 DEF Dispatch

\* So does every step of the turn.
LEMMA TurnTyped ==
    ASSUME Typed, Turn
    PROVE  Typed'
<1> USE ActorsAssumption, EventsAssumption, BoundsAssumption
    DEF Typed, TypeOK, Held, HeldOK, rows, board, history, local, bounds, Goto, InTurn, Leave
<1>1. CASE EndTurn
  BY <1>1 DEF EndTurn, Actors, Modes, Labels
<1>2. CASE TurnDone
  BY <1>2 DEF TurnDone, Actors, Modes, Labels
<1>3. CASE TurnFails
  BY <1>3 DEF TurnFails, Actors, Modes, Labels, TaskStatuses
<1>4. CASE CancelTurn
  BY <1>4 DEF CancelTurn, ActiveRows, Actors, Modes
<1>5. CASE CancelDone
  BY <1>5 DEF CancelDone, Actors, Modes, Labels, TaskStatuses
<1>6. ASSUME NEW e \in Events, QueueEvent(e) PROVE Typed'
  BY <1>6 DEF QueueEvent, Steps, StepStatuses, Statuses, OutboxStatuses, OutboxActive
<1>7. ASSUME NEW s \in Tools, StartTool(s) PROVE Typed'
  BY <1>7 DEF StartTool, Steps, StepStatuses, OpenStep
<1>8. ASSUME NEW s \in Tools, NEW result \in {"completed", "failed"}, FinishTool(s, result)
      PROVE  Typed'
  BY <1>8 DEF FinishTool, Steps, StepStatuses, Actors, Labels
<1> QED
  BY <1>1, <1>2, <1>3, <1>4, <1>5, <1>6, <1>7, <1>8 DEF Turn, TurnProceeds

\* So do operators, time and failures.
LEMMA RestTyped ==
    ASSUME Typed, (\E o \in Operators : Operate(o)) \/ Time \/ CallFails \/ Crash
    PROVE  Typed'
<1> USE ActorsAssumption, EventsAssumption, BoundsAssumption
    DEF Typed, TypeOK, Held, HeldOK, rows, board, history, local, bounds, Goto, Return
<1>1. ASSUME NEW o \in Operators, NEW m \in {"retry", "abandon", "recheck"},
             NEW events \in SUBSET Events, Ask(o, m, events)
      PROVE  Typed'
  BY <1>1 DEF Ask, Actors, Modes, Labels
<1>2. ASSUME NEW o \in Operators, Answer(o) PROVE Typed'
  BY <1>2 DEF Answer, Actors, Modes, Labels
<1>3. ASSUME NEW o \in Operators, Operate(o) PROVE Typed'
  <2>1. \A e \in Stored : {e} \in SUBSET Events
    BY DEF Stored
  <2>2. ASSUME NEW e \in Stored, Ask(o, "retry", {e}) PROVE Typed'
    BY <1>1, <2>1, <2>2
  <2>3. ASSUME NEW e \in Stored, Ask(o, "abandon", {e}) PROVE Typed'
    BY <1>1, <2>1, <2>3
  <2>4. CASE Ask(o, "recheck", {})
    BY <1>1, <2>4
  <2>5. CASE Ask(o, "retry", FailedRows)
    <3>1. FailedRows \in SUBSET Events
      BY DEF FailedRows
    <3> QED
      BY <1>1, <2>5, <3>1
  <2> QED
    BY <1>2, <1>3, <2>2, <2>3, <2>4, <2>5 DEF Operate
<1>4. ASSUME NEW e \in Events,
             BecomeDue(e) \/ BecomeStale(e) \/ DebounceEnds(e) \/ DeadlinePasses(e)
      PROVE  Typed'
  BY <1>4 DEF BecomeDue, BecomeStale, DebounceEnds, DeadlinePasses
<1>5. CASE CallFails
  <2>1. crashes' \in 0..MaxCrashes
    BY <1>5 DEF CallFails
  <2>2. TypeOK'
    BY <1>5, <2>1 DEF CallFails, Actors, Modes, Labels, Statuses
  <2>3. Held'
    BY <1>5 DEF CallFails
  <2> QED
    BY <2>2, <2>3
<1>6. CASE Crash
  <2>1. crashes' \in 0..MaxCrashes
    BY <1>6 DEF Crash
  <2>2. pc' \in [Actors -> Labels] /\ mode' \in [Actors -> Modes]
    BY <1>6 DEF Crash, Labels, Modes
  <2>3. memo' \in [Actors -> Statuses \union TaskStatuses]
    BY <1>6 DEF Crash, Statuses
  <2>4. TypeOK'
    BY <1>6, <2>1, <2>2, <2>3 DEF Crash
  <2>5. Held'
    BY <1>6 DEF Crash
  <2> QED
    BY <2>4, <2>5
<1> QED
  BY <1>3, <1>4, <1>5, <1>6 DEF Time

\* So every step does.
LEMMA NextTyped == Typed /\ [Next]_vars => Typed'
<1>1. ASSUME Typed, UNCHANGED vars PROVE Typed'
  BY <1>1 DEF Typed, TypeOK, Held, HeldOK, vars, rows, board, history, local, bounds
<1> QED
  BY <1>1, LedgerTyped, DispatchTyped, TurnTyped, RestTyped DEF Next

\* Every variable keeps its type, whatever the interleaving.
THEOREM TypeCorrect == Spec => []TypeOK
<1>1. Spec => []Typed
  BY InitTyped, NextTyped, PTL DEF Spec
<1>2. Typed => TypeOK
  BY DEF Typed
<1> QED
  BY <1>1, <1>2, PTL

-----------------------------------------------------------------------------
(***************************************************************************)
(* No row says "sent" of an event the adapter did not accept.  What makes  *)
(* this inductive is the outcome the dispatcher carries from the adapter   *)
(* to the row: nobody else may write "sent", and meanwhile rows come and   *)
(* go but an acceptance is never undone.                                   *)
(***************************************************************************)
LEMMA ActorsDiffer ==
    /\ Dispatcher \in Actors /\ Agent \in Actors /\ Agent # Dispatcher
    /\ \A o \in Operators : o \in Actors /\ o # Dispatcher
BY ActorsAssumption DEF Actors

CarriesSent ==
    pc[Dispatcher] \in {"recheck", "mark"} /\ memo[Dispatcher] = "sent"
        => ev[Dispatcher] \in accepted

SentInv == SentWasAccepted /\ CarriesSent

\* Nothing is sent at first.
LEMMA InitSent == Init => SentInv
BY ActorsAssumption DEF Init, SentInv, SentWasAccepted, CarriesSent, Actors

\* Every step that writes sent writes it of an accepted event.
LEMMA NextSent == Typed /\ SentInv /\ [Next]_vars => SentInv'
<1> SUFFICES ASSUME Typed, SentInv, [Next]_vars PROVE SentInv'
  OBVIOUS
<1> USE ActorsDiffer DEF Typed, TypeOK, Held, HeldOK, SentInv, SentWasAccepted, CarriesSent,
    rows, board, history, local, bounds, Goto, Return, Tick
<1>1. ASSUME NEW a \in Actors,
             WriteStep(a) \/ TouchRead(a) \/ TouchWrite(a) \/ GateStart(a) \/ GateReadSteps(a)
               \/ GateReadEvents(a) \/ GateRaises(a) \/ GateWrite(a) \/ RetryTask(a)
      PROVE  SentInv'
  BY <1>1 DEF WriteStep, TouchRead, TouchWrite, GateStart, GateReadSteps, GateReadEvents,
     GateRaises, GateWrite, RetryTask
<1>2. ASSUME NEW a \in Actors, NEW e \in Events, RetryRead(a, e) PROVE SentInv'
  BY <1>2 DEF RetryRead
<1>3. ASSUME NEW a \in Actors, RetryWrite(a) PROVE SentInv'
  BY <1>3 DEF RetryWrite
<1>4. ASSUME NEW a \in Actors, NEW e \in Events, Abandon(a, e) PROVE SentInv'
  BY <1>4 DEF Abandon, Close
<1>5. ASSUME NEW a \in Actors, Ledger(a) PROVE SentInv'
  BY <1>1, <1>2, <1>3, <1>4, <1>5 DEF Ledger
<1>6. CASE Dispatch
  <2>1. CASE ExpireScan \/ ReclaimScan \/ Submit
    BY <2>1 DEF ExpireScan, ReclaimScan, Submit
  <2>2. CASE Recheck
    BY <2>2 DEF Recheck
  <2>3. CASE Mark
    BY <2>3 DEF Mark, Outcome
  <2>4. ASSUME NEW e \in Events, Expire(e) \/ Check(e) PROVE SentInv'
    BY <2>4 DEF Expire, Close, Check
  <2>5. ASSUME NEW batch \in SUBSET DueRows, ClaimDue(batch) PROVE SentInv'
    BY <2>5 DEF ClaimDue
  <2>6. ASSUME NEW outcome \in {"sent", "failed", "retrying"}, Deliver(outcome) PROVE SentInv'
    BY <2>6 DEF Deliver
  <2>7. ASSUME NEW gone \in SUBSET Events, Rest(gone) PROVE SentInv'
    BY <2>7 DEF Rest
  <2> QED
    BY <1>6, <2>1, <2>2, <2>3, <2>4, <2>5, <2>6, <2>7 DEF Dispatch
<1>7. CASE Turn
  BY <1>7 DEF Turn, TurnProceeds, EndTurn, TurnDone, TurnFails, CancelTurn, CancelDone, Leave,
     InTurn, QueueEvent, StartTool, FinishTool
<1>8. ASSUME NEW o \in Operators, Operate(o) PROVE SentInv'
  BY <1>8 DEF Operate, Ask, Answer
<1>9. CASE Time
  BY <1>9 DEF Time, BecomeDue, BecomeStale, DebounceEnds, DeadlinePasses
<1>10. CASE CallFails \/ Crash
  BY <1>10 DEF CallFails, Crash, Actors
<1>11. CASE UNCHANGED vars
  BY <1>11 DEF vars
<1> QED
  BY <1>5, <1>6, <1>7, <1>8, <1>9, <1>10, <1>11 DEF Next

\* A row says "sent" only of an event the adapter accepted.
THEOREM SentIsTrue == Spec => []SentWasAccepted
<1>1. Init => Typed /\ SentInv
  BY InitTyped, InitSent
<1>2. Typed /\ SentInv /\ [Next]_vars => (Typed /\ SentInv)'
  BY NextTyped, NextSent
<1>3. Typed /\ SentInv => SentWasAccepted
  BY DEF SentInv
<1> QED
  BY <1>1, <1>2, <1>3, PTL DEF Spec

-----------------------------------------------------------------------------
(***************************************************************************)
(* Every handoff is charged before it is made.  While the dispatcher goes  *)
(* through a batch, each event it has yet to hand off has an attempt that  *)
(* no handoff has used; a claim put that attempt there, and a retry or a   *)
(* crash in between takes none away.                                       *)
(***************************************************************************)
SpareAttempt ==
    /\ mode[Dispatcher] = "dispatch" =>
          \A e \in todo[Dispatcher] : handoffs[e] < attempts[e]
    /\ pc[Dispatcher] = "deliver" =>
          /\ handoffs[ev[Dispatcher]] < attempts[ev[Dispatcher]]
          /\ ev[Dispatcher] \notin todo[Dispatcher]
          /\ mode[Dispatcher] = "dispatch"

ChargeInv == HandoffsCharged /\ SpareAttempt

\* Nothing is handed off or claimed at first.
LEMMA InitCharge == Init => ChargeInv
BY ActorsAssumption DEF Init, ChargeInv, HandoffsCharged, SpareAttempt, Actors

\* Every handoff uses an attempt that was charged before.
LEMMA NextCharge == Typed /\ ChargeInv /\ [Next]_vars => ChargeInv'
<1> SUFFICES ASSUME Typed, ChargeInv, [Next]_vars PROVE ChargeInv'
  OBVIOUS
<1> USE ActorsDiffer DEF Typed, TypeOK, Held, HeldOK, ChargeInv, HandoffsCharged, SpareAttempt,
    rows, board, history, local, bounds, Goto, Return, Tick
<1>1. ASSUME NEW a \in Actors,
             WriteStep(a) \/ TouchRead(a) \/ TouchWrite(a) \/ GateStart(a) \/ GateReadSteps(a)
               \/ GateReadEvents(a) \/ GateRaises(a) \/ GateWrite(a) \/ RetryTask(a)
      PROVE  ChargeInv'
  BY <1>1 DEF WriteStep, TouchRead, TouchWrite, GateStart, GateReadSteps, GateReadEvents,
     GateRaises, GateWrite, RetryTask
<1>2. ASSUME NEW a \in Actors, NEW e \in Events, RetryRead(a, e) PROVE ChargeInv'
  BY <1>2 DEF RetryRead
<1>3. ASSUME NEW a \in Actors, RetryWrite(a) PROVE ChargeInv'
  BY <1>3 DEF RetryWrite
<1>4. ASSUME NEW a \in Actors, NEW e \in Events, Abandon(a, e) PROVE ChargeInv'
  BY <1>4 DEF Abandon, Close
<1>5. ASSUME NEW a \in Actors, Ledger(a) PROVE ChargeInv'
  BY <1>1, <1>2, <1>3, <1>4, <1>5 DEF Ledger
<1>6. CASE Dispatch
  <2>1. CASE ExpireScan \/ ReclaimScan \/ Submit
    BY <2>1 DEF ExpireScan, ReclaimScan, Submit
  <2>2. CASE Recheck
    BY <2>2 DEF Recheck
  <2>3. CASE Mark
    BY <2>3 DEF Mark
  <2>4. ASSUME NEW e \in Events, Expire(e) \/ Check(e) PROVE ChargeInv'
    BY <2>4 DEF Expire, Close, Check
  <2>5. ASSUME NEW batch \in SUBSET DueRows, ClaimDue(batch) PROVE ChargeInv'
    BY <2>5 DEF ClaimDue, Charged, DueRows
  <2>6. ASSUME NEW outcome \in {"sent", "failed", "retrying"}, Deliver(outcome) PROVE ChargeInv'
    BY <2>6 DEF Deliver
  <2>7. ASSUME NEW gone \in SUBSET Events, Rest(gone) PROVE ChargeInv'
    BY <2>7 DEF Rest
  <2> QED
    BY <1>6, <2>1, <2>2, <2>3, <2>4, <2>5, <2>6, <2>7 DEF Dispatch
<1>7. CASE Turn
  BY <1>7 DEF Turn, TurnProceeds, EndTurn, TurnDone, TurnFails, CancelTurn, CancelDone, Leave,
     InTurn, QueueEvent, StartTool, FinishTool
<1>8. ASSUME NEW o \in Operators, Operate(o) PROVE ChargeInv'
  BY <1>8 DEF Operate, Ask, Answer
<1>9. CASE Time
  BY <1>9 DEF Time, BecomeDue, BecomeStale, DebounceEnds, DeadlinePasses
<1>10. CASE CallFails \/ Crash
  BY <1>10 DEF CallFails, Crash, Actors
<1>11. CASE UNCHANGED vars
  BY <1>11 DEF vars
<1> QED
  BY <1>5, <1>6, <1>7, <1>8, <1>9, <1>10, <1>11 DEF Next

\* Crashes included, the adapter is never called more often than the row was charged.
THEOREM HandoffsAreCharged == Spec => []HandoffsCharged
<1>1. Init => Typed /\ ChargeInv
  BY InitTyped, InitCharge
<1>2. Typed /\ ChargeInv /\ [Next]_vars => (Typed /\ ChargeInv)'
  BY NextTyped, NextCharge
<1>3. Typed /\ ChargeInv => HandoffsCharged
  BY DEF ChargeInv
<1> QED
  BY <1>1, <1>2, <1>3, PTL DEF Spec

-----------------------------------------------------------------------------
(***************************************************************************)
(* The retry budget.  An event that may be claimed has an attempt left: it *)
(* is rescheduled either by the dispatcher, which counts, or by            *)
(* request_outbox_retry, which is counted.                                 *)
(***************************************************************************)
AttemptLeft ==
    \A e \in Events : status[e] \in {"none", "pending", "retrying"} =>
        attempts[e] < MaxAttempts + reopened[e]

BudgetInv == AttemptsGranted /\ AttemptLeft

\* No attempt has been charged at first.
LEMMA InitBudget == Init => BudgetInv
BY BoundsAssumption DEF Init, BudgetInv, AttemptsGranted, AttemptLeft

\* Every claim uses an attempt of the budget or a granted one.
LEMMA NextBudget == Typed /\ BudgetInv /\ [Next]_vars => BudgetInv'
<1> SUFFICES ASSUME Typed, BudgetInv, [Next]_vars PROVE BudgetInv'
  OBVIOUS
<1> USE ActorsAssumption, BoundsAssumption
    DEF Typed, TypeOK, Held, HeldOK, BudgetInv, AttemptsGranted, AttemptLeft,
    rows, board, history, local, bounds, Goto, Return, Tick
<1>1. ASSUME NEW a \in Actors,
             WriteStep(a) \/ TouchRead(a) \/ TouchWrite(a) \/ GateStart(a) \/ GateReadSteps(a)
               \/ GateReadEvents(a) \/ GateRaises(a) \/ GateWrite(a) \/ RetryTask(a)
      PROVE  BudgetInv'
  BY <1>1 DEF WriteStep, TouchRead, TouchWrite, GateStart, GateReadSteps, GateReadEvents,
     GateRaises, GateWrite, RetryTask
<1>2. ASSUME NEW a \in Actors, NEW e \in Events, RetryRead(a, e) PROVE BudgetInv'
  BY <1>2 DEF RetryRead
<1>3. ASSUME NEW a \in Actors, RetryWrite(a) PROVE BudgetInv'
  BY <1>3 DEF RetryWrite
<1>4. ASSUME NEW a \in Actors, NEW e \in Events, Abandon(a, e) PROVE BudgetInv'
  BY <1>4 DEF Abandon, Close
<1>5. ASSUME NEW a \in Actors, Ledger(a) PROVE BudgetInv'
  BY <1>1, <1>2, <1>3, <1>4, <1>5 DEF Ledger
<1>6. CASE Dispatch
  <2>1. CASE ExpireScan \/ ReclaimScan \/ Submit \/ Recheck
    BY <2>1 DEF ExpireScan, ReclaimScan, Submit, Recheck
  <2>2. CASE Mark
    BY <2>2 DEF Mark, Outcome, Actors
  <2>3. ASSUME NEW e \in Events, Expire(e) \/ Check(e) PROVE BudgetInv'
    BY <2>3 DEF Expire, Close, Check
  <2>4. ASSUME NEW batch \in SUBSET DueRows, ClaimDue(batch) PROVE BudgetInv'
    BY <2>4 DEF ClaimDue, Charged, DueRows
  <2>5. ASSUME NEW outcome \in {"sent", "failed", "retrying"}, Deliver(outcome) PROVE BudgetInv'
    BY <2>5 DEF Deliver
  <2>6. ASSUME NEW gone \in SUBSET Events, Rest(gone) PROVE BudgetInv'
    BY <2>6 DEF Rest
  <2> QED
    BY <1>6, <2>1, <2>2, <2>3, <2>4, <2>5, <2>6 DEF Dispatch
<1>7. CASE Turn
  BY <1>7 DEF Turn, TurnProceeds, EndTurn, TurnDone, TurnFails, CancelTurn, CancelDone, Leave,
     InTurn, QueueEvent, StartTool, FinishTool
<1>8. ASSUME NEW o \in Operators, Operate(o) PROVE BudgetInv'
  BY <1>8 DEF Operate, Ask, Answer
<1>9. CASE Time
  BY <1>9 DEF Time, BecomeDue, BecomeStale, DebounceEnds, DeadlinePasses
<1>10. CASE CallFails \/ Crash
  BY <1>10 DEF CallFails, Crash
<1>11. CASE UNCHANGED vars
  BY <1>11 DEF vars
<1> QED
  BY <1>5, <1>6, <1>7, <1>8, <1>9, <1>10, <1>11 DEF Next

\* Beyond max_attempts, each attempt goes back to a rescheduling.
THEOREM AttemptsAreGranted == Spec => []AttemptsGranted
<1>1. Init => Typed /\ BudgetInv
  BY InitTyped, InitBudget
<1>2. Typed /\ BudgetInv /\ [Next]_vars => (Typed /\ BudgetInv)'
  BY NextTyped, NextBudget
<1>3. Typed /\ BudgetInv => AttemptsGranted
  BY DEF BudgetInv
<1> QED
  BY <1>1, <1>2, <1>3, PTL DEF Spec

-----------------------------------------------------------------------------
(***************************************************************************)
(* Who may be doing what, and what an actor may rely on while it has an    *)
(* event in hand: the row is there, nobody but the dispatcher calls it     *)
(* sent, and only an operator's retry may meet a row that is sent at its   *)
(* write, because operators do not keep the dispatcher's order.            *)
(***************************************************************************)
Places ==
    /\ mode[Dispatcher] \in {"idle", "expire", "reclaim", "dispatch"}
    /\ mode[Agent] \in {"idle", "turn", "ending", "cancel"}
    /\ \A o \in Operators : mode[o] \in {"idle", "retry", "abandon", "recheck"}

\* What an actor goes through has been queued; what the dispatcher delivers is
\* not compacted, has been handed off when there is a result, and is not sent
\* when the result is recorded.
WorkKnown ==
    /\ \A a \in Actors : \A e \in todo[a] : status[e] # "none"
    /\ \A a \in Actors : pc[a] = "reopen" => status[ev[a]] # "none"
    /\ pc[Dispatcher] \in {"deliver", "recheck", "mark"} =>
          /\ mode[Dispatcher] = "dispatch"
          /\ status[ev[Dispatcher]] \notin {"none", "dropped"}
    /\ pc[Dispatcher] \in {"recheck", "mark"} => handoffs[ev[Dispatcher]] > 0
    /\ pc[Dispatcher] = "mark" => status[ev[Dispatcher]] # "sent"

\* Events are reopened at an operator's request, or by the dispatcher's sweep,
\* which never reopens what is sent.
SweepsUnsent ==
    \A a \in Actors : pc[a] = "reopen" =>
        \/ a \in Operators /\ mode[a] = "retry"
        \/ a = Dispatcher /\ mode[a] = "reclaim" /\ status[ev[a]] # "sent"

HandInv == Places /\ WorkKnown /\ SweepsUnsent

\* Nobody has an event in hand at first.
LEMMA InitHand == Init => HandInv
BY ActorsAssumption DEF Init, HandInv, Places, WorkKnown, SweepsUnsent, Actors

\* Ledger calls but for the writes of outbox rows.
LEMMA CallsHand ==
    ASSUME Typed, HandInv, NEW a \in Actors,
           WriteStep(a) \/ TouchRead(a) \/ TouchWrite(a) \/ GateStart(a) \/ GateReadSteps(a)
             \/ GateReadEvents(a) \/ GateRaises(a) \/ GateWrite(a) \/ RetryTask(a)
    PROVE  HandInv'
<1> USE ActorsDiffer DEF Typed, TypeOK, Held, HeldOK, HandInv, rows, board, history, local,
    bounds, Goto, Return
<1>0. UNCHANGED <<status, handoffs, mode, todo>>
  BY DEF WriteStep, TouchRead, TouchWrite, GateStart, GateReadSteps, GateReadEvents,
     GateRaises, GateWrite, RetryTask
<1>1. \A b \in Actors : \/ pc'[b] = pc[b] /\ ev'[b] = ev[b]
                        \/ pc'[b] \notin {"reopen", "deliver", "recheck", "mark"}
  BY DEF WriteStep, TouchRead, TouchWrite, GateStart, GateReadSteps, GateReadEvents,
     GateRaises, GateWrite, RetryTask
<1> QED
  BY <1>0, <1>1 DEF Places, WorkKnown, SweepsUnsent

\* An actor that reopens or closes an event.
LEMMA WritesHand ==
    ASSUME Typed, HandInv, NEW a \in Actors,
           RetryWrite(a) \/ \E e \in Events : RetryRead(a, e) \/ Close(a, e, "abandoned")
                                              \/ Close(a, e, "expired")
    PROVE  HandInv'
<1> USE ActorsDiffer DEF Typed, TypeOK, Held, HeldOK, HandInv, rows, board, history, local,
    bounds, Goto, Return
<1>1. ASSUME NEW e \in Events, RetryRead(a, e) PROVE HandInv'
  <2>1. UNCHANGED <<status, handoffs, mode>>
    BY <1>1 DEF RetryRead
  <2>2. /\ \A b \in Actors : todo'[b] \subseteq todo[b]
        /\ e \in todo[a] /\ mode[a] \in {"retry", "reclaim"} /\ pc[a] = "next"
        /\ \A b \in Actors : b # a => pc'[b] = pc[b] /\ ev'[b] = ev[b]
        /\ \/ pc'[a] = pc[a]
           \/ pc'[a] = "reopen" /\ ev'[a] = e /\ status[e] # "sent"
    BY <1>1 DEF RetryRead
  <2>3. Places'
    BY <2>1 DEF Places
  <2>4. WorkKnown'
    BY <2>1, <2>2 DEF WorkKnown
  <2>5. SweepsUnsent'
    BY <2>1, <2>2, <2>3 DEF SweepsUnsent, Places, Actors
  <2> QED
    BY <2>3, <2>4, <2>5
<1>2. CASE RetryWrite(a)
  <2>1. UNCHANGED <<handoffs, mode, todo>>
    BY <1>2 DEF RetryWrite
  <2>2. /\ \A e \in Events : status'[e] = status[e] \/ status'[e] \in {"pending", "retrying"}
        /\ \A b \in Actors : b # a => pc'[b] = pc[b] /\ ev'[b] = ev[b]
        /\ pc'[a] \in {"next", "task"}
    BY <1>2 DEF RetryWrite
  <2> QED
    BY <2>1, <2>2 DEF Places, WorkKnown, SweepsUnsent
<1>3. ASSUME NEW e \in Events, NEW s \in {"abandoned", "expired"}, Close(a, e, s)
      PROVE  HandInv'
  <2>1. UNCHANGED <<handoffs, mode>>
    BY <1>3 DEF Close
  <2>2. /\ \A d \in Events : status'[d] = status[d] \/ status'[d] = s
        /\ \A b \in Actors : todo'[b] \subseteq todo[b]
        /\ \A b \in Actors : b # a => pc'[b] = pc[b] /\ ev'[b] = ev[b]
        /\ pc'[a] \in {"next", "step"}
    BY <1>3 DEF Close
  <2> QED
    BY <2>1, <2>2 DEF Places, WorkKnown, SweepsUnsent
<1> QED
  BY <1>1, <1>2, <1>3

\* A step of the dispatcher.
LEMMA DispatchHand ==
    ASSUME Typed, HandInv, Dispatch
    PROVE  HandInv'
<1> USE ActorsDiffer DEF Typed, TypeOK, Held, HeldOK, HandInv, rows, board, history, local,
    bounds, Goto, Return, Tick
<1>1. CASE ExpireScan \/ ReclaimScan
  <2>1. /\ UNCHANGED <<status, handoffs, pc, ev>>
        /\ \A a \in Actors : a # Dispatcher => mode'[a] = mode[a] /\ todo'[a] = todo[a]
        /\ pc[Dispatcher] = "next"
        /\ mode'[Dispatcher] \in {"expire", "reclaim"}
        /\ \A e \in todo'[Dispatcher] : status[e] # "none"
    BY <1>1 DEF ExpireScan, ReclaimScan, ActiveRows, StaleClaims, OutboxActive
  <2> QED
    BY <2>1 DEF Places, WorkKnown, SweepsUnsent
<1>2. CASE Submit
  BY <1>2 DEF Submit, Places, WorkKnown, SweepsUnsent
<1>3. CASE Recheck
  BY <1>3 DEF Recheck, Places, WorkKnown, SweepsUnsent
<1>4. CASE Mark
  <2>1. Outcome(ev[Dispatcher], memo[Dispatcher]) \in {"sent", "failed", "retrying", "expired"}
    BY <1>4 DEF Mark, Outcome
  <2>2. /\ UNCHANGED <<handoffs, mode, todo>>
        /\ pc[Dispatcher] = "mark" /\ pc'[Dispatcher] \in {"next", "step"}
        /\ \A a \in Actors : a # Dispatcher => pc'[a] = pc[a] /\ ev'[a] = ev[a]
        /\ \A e \in Events : status'[e] = status[e] \/ status'[e] # "none"
    BY <1>4, <2>1 DEF Mark
  <2>3. mode[Dispatcher] = "dispatch"
    BY <2>2 DEF WorkKnown
  <2>4. Places' /\ WorkKnown'
    BY <2>2 DEF Places, WorkKnown
  <2>5. SweepsUnsent'
    BY <2>2 DEF SweepsUnsent
  <2> QED
    BY <2>4, <2>5
<1>5. ASSUME NEW e \in Events, Expire(e) PROVE HandInv'
  BY <1>5, WritesHand DEF Expire
<1>6. ASSUME NEW e \in Events, Check(e) PROVE HandInv'
  BY <1>6 DEF Check, Places, WorkKnown, SweepsUnsent
<1>7. ASSUME NEW batch \in SUBSET DueRows, ClaimDue(batch) PROVE HandInv'
  <2>1. /\ UNCHANGED <<handoffs, pc, ev>>
        /\ \A a \in Actors : a # Dispatcher => mode'[a] = mode[a] /\ todo'[a] = todo[a]
        /\ pc[Dispatcher] = "next" /\ mode'[Dispatcher] = "dispatch"
        /\ todo'[Dispatcher] = batch
        /\ \A e \in Events : status'[e] = IF e \in batch THEN "claimed" ELSE status[e]
    BY <1>7 DEF ClaimDue
  <2> QED
    BY <2>1 DEF Places, WorkKnown, SweepsUnsent, DueRows
<1>8. ASSUME NEW outcome \in {"sent", "failed", "retrying"}, Deliver(outcome) PROVE HandInv'
  BY <1>8 DEF Deliver, Places, WorkKnown, SweepsUnsent
<1>9. ASSUME NEW gone \in SUBSET Events, Rest(gone) PROVE HandInv'
  <2>1. /\ UNCHANGED <<handoffs, pc, ev>>
        /\ \A a \in Actors : a # Dispatcher => mode'[a] = mode[a] /\ todo'[a] = todo[a]
        /\ pc[Dispatcher] = "next" /\ mode'[Dispatcher] = "idle"
        /\ todo'[Dispatcher] = {}
        /\ \A e \in Events : status'[e] = status[e] \/ status'[e] = "dropped"
    BY <1>9 DEF Rest
  <2> QED
    BY <2>1 DEF Places, WorkKnown, SweepsUnsent
<1> QED
  BY <1>1, <1>2, <1>3, <1>4, <1>5, <1>6, <1>7, <1>8, <1>9 DEF Dispatch

\* A step of the turn.
LEMMA TurnHand ==
    ASSUME Typed, HandInv, Turn
    PROVE  HandInv'
<1> USE ActorsDiffer, ActorsAssumption
    DEF Typed, TypeOK, Held, HeldOK, HandInv, rows, board, history, local, bounds,
        Goto, Leave, InTurn
<1>1. CASE EndTurn \/ TurnDone \/ TurnFails \/ CancelTurn \/ CancelDone
  <2>1. /\ UNCHANGED <<status, handoffs, ev>>
        /\ \A a \in Actors : a # Agent => mode'[a] = mode[a] /\ todo'[a] = todo[a] /\ pc'[a] = pc[a]
        /\ pc'[Agent] \in {"next", "gate", "idle"}
        /\ mode'[Agent] \in {"idle", "ending", "cancel"}
        /\ todo'[Agent] = todo[Agent] \/ todo'[Agent] = ActiveRows
    BY <1>1 DEF EndTurn, TurnDone, TurnFails, CancelTurn, CancelDone
  <2>2. Places'
    BY <2>1 DEF Places
  <2>3. WorkKnown'
    BY <2>1 DEF WorkKnown, ActiveRows, OutboxActive
  <2>4. SweepsUnsent'
    BY <2>1 DEF SweepsUnsent
  <2> QED
    BY <2>2, <2>3, <2>4
<1>2. ASSUME NEW e \in Events, QueueEvent(e) PROVE HandInv'
  BY <1>2 DEF QueueEvent, Places, WorkKnown, SweepsUnsent
<1>3. ASSUME NEW s \in Tools, StartTool(s) \/ FinishTool(s, "completed") \/ FinishTool(s, "failed")
      PROVE  HandInv'
  BY <1>3 DEF StartTool, FinishTool, Places, WorkKnown, SweepsUnsent
<1> QED
  BY <1>1, <1>2, <1>3 DEF Turn, TurnProceeds

\* Operators, time and failures.
LEMMA RestHand ==
    ASSUME Typed, HandInv, (\E o \in Operators : Operate(o)) \/ Time \/ CallFails \/ Crash
    PROVE  HandInv'
<1> USE ActorsDiffer, ActorsAssumption
    DEF Typed, TypeOK, Held, HeldOK, HandInv, rows, board, history, local, bounds, Goto, Return
<1>1. ASSUME NEW o \in Operators, NEW m \in {"retry", "abandon", "recheck"},
             NEW events \in SUBSET Stored, Ask(o, m, events)
      PROVE  HandInv'
  <2>1. \A e \in events : status[e] # "none"
    BY DEF Stored, OutboxStatuses, OutboxActive, OutboxTerminal, OutboxSuccess,
           OutboxFailure, OutboxAbandoned
  <2> QED
    BY <1>1, <2>1 DEF Ask, Places, WorkKnown, SweepsUnsent
<1>2. ASSUME NEW o \in Operators, Operate(o) PROVE HandInv'
  <2>1. FailedRows \in SUBSET Stored /\ {} \in SUBSET Stored
    BY DEF FailedRows, Stored, OutboxStatuses, OutboxTerminal
  <2>2. \A e \in Stored : {e} \in SUBSET Stored
    OBVIOUS
  <2>3. CASE Answer(o)
    BY <2>3 DEF Answer, Places, WorkKnown, SweepsUnsent
  <2> QED
    BY <1>1, <1>2, <2>1, <2>2, <2>3 DEF Operate
<1>3. CASE Time
  BY <1>3 DEF Time, BecomeDue, BecomeStale, DebounceEnds, DeadlinePasses, Places, WorkKnown, SweepsUnsent
<1>4. CASE CallFails
  BY <1>4 DEF CallFails, Places, WorkKnown, SweepsUnsent
<1>5. CASE Crash
  BY <1>5 DEF Crash, Places, WorkKnown, SweepsUnsent
<1> QED
  BY <1>2, <1>3, <1>4, <1>5

\* So every step keeps it.
LEMMA NextHand == Typed /\ HandInv /\ [Next]_vars => HandInv'
<1> SUFFICES ASSUME Typed, HandInv, [Next]_vars PROVE HandInv'
  OBVIOUS
<1>1. ASSUME NEW a \in Actors, Ledger(a) PROVE HandInv'
  BY <1>1, CallsHand, WritesHand DEF Ledger, Abandon
<1>2. CASE UNCHANGED vars
  BY <1>2 DEF vars, rows, board, history, local, HandInv, Places, WorkKnown, SweepsUnsent
<1> QED
  BY <1>1, <1>2, DispatchHand, TurnHand, RestHand DEF Next

-----------------------------------------------------------------------------
(* What is sent stays sent, but for a retry that was overtaken               *)

\* An operator's retry has read an event that has become sent since.
RetryOvertaken ==
    \E o \in Operators : pc[o] = "reopen" /\ status[ev[o]] = "sent"

\* One step sets a sent event back only if it is such a retry's write.
LEMMA SentStep ==
    ASSUME Typed, HandInv, ~RetryOvertaken, [Next]_vars, NEW e \in Events, status[e] = "sent"
    PROVE  status'[e] \notin OutboxActive
<1> USE ActorsDiffer DEF Typed, TypeOK, HandInv, rows, board, history, local, OutboxActive, Tick
<1>1. ASSUME NEW a \in Actors, RetryWrite(a) PROVE status'[e] \notin OutboxActive
  <2>1. status[ev[a]] # "sent"
    BY <1>1 DEF RetryWrite, SweepsUnsent, RetryOvertaken
  <2> QED
    BY <1>1, <2>1 DEF RetryWrite
<1>2. ASSUME NEW a \in Actors, Ledger(a), ~RetryWrite(a) PROVE status'[e] \notin OutboxActive
  BY <1>2 DEF Ledger, WriteStep, TouchRead, TouchWrite, GateStart, GateReadSteps, GateReadEvents,
     GateRaises, GateWrite, RetryRead, RetryTask, Abandon, Close
<1>3. CASE Mark
  BY <1>3 DEF Mark, WorkKnown
<1>4. ASSUME Dispatch, ~Mark PROVE status'[e] \notin OutboxActive
  BY <1>4 DEF Dispatch, ExpireScan, ReclaimScan, Recheck, Submit, Expire, Close, Check, ClaimDue,
     DueRows, Deliver, Rest
<1>5. CASE Turn
  BY <1>5 DEF Turn, TurnProceeds, EndTurn, TurnDone, TurnFails, CancelTurn, CancelDone, Leave,
     QueueEvent, StartTool, FinishTool
<1>6. CASE (\E o \in Operators : Operate(o)) \/ Time \/ CallFails \/ Crash
  BY <1>6 DEF Operate, Ask, Answer, Time, BecomeDue, BecomeStale, DebounceEnds, DeadlinePasses,
     CallFails, Crash
<1>7. CASE UNCHANGED vars
  BY <1>7 DEF vars
<1> QED
  BY <1>1, <1>2, <1>3, <1>4, <1>5, <1>6, <1>7 DEF Next

\* The dispatcher's sweeps, crashes, failing calls and cancelled turns never set
\* a sent event back, and neither does an operator's retry unless the event was
\* sent between its read and its write.
THEOREM SentStaysSent == Spec /\ []~RetryOvertaken => SentNotRetried
<1>1. Init => Typed /\ HandInv
  BY InitTyped, InitHand
<1>2. Typed /\ HandInv /\ [Next]_vars => (Typed /\ HandInv)'
  BY NextTyped, NextHand
<1>3. Typed /\ HandInv /\ ~RetryOvertaken /\ [Next]_vars
        => [\A e \in Events : status[e] = "sent" => status'[e] \notin OutboxActive]_vars
  BY SentStep
<1> QED
  BY <1>1, <1>2, <1>3, PTL DEF Spec, SentNotRetried

\* So as long as no operator asks for a retry, what is sent stays sent, whatever
\* else operators do and whatever fails.
THEOREM SentStaysUnasked ==
    Spec /\ [](\A o \in Operators : mode[o] # "retry") => SentNotRetried
<1>1. Init => Typed /\ HandInv
  BY InitTyped, InitHand
<1>2. Typed /\ HandInv /\ [Next]_vars => (Typed /\ HandInv)'
  BY NextTyped, NextHand
<1>3. HandInv /\ (\A o \in Operators : mode[o] # "retry") => ~RetryOvertaken
  BY ActorsDiffer DEF HandInv, SweepsUnsent, RetryOvertaken
<1> QED
  BY <1>1, <1>2, <1>3, SentStaysSent, PTL DEF Spec

-----------------------------------------------------------------------------
(***************************************************************************)
(* The books of the outbox under interference: every step of the ledger,   *)
(* the turn, the operators and the failures is a step of DeliveryAccount   *)
(* or none.                                                                *)
(***************************************************************************)
Account == INSTANCE DeliveryAccount WITH phase <- Phase

\* The contracts' names for the statuses of a row.
LEMMA PhaseNames ==
    /\ PhaseName("none") = "absent"
    /\ \A s \in OutboxActive : PhaseName(s) = "open"
    /\ PhaseName("sent") = "delivered"
    /\ PhaseName("failed") = "given up" /\ PhaseName("expired") = "given up"
    /\ PhaseName("abandoned") = "given up"
    /\ \A s \in OutboxTerminal : PhaseName(s) \in {"delivered", "given up"}
    /\ PhaseName("dropped") = "forgotten"
BY DEF PhaseName, OutboxActive, OutboxTerminal, OutboxSuccess, OutboxFailure, OutboxAbandoned

\* A row that gets status s gives its event the phase of s.
LEMMA PhaseMoves ==
    ASSUME TypeOK, NEW e \in Events, NEW s, status' = [status EXCEPT ![e] = s]
    PROVE  Phase' = [Phase EXCEPT ![e] = PhaseName(s)] /\ Phase[e] = PhaseName(status[e])
BY DEF Phase, TypeOK

\* A row in the ledger is an effect the contract knows.
LEMMA KnownRows ==
    ASSUME TypeOK, NEW e \in Events, status[e] \notin {"none", "dropped"}
    PROVE  /\ Account!Known(e)
           /\ status[e] # "sent" => Phase[e] \in {"open", "given up"}
<1>1. status[e] \in OutboxActive \union OutboxTerminal
  BY DEF TypeOK, Statuses, OutboxStatuses
<1>2. Phase[e] = PhaseName(status[e])
  BY DEF Phase
<1>3. status[e] # "sent" => Phase[e] \in {"open", "given up"}
  BY <1>1, <1>2 DEF PhaseName
<1> QED
  BY <1>2, <1>3, PhaseNames DEF Account!Known

\* The first row states no effect.
LEMMA InitAccount == Init => Account!Init
<1> SUFFICES ASSUME Init PROVE Account!Init
  OBVIOUS
<1>1. Phase = [e \in Events |-> "absent"]
  BY PhaseNames DEF Init, Phase
<1>2. /\ handoffs = [e \in Events |-> 0] /\ accepted = {}
      /\ reopened = [e \in Events |-> 0]
  BY DEF Init
<1> QED
  BY <1>1, <1>2 DEF Account!Init

\* The variables of the contract.
Booked == <<Phase, handoffs, accepted, reopened>>

\* Closing an event gives it up or does nothing.
LEMMA CloseAccount ==
    ASSUME Typed, HandInv, NEW a \in Actors, NEW e \in Events,
           NEW s \in {"abandoned", "expired"}, Close(a, e, s)
    PROVE  Account!Next \/ UNCHANGED Booked
<1>0. UNCHANGED history
  BY DEF Close
<1>1. CASE status[e] = "dropped"
  BY <1>0, <1>1 DEF Close, Booked, Phase, history
<1>2. CASE status[e] # "dropped"
  <2>1. status' = [status EXCEPT ![e] = s]
    BY <1>2 DEF Close
  <2>2. Phase' = [Phase EXCEPT ![e] = "given up"]
    <3>1. Phase' = [Phase EXCEPT ![e] = PhaseName(s)]
      BY <2>1, PhaseMoves DEF Typed
    <3>2. PhaseName(s) = "given up"
      BY PhaseNames
    <3> QED
      BY <3>1, <3>2
  <2>3. Account!Known(e)
    BY <1>2, KnownRows DEF Close, Typed, HandInv, WorkKnown
  <2>4. Account!GiveUp(e)
    BY <1>0, <2>2, <2>3 DEF Account!GiveUp, Account!Becomes, history
  <2> QED
    BY <2>4 DEF Account!Next
<1> QED
  BY <1>1, <1>2

\* A ledger call books a rescheduling or an end, or nothing.
LEMMA LedgerAccount ==
    ASSUME Typed, HandInv, NEW a \in Actors, Ledger(a)
    PROVE  Account!Next \/ UNCHANGED Booked
<1> DEFINE e == ev[a]
<1>1. CASE RetryWrite(a)
  <2>1. e \in Events /\ status[e] # "none" /\ memo[a] \in {"pending", "retrying"}
    BY <1>1 DEF RetryWrite, Typed, Held, HeldOK, HandInv, WorkKnown
  <2>2. CASE status[e] = "dropped"
    BY <1>1, <2>2 DEF RetryWrite, Booked, Phase, rows, history
  <2>3. CASE status[e] # "dropped"
    <3>1. /\ status' = [status EXCEPT ![e] = memo[a]]
          /\ reopened' = [reopened EXCEPT ![e] = @ + 1]
          /\ UNCHANGED <<handoffs, accepted>>
      BY <1>1, <2>3 DEF RetryWrite
    <3>2. Phase' = [Phase EXCEPT ![e] = "open"]
      <4>1. Phase' = [Phase EXCEPT ![e] = PhaseName(memo[a])]
        BY <2>1, <3>1, PhaseMoves DEF Typed
      <4>2. PhaseName(memo[a]) = "open"
        BY <2>1, PhaseNames DEF OutboxActive
      <4> QED
        BY <4>1, <4>2
    <3>3. Account!Known(e)
      BY <2>1, <2>3, KnownRows DEF Typed
    <3>4. Account!Reopen(e)
      BY <3>1, <3>2, <3>3 DEF Account!Reopen, Account!Becomes
    <3> QED
      BY <2>1, <3>4 DEF Account!Next
  <2> QED
    BY <2>2, <2>3
<1>2. ASSUME NEW d \in Events, Abandon(a, d) PROVE Account!Next \/ UNCHANGED Booked
  BY <1>2, CloseAccount DEF Abandon
<1>3. ASSUME \/ WriteStep(a) \/ TouchRead(a) \/ TouchWrite(a) \/ GateStart(a) \/ GateReadSteps(a)
             \/ GateReadEvents(a) \/ GateRaises(a) \/ GateWrite(a) \/ RetryTask(a)
             \/ \E d \in Events : RetryRead(a, d)
      PROVE  UNCHANGED Booked
  BY <1>3 DEF WriteStep, TouchRead, TouchWrite, GateStart, GateReadSteps, GateReadEvents,
     GateRaises, GateWrite, RetryTask, RetryRead, Booked, Phase, rows, history
<1> QED
  BY <1>1, <1>2, <1>3 DEF Ledger

\* What the dispatcher records is the result of a handoff that was booked.
LEMMA MarkAccount ==
    ASSUME Typed, HandInv, SentInv, ChargeInv, BudgetInv, Mark
    PROVE  Account!Next \/ UNCHANGED Booked
<1> DEFINE e == ev[Dispatcher]
           s == Outcome(e, memo[Dispatcher])
<1>1. /\ e \in Events /\ status[e] \notin {"none", "dropped", "sent"}
      /\ handoffs[e] > 0
      /\ memo[Dispatcher] \in {"sent", "failed", "retrying"}
      /\ UNCHANGED history
  BY ActorsDiffer DEF Mark, Typed, Held, HeldOK, HandInv, WorkKnown
<1>2. /\ s \in {"sent", "failed", "expired", "retrying"}
      /\ status' = [status EXCEPT ![e] = s]
  BY <1>1 DEF Mark, Outcome
<1>3. /\ Phase' = [Phase EXCEPT ![e] = PhaseName(s)]
      /\ Phase[e] \in {"open", "given up"} /\ Account!Known(e)
  BY <1>1, <1>2, PhaseMoves, KnownRows DEF Typed
<1>4. CASE s = "sent"
  <2>1. e \in accepted
    BY <1>1, <1>4 DEF Mark, Outcome, SentInv, CarriesSent
  <2>2. Account!Confirm(e)
    BY <1>1, <1>3, <1>4, <2>1, PhaseNames DEF Account!Confirm, Account!Becomes, history
  <2> QED
    BY <1>1, <2>2 DEF Account!Next
<1>5. CASE s \in {"failed", "expired"}
  <2>1. Account!GiveUp(e)
    BY <1>1, <1>3, <1>5, PhaseNames DEF Account!GiveUp, Account!Becomes, history
  <2> QED
    BY <1>1, <2>1 DEF Account!Next
<1>6. CASE s = "retrying"
  <2>1. PhaseName(s) = "open"
    BY <1>6, PhaseNames DEF OutboxActive
  <2>2. CASE Phase[e] = "open"
    <3>1. Phase' = Phase
      BY <1>3, <2>1, <2>2 DEF Phase
    <3> QED
      BY <1>1, <3>1 DEF Booked, history
  <2>3. CASE Phase[e] = "given up"
    <3>1. attempts[e] < MaxAttempts
      BY <1>1, <1>6, BoundsAssumption DEF Outcome, Typed, TypeOK
    <3>2. handoffs[e] <= attempts[e]
      BY <1>1 DEF ChargeInv, HandoffsCharged
    <3>3. handoffs[e] < Account!Budget(e) /\ 0 < handoffs[e]
      BY <1>1, <3>1, <3>2, BoundsAssumption DEF Account!Budget, Typed, TypeOK
    <3>4. Account!Postpone(e)
      BY <1>1, <1>3, <2>1, <2>3, <3>3 DEF Account!Postpone, Account!Becomes, history
    <3> QED
      BY <1>1, <3>4 DEF Account!Next
  <2> QED
    BY <1>3, <2>2, <2>3
<1> QED
  BY <1>2, <1>4, <1>5, <1>6

\* A handoff has an attempt left that was granted.
LEMMA DeliverAccount ==
    ASSUME Typed, HandInv, ChargeInv, BudgetInv,
           NEW outcome \in {"sent", "failed", "retrying"}, Deliver(outcome)
    PROVE  Account!Next
<1> DEFINE e == ev[Dispatcher]
<1>1. /\ e \in Events /\ status[e] \notin {"none", "dropped"}
      /\ handoffs[e] < attempts[e]
  BY ActorsDiffer DEF Deliver, Typed, Held, HeldOK, HandInv, WorkKnown, ChargeInv, SpareAttempt
<1>2. attempts[e] <= MaxAttempts + reopened[e]
  BY <1>1 DEF BudgetInv, AttemptsGranted
<1>3. handoffs[e] < Account!Budget(e)
  BY <1>1, <1>2, BoundsAssumption DEF Account!Budget, Typed, TypeOK
<1>4. Account!Known(e)
  BY <1>1, KnownRows DEF Typed
<1>5. /\ Phase' = Phase
      /\ handoffs' = [handoffs EXCEPT ![e] = @ + 1]
      /\ accepted' \in {accepted, accepted \union {e}}
      /\ reopened' = reopened
  BY DEF Deliver, Phase, rows
<1>6. Account!HandOff(e)
  BY <1>3, <1>4, <1>5 DEF Account!HandOff
<1> QED
  BY <1>1, <1>6 DEF Account!Next

\* So what the dispatcher does is booked, or concerns no book.
LEMMA DispatchAccount ==
    ASSUME Typed, HandInv, SentInv, ChargeInv, BudgetInv, Dispatch
    PROVE  Account!Next \/ UNCHANGED Booked
<1>1. ASSUME NEW e \in Events, Check(e) PROVE UNCHANGED Booked
  BY <1>1 DEF Check, Booked, Phase, rows, history
<1>2. ExpireScan \/ ReclaimScan \/ Recheck \/ Submit => UNCHANGED Booked
  BY DEF ExpireScan, ReclaimScan, Recheck, Submit, Tick, Booked, Phase, rows, history
<1>3. ASSUME NEW e \in Events, Expire(e) PROVE Account!Next \/ UNCHANGED Booked
  BY <1>3, CloseAccount, ActorsDiffer DEF Expire
<1>4. ASSUME NEW batch \in SUBSET DueRows, ClaimDue(batch) PROVE UNCHANGED Booked
  <2>1. \A e \in Events : PhaseName(status'[e]) = PhaseName(status[e])
    BY <1>4, PhaseNames DEF ClaimDue, DueRows, OutboxActive
  <2> QED
    BY <1>4, <2>1 DEF ClaimDue, history, Phase, Booked
<1>5. ASSUME NEW gone \in SUBSET Events, Rest(gone) PROVE Account!Next
  <2>1. /\ \A e \in gone : status[e] \in OutboxTerminal
        /\ status' = [e \in Events |-> IF e \in gone THEN "dropped" ELSE status[e]]
        /\ UNCHANGED history
    BY <1>5 DEF Rest, Tick
  <2>2. \A e \in gone : Phase[e] \in {"delivered", "given up"}
    BY <2>1, PhaseNames DEF Phase
  <2>3. Phase' = [e \in Events |-> IF e \in gone THEN "forgotten" ELSE Phase[e]]
    BY <2>1, PhaseNames DEF Phase
  <2>4. Account!Forget(gone)
    BY <2>1, <2>2, <2>3 DEF Account!Forget, history
  <2> QED
    BY <2>4 DEF Account!Next
<1> QED
  BY <1>1, <1>2, <1>3, <1>4, <1>5, MarkAccount, DeliverAccount DEF Dispatch

\* A turn queues effects, and nothing else of it is booked.
LEMMA TurnAccount ==
    ASSUME Typed, Turn
    PROVE  Account!Next \/ UNCHANGED Booked
<1>1. ASSUME NEW e \in Events, QueueEvent(e) PROVE Account!Next
  <2>1. /\ status[e] = "none" /\ status' = [status EXCEPT ![e] = "pending"]
        /\ UNCHANGED history
    BY <1>1 DEF QueueEvent
  <2>2. Phase[e] = PhaseName("none") /\ Phase' = [Phase EXCEPT ![e] = PhaseName("pending")]
    BY <2>1, PhaseMoves DEF Typed
  <2>3. Account!Queue(e)
    BY <2>1, <2>2, PhaseNames DEF Account!Queue, Account!Becomes, OutboxActive, history
  <2> QED
    BY <2>3 DEF Account!Next
<1>2. ASSUME NEW s \in Tools,
             StartTool(s) \/ FinishTool(s, "completed") \/ FinishTool(s, "failed")
      PROVE  UNCHANGED Booked
  BY <1>2 DEF StartTool, FinishTool, rows, history, Phase, Booked
<1>3. CASE EndTurn \/ TurnDone \/ TurnFails \/ CancelTurn \/ CancelDone
  BY <1>3 DEF EndTurn, TurnDone, TurnFails, CancelTurn, CancelDone, Leave, rows, history, Phase,
     Booked
<1> QED
  BY <1>1, <1>2, <1>3 DEF Turn, TurnProceeds

\* Every step is a step of the contract or none.
LEMMA NextAccount ==
    Typed /\ HandInv /\ SentInv /\ ChargeInv /\ BudgetInv /\ [Next]_vars
        => [Account!Next]_Booked
<1> SUFFICES ASSUME Typed, HandInv, SentInv, ChargeInv, BudgetInv, [Next]_vars
             PROVE  Account!Next \/ UNCHANGED Booked
  OBVIOUS
<1>1. CASE (\E o \in Operators : Operate(o)) \/ Time \/ CallFails \/ Crash
  BY <1>1 DEF Operate, Ask, Answer, Time, BecomeDue, BecomeStale, DebounceEnds, DeadlinePasses,
     CallFails, Crash, rows, history, Phase, Booked
<1>2. CASE UNCHANGED vars
  BY <1>2 DEF vars, rows, history, Phase, Booked
<1> QED
  BY <1>1, <1>2, LedgerAccount, DispatchAccount, TurnAccount DEF Next

\* Whoever interferes, the outbox keeps its books as DeliveryAccount says: no
\* handoff beyond max_attempts and what was rescheduled, no delivery that was
\* not accepted, no uncounted reopening of what was delivered, nothing of what
\* was compacted.
THEOREM KeepsAccount == Spec => Account!Spec
<1> DEFINE I == Typed /\ HandInv /\ SentInv /\ ChargeInv /\ BudgetInv
<1>1. Init => I /\ Account!Init
  BY InitTyped, InitHand, InitSent, InitCharge, InitBudget, InitAccount
<1>2. I /\ [Next]_vars => I'
  BY NextTyped, NextHand, NextSent, NextCharge, NextBudget
<1>3. I /\ [Next]_vars => [Account!Next]_(Account!vars)
  BY NextAccount DEF Booked, Account!vars
<1> QED
  BY <1>1, <1>2, <1>3, PTL DEF Spec, Account!Spec
=============================================================================
