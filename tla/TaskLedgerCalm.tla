--------------------------- MODULE TaskLedgerCalm ---------------------------
(***************************************************************************)
(* As long as nobody interrupts the task and nothing fails, for any number *)
(* of events, tools and attempts: every step of the ledger, the dispatcher *)
(* and the turn is a step of DeliveryContract or none, and a turn that     *)
(* only queued events comes to rest on the gate's decision.  That the      *)
(* contract's events settle is liveness and left to TLC.                   *)
(***************************************************************************)
EXTENDS TaskLedgerProofs

(***************************************************************************)
(* What undisturbed actors do.  A claim lives for the tick that made it:   *)
(* the dispatcher has it in its batch or in hand, so the sweep that looks  *)
(* for stale claims finds none, and nothing is ever reopened.              *)
(***************************************************************************)
Undistracted ==
    /\ mode[Agent] \in {"turn", "ending", "idle"}
    /\ mode[Dispatcher] \in {"idle", "expire", "reclaim", "dispatch"}
    /\ \A a \in {Dispatcher, Agent} : pc[a] \notin {"reopen", "task"}

SweepsOpen ==
    /\ mode[Dispatcher] = "expire" =>
          \A e \in todo[Dispatcher] : status[e] \in OutboxActive /\ e \in Expiring
    /\ mode[Dispatcher] = "reclaim" => todo[Dispatcher] = {}

ClaimsInHand ==
    \A e \in Events : status[e] = "claimed" =>
        /\ mode[Dispatcher] = "dispatch"
        /\ \/ e \in todo[Dispatcher]
           \/ e = ev[Dispatcher] /\ pc[Dispatcher] \in {"deliver", "recheck", "mark"}

HandClaimed ==
    pc[Dispatcher] \in {"deliver", "recheck", "mark"} =>
        /\ mode[Dispatcher] = "dispatch"
        /\ status[ev[Dispatcher]] = "claimed"
        /\ ev[Dispatcher] \notin todo[Dispatcher]
        /\ pc[Dispatcher] # "deliver" => handoffs[ev[Dispatcher]] > 0

DeadlinesGiven == \A e \in Events : deadline[e] # "none" => e \in Expiring

NeverReopened == \A e \in Events : reopened[e] = 0

Calm ==
    /\ Undistracted /\ SweepsOpen /\ ClaimsInHand /\ HandClaimed
    /\ DeadlinesGiven /\ NeverReopened

\* Undisturbed steps are steps of the whole system.
LEMMA UndisturbedIsNext == Undisturbed => Next
<1>1. Dispatcher \in Actors /\ Agent \in Actors
  BY DEF Actors
<1> QED
  BY <1>1 DEF Undisturbed, Next, Turn

\* Nothing is claimed, reopened or swept at first.
LEMMA InitCalm == Init => Calm
BY ActorsDiffer, ActorsAssumption DEF Init, Calm, Undistracted, SweepsOpen, ClaimsInHand,
   HandClaimed, DeadlinesGiven, NeverReopened, Actors, OutboxActive

\* A ledger call of the dispatcher or the turn that is not a retry changes no
\* row and nothing the dispatcher has in hand.
LEMMA LedgerCalm ==
    ASSUME Typed, Calm, NEW a \in {Dispatcher, Agent}, Ledger(a)
    PROVE  Calm' /\ UNCHANGED <<rows, history>>
<1> USE ActorsDiffer DEF Typed, TypeOK, rows, board, history, local, bounds, Goto, Return
<1>1. a \in Actors /\ mode[a] \notin {"retry", "abandon", "cancel"} /\ pc[a] \notin {"reopen", "task"}
      /\ (mode[a] = "reclaim" => todo[a] = {})
  BY DEF Calm, Undistracted, SweepsOpen
<1>2. \/ WriteStep(a) \/ TouchRead(a) \/ TouchWrite(a)
      \/ GateStart(a) \/ GateReadSteps(a) \/ GateReadEvents(a) \/ GateWrite(a) \/ GateRaises(a)
  BY <1>1 DEF Ledger, RetryWrite, RetryTask, RetryRead, Abandon
<1>3. /\ UNCHANGED <<rows, history, mode, todo>>
      /\ pc[a] \notin {"deliver", "recheck", "mark"}
      /\ \E l \in {"next", "touch", "gate", "touchWrite", "gateSteps", "gateEvents", "gateWrite"} :
            pc' = [pc EXCEPT ![a] = l]
      /\ \A b \in Actors : b # a => ev'[b] = ev[b]
  BY <1>1, <1>2 DEF WriteStep, TouchRead, TouchWrite, GateStart, GateReadSteps, GateReadEvents,
     GateWrite, GateRaises
<1>4. Undistracted' /\ SweepsOpen'
  BY <1>3 DEF Calm, Undistracted, SweepsOpen
<1>5. ClaimsInHand' /\ HandClaimed'
  BY <1>3 DEF Calm, ClaimsInHand, HandClaimed
<1>6. DeadlinesGiven' /\ NeverReopened'
  BY <1>3 DEF Calm, DeadlinesGiven, NeverReopened
<1> QED
  BY <1>3, <1>4, <1>5, <1>6 DEF Calm

\* The dispatcher keeps its claims in hand.
LEMMA DispatchCalm ==
    ASSUME Typed, Calm, Dispatch
    PROVE  Calm'
<1> USE ActorsDiffer DEF Typed, TypeOK, Held, HeldOK, Calm, Undistracted, SweepsOpen,
    ClaimsInHand, HandClaimed, DeadlinesGiven, NeverReopened,
    rows, board, history, local, bounds, Goto, Return, Tick
<1>1. CASE ExpireScan
  BY <1>1 DEF ExpireScan, ActiveRows
<1>2. CASE ReclaimScan
  BY <1>2 DEF ReclaimScan, StaleClaims
<1>3. CASE Recheck
  BY <1>3 DEF Recheck
<1>4. CASE Submit
  BY <1>4 DEF Submit
<1>5. CASE Mark
  BY <1>5 DEF Mark, Outcome
<1>6. ASSUME NEW e \in Events, Expire(e) PROVE Calm'
  BY <1>6 DEF Expire, Close
<1>7. ASSUME NEW e \in Events, Check(e) PROVE Calm'
  BY <1>7 DEF Check
<1>8. ASSUME NEW batch \in SUBSET DueRows, ClaimDue(batch) PROVE Calm'
  BY <1>8 DEF ClaimDue, DueRows
<1>9. ASSUME NEW outcome \in {"sent", "failed", "retrying"}, Deliver(outcome) PROVE Calm'
  BY <1>9 DEF Deliver
<1>10. ASSUME NEW gone \in SUBSET Events, Rest(gone) PROVE Calm'
  BY <1>10 DEF Rest
<1> QED
  BY <1>1, <1>2, <1>3, <1>4, <1>5, <1>6, <1>7, <1>8, <1>9, <1>10 DEF Dispatch

\* So do the turn and the clock.
LEMMA OthersCalm ==
    ASSUME Typed, Calm, TurnProceeds \/ Time
    PROVE  Calm'
<1> USE ActorsDiffer DEF Typed, TypeOK, Calm, Undistracted, SweepsOpen,
    ClaimsInHand, HandClaimed, DeadlinesGiven, NeverReopened,
    rows, board, history, local, bounds, Goto, InTurn, Leave
<1>1. CASE EndTurn \/ TurnDone
  BY <1>1 DEF EndTurn, TurnDone
<1>2. ASSUME NEW e \in Events, QueueEvent(e) PROVE Calm'
  BY <1>2, EventsAssumption DEF QueueEvent, OutboxActive
<1>3. ASSUME NEW s \in Tools, StartTool(s) PROVE Calm'
  BY <1>3 DEF StartTool
<1>4. ASSUME NEW s \in Tools, NEW result, FinishTool(s, result) PROVE Calm'
  BY <1>4 DEF FinishTool
<1>5. ASSUME NEW e \in Events,
             BecomeDue(e) \/ BecomeStale(e) \/ DebounceEnds(e) \/ DeadlinePasses(e)
      PROVE  Calm'
  BY <1>5 DEF BecomeDue, BecomeStale, DebounceEnds, DeadlinePasses
<1> QED
  BY <1>1, <1>2, <1>3, <1>4, <1>5 DEF TurnProceeds, Time

\* Undisturbed steps keep their calm.
LEMMA NextCalm == Typed /\ Calm /\ [Undisturbed]_vars => Calm'
<1>1. ASSUME Calm, UNCHANGED vars PROVE Calm'
  BY <1>1 DEF Calm, Undistracted, SweepsOpen, ClaimsInHand, HandClaimed, DeadlinesGiven,
     NeverReopened, vars, rows, board, history, local, bounds
<1> QED
  BY <1>1, LedgerCalm, DispatchCalm, OthersCalm DEF Undisturbed

-----------------------------------------------------------------------------
(* The steps of the contract *)

\* The first row states no effect.
LEMMA InitPromise == Init => Promise!Init
<1> SUFFICES ASSUME Init PROVE Promise!Init
  OBVIOUS
<1>1. \A e \in Events : status[e] = "none"
  BY DEF Init
<1>2. \A e \in Events : PhaseName(status[e]) = "absent"
  BY <1>1, PhaseNames
<1>3. Phase = [e \in Events |-> "absent"]
  BY <1>2 DEF Phase
<1>4. handoffs = [e \in Events |-> 0]
  BY DEF Init
<1> QED
  BY <1>3, <1>4 DEF Promise!Init

\* What the dispatcher does is a handoff, its confirmation or its end, the end
\* of one that expired, the compaction of what has ended, or nothing.
LEMMA DispatchPromise ==
    ASSUME Typed, Calm, ChargeInv, BudgetInv, Dispatch
    PROVE  Promise!Next \/ UNCHANGED <<Phase, handoffs>>
<1> USE ActorsDiffer DEF Typed
<1> DEFINE d == ev[Dispatcher]
<1>1. CASE ExpireScan \/ ReclaimScan \/ Recheck \/ Submit
  BY <1>1 DEF ExpireScan, ReclaimScan, Recheck, Submit, Tick, Phase, history, rows
<1>2. CASE Mark
  <2>1. d \in Events /\ status[d] = "claimed" /\ handoffs[d] > 0
    BY <1>2 DEF Mark, Held, HeldOK, Calm, HandClaimed
  <2>2. PICK s \in {"sent", "failed", "expired", "retrying"} : status' = [status EXCEPT ![d] = s]
    BY <1>2, <2>1 DEF Mark, Outcome, Held, HeldOK
  <2>3. Phase[d] = "open" /\ Phase' = [Phase EXCEPT ![d] = PhaseName(s)]
    BY <2>1, <2>2, PhaseMoves, PhaseNames DEF OutboxActive
  <2>4. handoffs' = handoffs
    BY <1>2 DEF Mark, history
  <2>5. CASE s = "sent"
    <3>1. Promise!Confirm(d)
      BY <2>1, <2>3, <2>4, <2>5, PhaseNames DEF Promise!Confirm, Promise!Move
    <3> QED
      BY <2>1, <3>1 DEF Promise!Next
  <2>6. CASE s \in {"failed", "expired"}
    <3>1. Promise!GiveUp(d)
      BY <2>1, <2>3, <2>4, <2>6, PhaseNames DEF Promise!GiveUp, Promise!Move
    <3> QED
      BY <2>1, <3>1 DEF Promise!Next
  <2>7. CASE s = "retrying"
    <3>1. PhaseName(s) = Phase[d]
      BY <2>3, <2>7, PhaseNames DEF OutboxActive
    <3>2. Phase' = Phase
      BY <2>3, <3>1 DEF Phase
    <3> QED
      BY <2>4, <3>2
  <2> QED
    BY <2>5, <2>6, <2>7
<1>3. ASSUME NEW e \in Events, Expire(e) PROVE Promise!Next \/ UNCHANGED <<Phase, handoffs>>
  <2>1. /\ status[e] \in OutboxActive /\ e \in Expiring
        /\ handoffs' = handoffs
        /\ status' = [status EXCEPT ![e] = "expired"]
    BY <1>3 DEF Expire, Close, Calm, SweepsOpen, history, OutboxActive
  <2>2. Phase[e] = "open" /\ Phase' = [Phase EXCEPT ![e] = "given up"]
    <3>1. TypeOK /\ status' = [status EXCEPT ![e] = "expired"]
      BY <2>1 DEF Typed
    <3>2. Phase' = [Phase EXCEPT ![e] = PhaseName("expired")] /\ Phase[e] = PhaseName(status[e])
      BY <3>1, PhaseMoves
    <3>3. PhaseName("expired") = "given up" /\ PhaseName(status[e]) = "open"
      BY <2>1, PhaseNames
    <3> QED
      BY <3>2, <3>3
  <2>3. Promise!GiveUp(e)
    BY <2>1, <2>2 DEF Promise!GiveUp, Promise!Move
  <2> QED
    BY <2>3 DEF Promise!Next
<1>4. ASSUME NEW e \in Events, Check(e) PROVE UNCHANGED <<Phase, handoffs>>
  BY <1>4 DEF Check, rows, history, Phase
<1>5. ASSUME NEW batch \in SUBSET DueRows, ClaimDue(batch) PROVE UNCHANGED <<Phase, handoffs>>
  <2>1. \A e \in Events : PhaseName(status'[e]) = PhaseName(status[e])
    BY <1>5, PhaseNames DEF ClaimDue, DueRows, OutboxActive
  <2> QED
    BY <1>5, <2>1 DEF ClaimDue, history, Phase
<1>6. ASSUME NEW outcome \in {"sent", "failed", "retrying"}, Deliver(outcome) PROVE Promise!Next
  <2>1. d \in Events /\ status[d] = "claimed" /\ handoffs[d] < attempts[d]
    BY <1>6 DEF Deliver, Held, HeldOK, Calm, HandClaimed, ChargeInv, SpareAttempt
  <2>2. attempts[d] <= MaxAttempts
    BY <2>1, BoundsAssumption DEF BudgetInv, AttemptsGranted, Calm, NeverReopened, TypeOK
  <2>3. handoffs[d] < MaxAttempts
    BY <2>1, <2>2, BoundsAssumption DEF TypeOK
  <2>4. /\ status' = status
        /\ handoffs' = [handoffs EXCEPT ![d] = @ + 1]
    BY <1>6 DEF Deliver, rows
  <2>5. Phase[d] = "open" /\ Phase' = Phase
    BY <2>1, <2>4, PhaseNames DEF Phase, OutboxActive
  <2>6. Promise!HandOff(d)
    BY <2>3, <2>4, <2>5 DEF Promise!HandOff
  <2> QED
    BY <2>1, <2>6 DEF Promise!Next
<1>7. ASSUME NEW gone \in SUBSET Events, Rest(gone) PROVE Promise!Next
  <2>1. /\ \A e \in gone : status[e] \in OutboxTerminal
        /\ status' = [e \in Events |-> IF e \in gone THEN "dropped" ELSE status[e]]
        /\ handoffs' = handoffs
    BY <1>7 DEF Rest, Tick, history
  <2>2. \A e \in gone : Phase[e] \in {"delivered", "given up"}
    BY <2>1, PhaseNames DEF Phase
  <2>3. Phase' = [e \in Events |-> IF e \in gone THEN "forgotten" ELSE Phase[e]]
    BY <2>1, PhaseNames DEF Phase
  <2>4. Promise!Forget(gone)
    BY <2>1, <2>2, <2>3 DEF Promise!Forget
  <2> QED
    BY <2>4 DEF Promise!Next
<1> QED
  BY <1>1, <1>2, <1>3, <1>4, <1>5, <1>6, <1>7 DEF Dispatch

\* A turn queues effects, and nothing else of it concerns the contract.
LEMMA TurnPromise ==
    ASSUME Typed, TurnProceeds
    PROVE  Promise!Next \/ UNCHANGED <<Phase, handoffs>>
<1>1. ASSUME NEW e \in Events, QueueEvent(e) PROVE Promise!Next
  <2>1. /\ status[e] = "none" /\ status' = [status EXCEPT ![e] = "pending"]
        /\ handoffs' = handoffs
    BY <1>1 DEF QueueEvent, history
  <2>2. Phase[e] = "absent" /\ Phase' = [Phase EXCEPT ![e] = "open"]
    <3>1. TypeOK /\ status' = [status EXCEPT ![e] = "pending"]
      BY <2>1 DEF Typed
    <3>2. Phase' = [Phase EXCEPT ![e] = PhaseName("pending")] /\ Phase[e] = PhaseName(status[e])
      BY <3>1, PhaseMoves
    <3>3. PhaseName("pending") = "open" /\ PhaseName(status[e]) = "absent"
      BY <2>1, PhaseNames DEF OutboxActive
    <3> QED
      BY <3>2, <3>3
  <2>3. Promise!Queue(e)
    BY <2>1, <2>2 DEF Promise!Queue, Promise!Move
  <2> QED
    BY <2>3 DEF Promise!Next
<1>2. ASSUME NEW s \in Tools,
             StartTool(s) \/ FinishTool(s, "completed") \/ FinishTool(s, "failed")
      PROVE  UNCHANGED <<Phase, handoffs>>
  BY <1>2 DEF StartTool, FinishTool, rows, history, Phase
<1>3. CASE EndTurn \/ TurnDone
  BY <1>3 DEF EndTurn, TurnDone, Leave, rows, history, Phase
<1> QED
  BY <1>1, <1>2, <1>3 DEF TurnProceeds

\* Every undisturbed step is a step of the contract or none.
LEMMA NextPromise ==
    Typed /\ Calm /\ ChargeInv /\ BudgetInv /\ [Undisturbed]_vars
        => [Promise!Next]_<<Phase, handoffs>>
<1> SUFFICES ASSUME Typed, Calm, ChargeInv, BudgetInv, [Undisturbed]_vars
             PROVE  Promise!Next \/ UNCHANGED <<Phase, handoffs>>
  OBVIOUS
<1>1. ASSUME NEW a \in {Dispatcher, Agent}, Ledger(a) PROVE UNCHANGED <<Phase, handoffs>>
  BY <1>1, LedgerCalm DEF rows, history, Phase
<1>2. CASE Time
  BY <1>2 DEF Time, BecomeDue, BecomeStale, DebounceEnds, DeadlinePasses, rows, history, Phase
<1>3. CASE UNCHANGED vars
  BY <1>3 DEF vars, rows, history, Phase
<1> QED
  BY <1>1, <1>2, <1>3, DispatchPromise, TurnPromise DEF Undisturbed

\* The undisturbed outbox implements the safety part of DeliveryContract: an
\* effect is handed off at most max_attempts times, never after it was
\* delivered or given up, and is only called delivered after a handoff.
THEOREM KeepsContract ==
    Init /\ [][Undisturbed]_vars => Promise!Init /\ [][Promise!Next]_(Promise!vars)
<1>1. Init => Typed /\ Calm /\ ChargeInv /\ BudgetInv /\ Promise!Init
  BY InitTyped, InitCalm, InitCharge, InitBudget, InitPromise
<1>2. Typed /\ Calm /\ ChargeInv /\ BudgetInv /\ [Undisturbed]_vars
        => (Typed /\ Calm /\ ChargeInv /\ BudgetInv)'
  <2>1. [Undisturbed]_vars => [Next]_vars
    BY UndisturbedIsNext
  <2> QED
    BY <2>1, NextTyped, NextCalm, NextCharge, NextBudget
<1>3. Typed /\ Calm /\ ChargeInv /\ BudgetInv /\ [Undisturbed]_vars
        => [Promise!Next]_(Promise!vars)
  BY NextPromise DEF Promise!vars
<1> QED
  BY <1>1, <1>2, <1>3, PTL

-----------------------------------------------------------------------------
(* The gate's last word, of a turn that only queued events *)

\* An evaluation never raises.
NothingFails == MaxCrashes = 0

\* The gate's decision once every event has its final status: by then the
\* steps say all that the events do.
LastWord == Verdict(StepsNow, {}, Verified)

\* Who is where.
Placed ==
    /\ mode[Dispatcher] # "dispatch" => pc[Dispatcher] = "next"
    /\ mode[Dispatcher] = "expire" => todo[Dispatcher] = {}
    /\ mode[Agent] = "turn" => pc[Agent] = "next"
    /\ mode[Agent] = "idle" => pc[Agent] = "idle"
    /\ mode[Agent] = "ending" =>
          pc[Agent] \in {"gate", "gateSteps", "gateEvents", "gateWrite", "next"}

\* The dispatcher has given its event a status and not yet the event's step.
HandMarked ==
    pc[Dispatcher] = "step" =>
        /\ ev[Dispatcher] \in Events
        /\ status[ev[Dispatcher]] = memo[Dispatcher]
        /\ memo[Dispatcher] \in {"sent", "failed", "expired", "retrying"}

InHand(e) == pc[Dispatcher] = "step" /\ ev[Dispatcher] = e

\* A step says what became of its event.
StepsFollow ==
    \A e \in Events :
        /\ status[e] \in OutboxActive \union {"none", "sent", "failed", "expired", "dropped"}
        /\ status[e] = "none" => step[e] = "none"
        /\ status[e] \in OutboxActive => step[e] = "waiting_outbox"
        /\ status[e] = "sent" => step[e] = "completed" \/ InHand(e)
        /\ status[e] \in {"failed", "expired"} => step[e] = "failed" \/ InHand(e)
        /\ status[e] = "dropped" => step[e] \in {"completed", "failed"}

\* The dispatcher will ask the gate after the turn has.
Owes ==
    \/ pc[Dispatcher] \in {"step", "touch", "touchWrite"}
    \/ pc[Dispatcher] = "gate" /\ ~submitted

\* Once every event has its final status, whoever is at the gate gives its last
\* word, or the dispatcher still will.
Decides ==
    ActiveRows = {} =>
        /\ pc[Dispatcher] = "gateEvents" => seen[Dispatcher] = StepsNow
        /\ pc[Dispatcher] = "gateWrite" => memo[Dispatcher] = LastWord
        /\ pc[Agent] = "gateEvents" => seen[Agent] = StepsNow \/ Owes
        /\ pc[Agent] = "gateWrite" => memo[Agent] = LastWord \/ Owes
        /\ mode[Agent] = "idle" \/ (mode[Agent] = "ending" /\ pc[Agent] = "next") =>
              \/ task = LastWord
              \/ pc[Dispatcher] \in {"step", "touch", "touchWrite",
                                     "gate", "gateSteps", "gateEvents", "gateWrite"}

\* An event that is not queued has no deadline.
NotYetDue == \A e \in Events : status[e] = "none" => deadline[e] = "none"

Quieting == Placed /\ HandMarked /\ StepsFollow /\ Decides

GateInv == OnlyEvents => Quieting

\* What was a reason not to speak of a quiet end stays one.
LEMMA OnlyEventsBefore ==
    ASSUME Typed, Calm, NotYetDue, [Undisturbed]_vars
    PROVE  NotYetDue' /\ (OnlyEvents' => OnlyEvents)
<1> USE ActorsDiffer DEF Typed, TypeOK
<1>1. SUFFICES ASSUME TRUE
               PROVE  /\ NotYetDue'
                      /\ \A t \in Tools : step[t] # "none" => step'[t] # "none"
                      /\ \A e \in Expiring : deadline[e] = "past" => deadline'[e] = "past"
  BY DEF OnlyEvents
<1>2. CASE UNCHANGED <<rows, step>>
  BY <1>2 DEF rows, NotYetDue
<1>3. ASSUME NEW a \in {Dispatcher, Agent}, Ledger(a)
      PROVE  UNCHANGED rows /\ \A t \in Tools : step[t] # "none" => step'[t] # "none"
  <2>1. UNCHANGED rows /\ a \in Actors /\ mode[a] \notin {"retry", "abandon", "cancel"}
        /\ pc[a] \notin {"reopen", "task"} /\ (mode[a] = "reclaim" => todo[a] = {})
    BY <1>3, LedgerCalm DEF Calm, Undistracted, SweepsOpen
  <2>2. CASE WriteStep(a)
    <3>1. step' = [step EXCEPT ![ev[a]] = StepFor(memo[a])]
      BY <2>2 DEF WriteStep
    <3>2. StepFor(memo[a]) # "none"
      BY DEF StepFor
    <3> QED
      BY <2>1, <3>1, <3>2
  <2>3. CASE step' = step
    BY <2>1, <2>3
  <2> QED
    BY <1>3, <2>1, <2>2, <2>3 DEF Ledger, RetryWrite, RetryTask, RetryRead, Abandon, board,
       TouchRead, TouchWrite, GateStart, GateReadSteps, GateReadEvents, GateWrite, GateRaises
<1>4. CASE Dispatch
  <2>1. step' = step /\ deadline' = deadline
    BY <1>4 DEF Dispatch, ExpireScan, ReclaimScan, Recheck, Submit, Mark, Expire, Close, Check,
       ClaimDue, Deliver, Rest, Tick, rows, board
  <2>2. \A e \in Events : status'[e] = "none" => status[e] = "none"
    <3>1. CASE status' = status
      BY <3>1
    <3>2. ASSUME NEW batch \in SUBSET DueRows, ClaimDue(batch)
          PROVE  \A e \in Events : status'[e] = "none" => status[e] = "none"
      BY <3>2 DEF ClaimDue
    <3>3. ASSUME NEW gone \in SUBSET Events, Rest(gone)
          PROVE  \A e \in Events : status'[e] = "none" => status[e] = "none"
      BY <3>3 DEF Rest
    <3>4. CASE Mark
      BY <3>4 DEF Mark, Outcome, Held, HeldOK
    <3>5. ASSUME NEW e \in Events, Expire(e)
          PROVE  \A f \in Events : status'[f] = "none" => status[f] = "none"
      BY <3>5 DEF Expire, Close
    <3> QED
      BY <1>4, <3>1, <3>2, <3>3, <3>4, <3>5 DEF Dispatch, ExpireScan, ReclaimScan, Recheck,
         Submit, Check, Deliver, rows
  <2> QED
    BY <2>1, <2>2 DEF NotYetDue
<1>5. ASSUME NEW e \in Events, QueueEvent(e)
      PROVE  /\ NotYetDue'
             /\ \A t \in Tools : step[t] # "none" => step'[t] # "none"
             /\ \A f \in Expiring : deadline[f] = "past" => deadline'[f] = "past"
  BY <1>5, EventsAssumption DEF QueueEvent, NotYetDue
<1>6. ASSUME NEW t \in Tools,
             StartTool(t) \/ FinishTool(t, "completed") \/ FinishTool(t, "failed")
      PROVE  UNCHANGED rows /\ \A u \in Tools : step[u] # "none" => step'[u] # "none"
  BY <1>6 DEF StartTool, FinishTool, Steps
<1>7. CASE EndTurn \/ TurnDone
  BY <1>7 DEF EndTurn, TurnDone, Leave, rows, board, NotYetDue
<1>8. ASSUME NEW e \in Events,
             BecomeDue(e) \/ BecomeStale(e) \/ DebounceEnds(e) \/ DeadlinePasses(e)
      PROVE  /\ NotYetDue'
             /\ \A t \in Tools : step[t] # "none" => step'[t] # "none"
             /\ \A f \in Expiring : deadline[f] = "past" => deadline'[f] = "past"
  BY <1>8, EventsAssumption DEF BecomeDue, BecomeStale, DebounceEnds, DeadlinePasses, NotYetDue, board
<1> QED
  BY <1>2, <1>3, <1>4, <1>5, <1>6, <1>7, <1>8
  DEF Undisturbed, TurnProceeds, Time, vars, board, rows, NotYetDue

\* With every event settled and every step written, the events add nothing.
LEMMA EventsAddNothing ==
    ASSUME StepsFollow, pc[Dispatcher] # "step", ActiveRows = {}
    PROVE  Verdict(StepsNow, EventsNow, Verified) = LastWord
<1>1. \A e \in Events : status[e] \notin OutboxActive
  BY DEF ActiveRows
<1>2. EventsNow \subseteq {"sent", "failed", "expired"}
  <2> SUFFICES ASSUME NEW e \in Events, status[e] \in OutboxStatuses
               PROVE  status[e] \in {"sent", "failed", "expired"}
    BY DEF EventsNow, Stored
  <2>1. status[e] \notin {"none", "dropped"}
    BY DEF OutboxStatuses, OutboxActive, OutboxTerminal, OutboxSuccess, OutboxFailure,
       OutboxAbandoned
  <2> QED
    BY <1>1, <2>1 DEF StepsFollow
<1>3. EventsNow \intersect {"failed", "expired"} # {} => "failed" \in StepsNow
  <2> SUFFICES ASSUME NEW e \in Events, status[e] \in {"failed", "expired"}
               PROVE  "failed" \in StepsNow
    BY DEF EventsNow, Stored
  <2>1. step[e] = "failed"
    BY DEF StepsFollow, InHand
  <2> QED
    BY <2>1 DEF StepsNow, Steps
<1> HIDE DEF EventsNow
<1>4. CASE "failed" \in StepsNow
  BY <1>4 DEF LastWord, Verdict
<1>5. CASE "failed" \notin StepsNow
  <2>1. EventsNow \intersect OutboxAbandoned = {} /\ EventsNow \intersect OutboxActive = {}
        /\ "expired" \notin EventsNow /\ "failed" \notin EventsNow
    BY <1>2, <1>3, <1>5 DEF OutboxAbandoned, OutboxActive
  <2> QED
    BY <1>5, <2>1 DEF LastWord, Verdict
<1> QED
  BY <1>4, <1>5

\* A ledger call of the dispatcher writes the step of the event in hand, and
\* then the decision the gate takes of what it has read since.
LEMMA DispatcherDecides ==
    ASSUME NothingFails, Typed, Calm, Quieting, Ledger(Dispatcher)
    PROVE  Quieting'
<1> USE ActorsDiffer DEF Typed, TypeOK, Goto, Return
<1> DEFINE d == Dispatcher
<1>1. /\ d \in Actors /\ d # Agent /\ Agent \in Actors
      /\ Placed /\ HandMarked /\ StepsFollow /\ Decides
  BY DEF Quieting
<1>2. /\ mode[d] \notin {"retry", "abandon", "cancel"} /\ pc[d] \notin {"reopen", "task"}
      /\ (mode[d] = "reclaim" => todo[d] = {})
  BY DEF Calm, Undistracted, SweepsOpen
<1>3. ~GateRaises(d)
  BY DEF GateRaises, NothingFails
<1>4. \/ WriteStep(d) \/ TouchRead(d) \/ TouchWrite(d)
      \/ GateStart(d) \/ GateReadSteps(d) \/ GateReadEvents(d) \/ GateWrite(d)
  BY <1>2, <1>3 DEF Ledger, RetryWrite, RetryTask, RetryRead, Abandon
<1>5. pc[d] \in {"step", "touch", "touchWrite", "gate", "gateSteps", "gateEvents", "gateWrite"}
  BY <1>4 DEF WriteStep, TouchRead, TouchWrite, GateStart, GateReadSteps, GateReadEvents, GateWrite
<1>6. mode[d] = "dispatch"
  BY <1>1, <1>5 DEF Placed
<1>7. /\ UNCHANGED <<rows, mode, todo>>
      /\ \E l \in {"next", "touch", "gate", "touchWrite", "gateSteps", "gateEvents", "gateWrite"} :
            pc' = [pc EXCEPT ![d] = l]
      /\ memo'[Agent] = memo[Agent] /\ seen'[Agent] = seen[Agent]
  BY <1>1, <1>4 DEF WriteStep, TouchRead, TouchWrite, GateStart, GateReadSteps, GateReadEvents,
     GateWrite
<1>8. /\ status' = status /\ ActiveRows' = ActiveRows /\ pc'[Agent] = pc[Agent] /\ pc'[d] # "step"
      /\ mode' = mode /\ todo' = todo
  BY <1>1, <1>7 DEF rows, ActiveRows
<1>9. Placed' /\ HandMarked'
  BY <1>1, <1>6, <1>8 DEF Placed, HandMarked
<1>10. CASE WriteStep(d)
  <2>1. /\ pc[d] = "step" /\ ev[d] \in Events /\ status[ev[d]] = memo[d]
        /\ memo[d] \in {"sent", "failed", "expired", "retrying"}
        /\ step' = [step EXCEPT ![ev[d]] = StepFor(memo[d])]
    BY <1>1, <1>10 DEF WriteStep, HandMarked
  <2>2. StepsFollow'
    <3> SUFFICES ASSUME NEW e \in Events
                 PROVE  /\ status[e] \in OutboxActive \union {"none", "sent", "failed", "expired", "dropped"}
                        /\ status[e] = "none" => step'[e] = "none"
                        /\ status[e] \in OutboxActive => step'[e] = "waiting_outbox"
                        /\ status[e] = "sent" => step'[e] = "completed"
                        /\ status[e] \in {"failed", "expired"} => step'[e] = "failed"
                        /\ status[e] = "dropped" => step'[e] \in {"completed", "failed"}
      BY <1>8 DEF StepsFollow, InHand
    <3>1. CASE e = ev[d]
      <4>1. step'[e] = StepFor(memo[d])
        BY <2>1, <3>1 DEF Steps
      <4> QED
        BY <2>1, <3>1, <4>1 DEF StepFor, OutboxActive
    <3>2. CASE e # ev[d]
      <4>1. step'[e] = step[e] /\ ~InHand(e)
        BY <2>1, <3>2 DEF InHand, Steps
      <4> QED
        BY <1>1, <4>1 DEF StepsFollow
    <3> QED
      BY <3>1, <3>2
  <2>3. CASE memo[d] = "retrying"
    <3>1. ActiveRows # {}
      BY <2>1, <2>3 DEF ActiveRows, OutboxActive
    <3> QED
      BY <1>8, <1>9, <2>2, <3>1 DEF Quieting, Decides
  <2>4. CASE memo[d] # "retrying"
    <3>1. pc'[d] = "touch" \/ (pc'[d] = "gate" /\ ~submitted')
      BY <1>10, <2>1, <2>4 DEF WriteStep, CallEnds
    <3>2. Owes' /\ pc'[d] \notin {"gateEvents", "gateWrite"} /\ pc'[d] \in {"touch", "gate"}
      BY <3>1 DEF Owes
    <3> QED
      BY <1>9, <2>2, <3>2 DEF Quieting, Decides
  <2> QED
    BY <2>3, <2>4
<1>11. ASSUME step' = step PROVE StepsFollow' /\ StepsNow' = StepsNow /\ EventsNow' = EventsNow
                                /\ LastWord' = LastWord
  <2>1. StepsNow' = StepsNow /\ EventsNow' = EventsNow
    BY <1>8, <1>11 DEF StepsNow, EventsNow, Stored
  <2>2. ~WriteStep(d) => pc[d] # "step"
    BY <1>4, <1>5 DEF TouchRead, TouchWrite, GateStart, GateReadSteps, GateReadEvents, GateWrite
  <2>3. StepsFollow'
    <3>1. CASE ~WriteStep(d)
      BY <1>1, <1>8, <1>11, <2>2, <3>1 DEF StepsFollow, InHand
    <3>2. CASE WriteStep(d)
      BY <1>10, <3>2 DEF Quieting
    <3> QED
      BY <3>1, <3>2
  <2> QED
    BY <2>1, <2>3 DEF LastWord
<1>12. CASE TouchRead(d) \/ TouchWrite(d)
  <2>1. step' = step /\ Owes' /\ pc'[d] \in {"touchWrite", "gate"}
    BY <1>1, <1>6, <1>12 DEF TouchRead, TouchWrite, Finalizes, CallEnds, Owes, board
  <2> QED
    BY <1>9, <1>11, <2>1 DEF Quieting, Decides
<1>13. CASE GateStart(d)
  <2>1. step' = step /\ pc'[d] = "gateSteps" /\ pc[d] = "gate" /\ submitted
    BY <1>6, <1>13 DEF GateStart, OnThread
  <2>2. ~Owes
    BY <2>1 DEF Owes
  <2> QED
    BY <1>1, <1>7, <1>8, <1>9, <1>11, <2>1, <2>2 DEF Quieting, Decides
<1>14. CASE GateReadSteps(d)
  <2>1. /\ step' = step /\ task' = task /\ pc'[d] = "gateEvents" /\ pc[d] = "gateSteps"
        /\ seen'[d] = StepsNow
    BY <1>14 DEF GateReadSteps, board, StepsNow
  <2>2. ~Owes
    BY <2>1 DEF Owes
  <2> QED
    BY <1>1, <1>7, <1>8, <1>9, <1>11, <2>1, <2>2 DEF Quieting, Decides
<1>15. CASE GateReadEvents(d)
  <2>1. /\ step' = step /\ task' = task /\ pc'[d] = "gateWrite" /\ pc[d] = "gateEvents"
        /\ memo'[d] = Verdict(seen[d], EventsNow, Verified)
    BY <1>15 DEF GateReadEvents, board, EventsNow
  <2>2. ~Owes
    BY <2>1 DEF Owes
  <2>3. ActiveRows = {} => memo'[d] = LastWord
    BY <1>1, <2>1, EventsAddNothing DEF Decides
  <2> QED
    BY <1>1, <1>7, <1>8, <1>9, <1>11, <2>1, <2>2, <2>3 DEF Quieting, Decides
<1>16. CASE GateWrite(d)
  <2>1. /\ step' = step /\ task' = memo[d] /\ pc'[d] = "next" /\ pc[d] = "gateWrite"
    BY <1>16 DEF GateWrite
  <2>2. ~Owes
    BY <2>1 DEF Owes
  <2> QED
    BY <1>1, <1>7, <1>8, <1>9, <1>11, <2>1, <2>2 DEF Quieting, Decides
<1> QED
  BY <1>4, <1>10, <1>12, <1>13, <1>14, <1>15, <1>16

\* A ledger call of the turn is one of its gate's: the decision is taken of all
\* there is to read, or the dispatcher will ask again.
LEMMA AgentDecides ==
    ASSUME NothingFails, Typed, Calm, Quieting, Ledger(Agent)
    PROVE  Quieting'
<1> USE ActorsDiffer DEF Typed, TypeOK, Goto, Return
<1> DEFINE d == Dispatcher
<1>1. /\ d \in Actors /\ d # Agent /\ Agent \in Actors
      /\ Placed /\ HandMarked /\ StepsFollow /\ Decides
  BY DEF Quieting
<1>2. mode[Agent] \in {"turn", "ending", "idle"} /\ pc[Agent] \notin {"reopen", "task"}
  BY DEF Calm, Undistracted
<1>3. ~GateRaises(Agent)
  BY DEF GateRaises, NothingFails
<1>4. \/ WriteStep(Agent) \/ TouchRead(Agent) \/ TouchWrite(Agent)
      \/ GateStart(Agent) \/ GateReadSteps(Agent) \/ GateReadEvents(Agent) \/ GateWrite(Agent)
  BY <1>2, <1>3 DEF Ledger, RetryWrite, RetryTask, RetryRead, Abandon
<1>5. pc[Agent] \in {"step", "touch", "touchWrite", "gate", "gateSteps", "gateEvents", "gateWrite"}
  BY <1>4 DEF WriteStep, TouchRead, TouchWrite, GateStart, GateReadSteps, GateReadEvents, GateWrite
<1>6. mode[Agent] = "ending" /\ pc[Agent] \in {"gate", "gateSteps", "gateEvents", "gateWrite"}
  BY <1>1, <1>2, <1>5 DEF Placed
<1>7. GateStart(Agent) \/ GateReadSteps(Agent) \/ GateReadEvents(Agent) \/ GateWrite(Agent)
  BY <1>4, <1>6 DEF WriteStep, TouchRead, TouchWrite
<1>8. /\ UNCHANGED <<rows, mode, todo, step>>
      /\ submitted' = submitted
      /\ \E l \in {"gateSteps", "gateEvents", "gateWrite", "next"} : pc' = [pc EXCEPT ![Agent] = l]
      /\ memo'[d] = memo[d] /\ seen'[d] = seen[d] /\ ev'[d] = ev[d]
  BY <1>1, <1>7 DEF GateStart, GateReadSteps, GateReadEvents, GateWrite, CallEnds, board
<1>9. /\ status' = status /\ ActiveRows' = ActiveRows /\ pc'[d] = pc[d] /\ mode' = mode
      /\ todo' = todo /\ step' = step
      /\ StepsNow' = StepsNow /\ EventsNow' = EventsNow
      /\ pc'[Agent] \in {"gateSteps", "gateEvents", "gateWrite", "next"}
  BY <1>1, <1>8 DEF rows, ActiveRows, StepsNow, EventsNow, Stored
<1>10. Placed' /\ HandMarked' /\ StepsFollow' /\ LastWord' = LastWord /\ Owes' = Owes
  <2>1. Placed'
    BY <1>1, <1>6, <1>9 DEF Placed
  <2>2. HandMarked'
    BY <1>1, <1>8, <1>9 DEF HandMarked
  <2>3. StepsFollow'
    BY <1>1, <1>8, <1>9 DEF StepsFollow, InHand
  <2>4. LastWord' = LastWord
    BY <1>9 DEF LastWord
  <2>5. Owes' = Owes
    BY <1>8, <1>9 DEF Owes
  <2> QED
    BY <2>1, <2>2, <2>3, <2>4, <2>5
<1>11. SUFFICES ASSUME ActiveRows = {}
                PROVE  /\ pc'[Agent] = "gateEvents" => seen'[Agent] = StepsNow \/ Owes
                       /\ pc'[Agent] = "gateWrite" => memo'[Agent] = LastWord \/ Owes
                       /\ pc'[Agent] = "next" =>
                             \/ task' = LastWord
                             \/ pc[d] \in {"step", "touch", "touchWrite",
                                           "gate", "gateSteps", "gateEvents", "gateWrite"}
  BY <1>1, <1>6, <1>8, <1>9, <1>10 DEF Quieting, Decides
<1>12. CASE GateStart(Agent)
  BY <1>1, <1>12 DEF GateStart
<1>13. CASE GateReadSteps(Agent)
  BY <1>1, <1>13 DEF GateReadSteps, StepsNow
<1>14. CASE GateReadEvents(Agent)
  <2>1. /\ pc'[Agent] = "gateWrite" /\ pc[Agent] = "gateEvents"
        /\ memo'[Agent] = Verdict(seen[Agent], EventsNow, Verified)
    BY <1>1, <1>14 DEF GateReadEvents, EventsNow
  <2>2. seen[Agent] = StepsNow \/ Owes
    BY <1>1, <1>11, <2>1 DEF Decides
  <2>3. CASE Owes
    BY <2>1, <2>3
  <2>4. CASE ~Owes
    <3>1. pc[d] # "step" /\ seen[Agent] = StepsNow
      BY <2>2, <2>4 DEF Owes
    <3> QED
      BY <1>1, <1>11, <2>1, <3>1, EventsAddNothing
  <2> QED
    BY <2>3, <2>4
<1>15. CASE GateWrite(Agent)
  <2>1. pc'[Agent] = "next" /\ pc[Agent] = "gateWrite" /\ task' = memo[Agent]
    BY <1>1, <1>15 DEF GateWrite
  <2>2. memo[Agent] = LastWord \/ Owes
    BY <1>1, <1>11, <2>1 DEF Decides
  <2> QED
    BY <2>1, <2>2 DEF Owes
<1> QED
  BY <1>7, <1>12, <1>13, <1>14, <1>15

\* The dispatcher's own steps: a sweep finds nothing, a handoff has its event
\* claimed, and an event it gives a status it follows to the gate.
LEMMA DispatchDecides ==
    ASSUME Typed, Calm, Quieting, OnlyEvents, Dispatch
    PROVE  Quieting'
<1> USE ActorsDiffer DEF Typed, TypeOK, Goto, Return
<1> DEFINE d == Dispatcher
<1>1. /\ d \in Actors /\ d # Agent /\ Agent \in Actors
      /\ Placed /\ HandMarked /\ StepsFollow /\ Decides
  BY DEF Quieting
<1>2. /\ task' = task /\ step' = step
      /\ mode'[Agent] = mode[Agent] /\ pc'[Agent] = pc[Agent]
      /\ memo'[Agent] = memo[Agent] /\ seen'[Agent] = seen[Agent]
  BY DEF Dispatch, ExpireScan, ReclaimScan, Recheck, Submit, Mark, Expire, Close, Check, ClaimDue,
     Deliver, Rest, Tick, board, local
<1>3. StepsNow' = StepsNow /\ LastWord' = LastWord
  BY <1>2 DEF StepsNow, LastWord
<1>4. ASSUME UNCHANGED <<status, pc, ev, memo, seen, submitted>>,
             mode'[d] # "dispatch" => pc[d] = "next",
             mode'[d] = "expire" => todo'[d] = {}
      PROVE  Quieting'
  <2>1. Placed'
    BY <1>1, <1>2, <1>4 DEF Placed
  <2>2. HandMarked' /\ StepsFollow'
    BY <1>1, <1>2, <1>4 DEF HandMarked, StepsFollow, InHand
  <2>3. ActiveRows' = ActiveRows /\ Owes' = Owes
    BY <1>4 DEF ActiveRows, Owes
  <2>4. Decides'
    BY <1>1, <1>2, <1>3, <1>4, <2>3 DEF Decides
  <2> QED
    BY <2>1, <2>2, <2>4 DEF Quieting
<1>5. ASSUME pc[d] \in {"deliver", "recheck", "next"}, mode[d] = "dispatch", UNCHANGED <<status, mode>>,
             pc'[d] \in {"deliver", "recheck", "mark"}, ActiveRows # {}
      PROVE  Quieting'
  <2>1. Placed' /\ HandMarked'
    BY <1>1, <1>2, <1>5 DEF Placed, HandMarked
  <2>2. StepsFollow'
    BY <1>1, <1>2, <1>5 DEF StepsFollow, InHand
  <2>3. ActiveRows' # {}
    BY <1>5 DEF ActiveRows
  <2> QED
    BY <2>1, <2>2, <2>3 DEF Quieting, Decides
<1>6. CASE ExpireScan
  <2>1. \A e \in Events : deadline[e] # "past"
    BY DEF Calm, DeadlinesGiven, OnlyEvents
  <2>2. pc[d] = "next" /\ UNCHANGED <<status, pc, ev, memo, seen, submitted>> /\ todo'[d] = {}
    BY <1>1, <1>6, <2>1 DEF ExpireScan, Tick, ActiveRows
  <2> QED
    BY <1>4, <2>2
<1>7. CASE ReclaimScan
  BY <1>1, <1>4, <1>7 DEF ReclaimScan, Tick
<1>8. CASE Recheck
  <2>1. pc[d] = "recheck" /\ ev[d] \in Events /\ status[ev[d]] = "claimed" /\ mode[d] = "dispatch"
    BY <1>8 DEF Recheck, Calm, HandClaimed, Held, HeldOK
  <2>2. pc'[d] = "mark" /\ UNCHANGED <<status, mode>>
    BY <1>1, <1>8, <2>1 DEF Recheck, rows
  <2>3. ActiveRows # {}
    BY <2>1 DEF ActiveRows, OutboxActive
  <2> QED
    BY <1>5, <2>1, <2>2, <2>3
<1>9. CASE Submit
  <2>1. UNCHANGED <<status, pc, ev, memo, seen, mode, todo>> /\ pc[Agent] \in {"idle", "next"}
    BY <1>9 DEF Submit, LoopBusy, rows, local
  <2>2. Placed'
    BY <1>1, <1>2, <2>1 DEF Placed
  <2>3. HandMarked' /\ StepsFollow'
    BY <1>1, <1>2, <2>1 DEF HandMarked, StepsFollow, InHand
  <2>4. ActiveRows' = ActiveRows
    BY <2>1 DEF ActiveRows
  <2>5. Decides'
    BY <1>1, <1>2, <1>3, <2>1, <2>4 DEF Decides
  <2> QED
    BY <2>2, <2>3, <2>5 DEF Quieting
<1>10. CASE Mark
  <2>1. pc[d] = "mark" /\ ev[d] \in Events /\ status[ev[d]] = "claimed" /\ mode[d] = "dispatch"
    BY <1>10 DEF Mark, Calm, HandClaimed, Held, HeldOK
  <2>2. PICK s \in {"sent", "failed", "expired", "retrying"} :
            /\ status' = [status EXCEPT ![ev[d]] = s]
            /\ memo' = [memo EXCEPT ![d] = s]
            /\ pc' = [pc EXCEPT ![d] = "step"]
            /\ ev' = ev /\ mode' = mode /\ todo' = todo
    BY <1>1, <1>10, <2>1 DEF Mark, Outcome, Held, HeldOK
  <2>3. Placed' /\ HandMarked'
    BY <1>1, <1>2, <2>1, <2>2 DEF Placed, HandMarked
  <2>4. StepsFollow'
    <3> SUFFICES ASSUME NEW e \in Events
                 PROVE  /\ status'[e] \in OutboxActive \union {"none", "sent", "failed", "expired", "dropped"}
                        /\ status'[e] = "none" => step[e] = "none"
                        /\ status'[e] \in OutboxActive => step[e] = "waiting_outbox"
                        /\ status'[e] = "sent" => step[e] = "completed" \/ InHand(e)'
                        /\ status'[e] \in {"failed", "expired"} => step[e] = "failed" \/ InHand(e)'
                        /\ status'[e] = "dropped" => step[e] \in {"completed", "failed"}
      BY <1>2 DEF StepsFollow
    <3>1. ~InHand(e)
      BY <2>1 DEF InHand
    <3>2. CASE e = ev[d]
      <4>1. status'[e] = s /\ InHand(e)' /\ step[e] = "waiting_outbox"
        BY <1>1, <2>1, <2>2, <3>2 DEF InHand, StepsFollow, OutboxActive
      <4> QED
        BY <4>1 DEF OutboxActive
    <3>3. CASE e # ev[d]
      BY <1>1, <2>2, <3>1, <3>3 DEF StepsFollow
    <3> QED
      BY <3>2, <3>3
  <2>5. pc'[d] = "step" /\ Owes'
    BY <1>1, <2>2 DEF Owes
  <2> QED
    BY <2>3, <2>4, <2>5 DEF Quieting, Decides
<1>11. ASSUME NEW e \in Events, Expire(e) PROVE Quieting'
  BY <1>1, <1>11 DEF Expire, Close, Placed
<1>12. ASSUME NEW e \in Events, Check(e) PROVE Quieting'
  <2>1. /\ pc[d] = "next" /\ mode[d] = "dispatch" /\ mode' = mode
        /\ UNCHANGED <<status, memo, seen, submitted>>
    BY <1>12 DEF Check, rows
  <2>2. CASE status[e] = "claimed"
    <3>1. pc'[d] = "deliver" /\ ActiveRows # {}
      BY <1>1, <1>12, <2>2 DEF Check, ActiveRows, OutboxActive
    <3> QED
      BY <1>5, <2>1, <3>1
  <2>3. CASE status[e] # "claimed"
    <3>1. UNCHANGED <<pc, ev>>
      BY <1>12, <2>3 DEF Check
    <3> QED
      BY <1>4, <2>1, <3>1
  <2> QED
    BY <2>2, <2>3
<1>13. ASSUME NEW batch \in SUBSET DueRows, ClaimDue(batch) PROVE Quieting'
  <2>1. /\ pc[d] = "next" /\ mode'[d] = "dispatch"
        /\ UNCHANGED <<pc, ev, memo, seen, submitted>>
    BY <1>1, <1>13 DEF ClaimDue
  <2>2. \A e \in Events : \/ status'[e] = status[e]
                          \/ status'[e] \in OutboxActive /\ status[e] \in OutboxActive
    BY <1>13 DEF ClaimDue, DueRows, OutboxActive
  <2>3. ActiveRows' = ActiveRows
    BY <2>2 DEF ActiveRows
  <2>4. Placed' /\ HandMarked'
    BY <1>1, <1>2, <2>1 DEF Placed, HandMarked
  <2>5. StepsFollow'
    BY <1>1, <1>2, <2>1, <2>2 DEF StepsFollow, InHand, OutboxActive
  <2>6. Decides'
    BY <1>1, <1>2, <1>3, <2>1, <2>3 DEF Decides, Owes
  <2> QED
    BY <2>4, <2>5, <2>6 DEF Quieting
<1>14. ASSUME NEW outcome \in {"sent", "failed", "retrying"}, Deliver(outcome) PROVE Quieting'
  <2>1. pc[d] = "deliver" /\ ev[d] \in Events /\ status[ev[d]] = "claimed" /\ mode[d] = "dispatch"
    BY <1>14 DEF Deliver, Calm, HandClaimed, Held, HeldOK
  <2>2. pc'[d] = "recheck" /\ UNCHANGED <<status, mode>>
    BY <1>1, <1>14 DEF Deliver, rows
  <2>3. ActiveRows # {}
    BY <2>1 DEF ActiveRows, OutboxActive
  <2> QED
    BY <1>5, <2>1, <2>2, <2>3
<1>15. ASSUME NEW gone \in SUBSET Events, Rest(gone) PROVE Quieting'
  <2>1. /\ pc[d] = "next" /\ mode'[d] = "idle"
        /\ UNCHANGED <<pc, ev, memo, seen, submitted>>
        /\ \A e \in gone : status[e] \in OutboxTerminal
        /\ status' = [e \in Events |-> IF e \in gone THEN "dropped" ELSE status[e]]
    BY <1>1, <1>15 DEF Rest, Tick
  <2>2. \A e \in Events : \/ status'[e] = status[e]
                          \/ /\ status'[e] = "dropped" /\ status[e] \in {"sent", "failed", "expired"}
    BY <1>1, <2>1 DEF StepsFollow, OutboxTerminal, OutboxActive, OutboxSuccess, OutboxFailure,
       OutboxAbandoned
  <2>3. ActiveRows' = ActiveRows
    BY <2>2 DEF ActiveRows, OutboxActive
  <2>4. Placed' /\ HandMarked'
    BY <1>1, <1>2, <2>1 DEF Placed, HandMarked
  <2>5. StepsFollow'
    BY <1>1, <1>2, <2>1, <2>2 DEF StepsFollow, InHand, OutboxActive
  <2>6. Decides'
    BY <1>1, <1>2, <1>3, <2>1, <2>3 DEF Decides, Owes
  <2> QED
    BY <2>4, <2>5, <2>6 DEF Quieting
<1> QED
  BY <1>6, <1>7, <1>8, <1>9, <1>10, <1>11, <1>12, <1>13, <1>14, <1>15 DEF Dispatch

\* The turn adds an event, which is not settled yet, or comes to its end.
LEMMA OthersDecide ==
    ASSUME Typed, Quieting, OnlyEvents, OnlyEvents', TurnProceeds \/ Time
    PROVE  Quieting'
<1> USE ActorsDiffer DEF Typed, TypeOK, Goto
<1>1. /\ Dispatcher \in Actors /\ Dispatcher # Agent /\ Agent \in Actors
      /\ Placed /\ HandMarked /\ StepsFollow /\ Decides
  BY DEF Quieting
<1>2. ASSUME NEW e \in Events, QueueEvent(e) PROVE Quieting'
  <2>1. /\ status[e] = "none" /\ status' = [status EXCEPT ![e] = "pending"]
        /\ step' = [step EXCEPT ![e] = "waiting_outbox"]
        /\ UNCHANGED <<pc, mode, todo, ev, memo, seen, submitted, task>>
    BY <1>2 DEF QueueEvent, local
  <2>2. Placed' /\ HandMarked'
    BY <1>1, <2>1 DEF Placed, HandMarked
  <2>3. StepsFollow'
    BY <1>1, <2>1 DEF StepsFollow, InHand, OutboxActive, Steps
  <2>4. ActiveRows' # {}
    BY <2>1 DEF ActiveRows, OutboxActive
  <2> QED
    BY <2>2, <2>3, <2>4 DEF Quieting, Decides
<1>3. ASSUME NEW t \in Tools,
             StartTool(t) \/ FinishTool(t, "completed") \/ FinishTool(t, "failed")
      PROVE  FALSE
  <2>1. step[t] = "none" /\ step'[t] = "none"
    BY DEF OnlyEvents
  <2> QED
    BY <1>3, <2>1 DEF StartTool, FinishTool, Steps
<1>4. CASE EndTurn \/ TurnDone
  <2>1. /\ UNCHANGED <<status, step, task, todo, ev, memo, seen, submitted>>
        /\ mode'[Dispatcher] = mode[Dispatcher] /\ pc'[Dispatcher] = pc[Dispatcher]
        /\ \/ mode'[Agent] = "ending" /\ pc'[Agent] = "gate"
           \/ /\ mode'[Agent] = "idle" /\ pc'[Agent] = "idle"
              /\ mode[Agent] = "ending" /\ pc[Agent] = "next"
    BY <1>1, <1>4 DEF EndTurn, TurnDone, Leave, InTurn, rows, board
  <2>2. Placed' /\ HandMarked'
    BY <1>1, <2>1 DEF Placed, HandMarked
  <2>3. StepsFollow'
    BY <1>1, <2>1 DEF StepsFollow, InHand
  <2>4. ActiveRows' = ActiveRows /\ StepsNow' = StepsNow /\ LastWord' = LastWord
    BY <2>1 DEF ActiveRows, StepsNow, LastWord
  <2>5. Decides'
    BY <1>1, <2>1, <2>4 DEF Decides
  <2> QED
    BY <2>2, <2>3, <2>5 DEF Quieting
<1>5. ASSUME UNCHANGED <<status, task, step, pc, mode, todo, ev, memo, seen, submitted>>
      PROVE  Quieting'
  <2>1. ActiveRows' = ActiveRows /\ StepsNow' = StepsNow /\ LastWord' = LastWord /\ Owes' = Owes
    BY <1>5 DEF ActiveRows, StepsNow, LastWord, Owes
  <2> QED
    BY <1>1, <1>5, <2>1 DEF Quieting, Placed, HandMarked, StepsFollow, InHand, Decides
<1>6. CASE Time
  BY <1>5, <1>6 DEF Time, BecomeDue, BecomeStale, DebounceEnds, DeadlinePasses, board, local
<1> QED
  BY <1>2, <1>3, <1>4, <1>6 DEF TurnProceeds

\* At first nothing is queued and nobody has decided anything.
LEMMA InitGate == Init => NotYetDue /\ GateInv
<1> SUFFICES ASSUME Init PROVE NotYetDue /\ Quieting
  BY DEF GateInv, Quieting
<1>1. NotYetDue
  BY DEF Init, NotYetDue
<1>2. /\ pc[Dispatcher] = "next" /\ pc[Agent] = "next" /\ mode[Agent] = "turn"
      /\ mode[Dispatcher] = "idle"
  BY ActorsDiffer, ActorsAssumption DEF Init
<1>3. Placed /\ HandMarked
  BY <1>2 DEF Placed, HandMarked
<1>4. StepsFollow
  BY DEF Init, StepsFollow, OutboxActive, Steps
<1>5. Decides
  BY <1>2 DEF Decides
<1> QED
  BY <1>1, <1>3, <1>4, <1>5 DEF Quieting

\* Every undisturbed step keeps it.
LEMMA NextGate ==
    ASSUME NothingFails, Typed, Calm, NotYetDue, GateInv, [Undisturbed]_vars
    PROVE  NotYetDue' /\ GateInv'
<1>1. NotYetDue' /\ (OnlyEvents' => OnlyEvents)
  BY OnlyEventsBefore
<1>2. SUFFICES ASSUME OnlyEvents' PROVE Quieting'
  BY <1>1 DEF GateInv, Quieting
<1>3. Quieting /\ OnlyEvents
  BY <1>1, <1>2 DEF GateInv, Quieting
<1>4. ASSUME UNCHANGED vars PROVE Quieting'
  BY <1>3, <1>4 DEF Quieting, Placed, HandMarked, StepsFollow, InHand, Decides, Owes, LastWord,
     StepsNow, ActiveRows, vars, rows, board, local
<1>5. CASE Dispatch
  BY <1>3, <1>5, DispatchDecides
<1>6. CASE TurnProceeds \/ Time
  BY <1>2, <1>3, <1>6, OthersDecide
<1>7. CASE Ledger(Dispatcher)
  BY <1>3, <1>7, DispatcherDecides
<1>8. CASE Ledger(Agent)
  BY <1>3, <1>8, AgentDecides
<1> QED
  BY <1>4, <1>5, <1>6, <1>7, <1>8 DEF Undisturbed

\* When all is quiet the last word has been written.
LEMMA GateQuiet ==
    ASSUME Typed, Calm, GateInv
    PROVE  QuietMatchesGate
<1> SUFFICES ASSUME Quiet, OnlyEvents
             PROVE  task = Verdict(StepsNow, EventsNow, Verified)
  BY DEF QuietMatchesGate
<1>1. Placed /\ StepsFollow /\ Decides
  BY DEF GateInv, Quieting
<1>2. /\ pc[Agent] = "idle" /\ ActiveRows = {}
      /\ pc[Dispatcher] \in {"idle", "next"}
  BY ActorsDiffer DEF Quiet
<1>3. mode[Agent] = "idle"
  BY <1>1, <1>2 DEF Placed, Calm, Undistracted
<1>4. task = LastWord
  BY <1>1, <1>2, <1>3 DEF Decides
<1> QED
  BY <1>1, <1>2, <1>4, EventsAddNothing

\* The turn's gate runs on the event loop and the dispatcher's in a thread, each
\* deciding from earlier reads; if nobody interrupts and no evaluation raises,
\* a turn that only queued events comes to rest with the decision the gate
\* would take now, for any number of events, tools and attempts.
THEOREM QuietTaskMatchesGate ==
    ASSUME NothingFails
    PROVE  Init /\ [][Undisturbed]_vars => []QuietMatchesGate
<1> DEFINE I == Typed /\ Calm /\ NotYetDue /\ GateInv
<1>1. Init => I
  BY InitTyped, InitCalm, InitGate
<1>2. I /\ [Undisturbed]_vars => I'
  <2>1. [Undisturbed]_vars => [Next]_vars
    BY UndisturbedIsNext
  <2> QED
    BY <2>1, NextTyped, NextCalm, NextGate
<1>3. I => QuietMatchesGate
  BY GateQuiet
<1> QED
  BY <1>1, <1>2, <1>3, PTL
=============================================================================
