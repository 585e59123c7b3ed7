------------------------- MODULE TaskRecoveryProofs -------------------------
(***************************************************************************)
(* What TaskRecovery guarantees for every set of steps and every bound:    *)
(* its types, that a replay starts only where it is safe, and that the     *)
(* status of a task is the gate's decision, while the turns on the loop    *)
(* and the dispatcher, the recheck and the watchdog in their threads read  *)
(* and write in any order.                                                 *)
(***************************************************************************)
EXTENDS TaskRecovery, TLAPS

-----------------------------------------------------------------------------
(* Types *)

\* The gate writes the status of a task, and never one that says it verifies.
LEMMA GateType ==
    \A steps, evt : GateOf(steps, evt) \in TaskStatuses \ {"verifying"}
BY DEF GateOf, Verdict, TaskStatuses

\* TypeOK in parts: the rows, the places, the threads' memory and the flags.
TypeRow    == status \in TaskStatuses /\ event \in OutboxStatuses \union {"none"}
TypeSteps  == /\ step \in [Steps -> StepStatuses \union {"none"}]
              /\ active \subseteq Steps
TypePlaces == /\ turn \in [Turns -> Phases]
              /\ mark \in Marks /\ was \in TaskStatuses \union {"none"}
TypeGate   == gate \in [Deciders -> Labels] /\ note \in TaskStatuses \union {"none"}
TypeSeen   == seen \in [Deciders -> [Steps -> StepStatuses \union {"none"}]]
TypeMemo   == memo \in [Deciders -> TaskStatuses \union OutboxStatuses \union {"none"}]
TypeFlags  == /\ review \in BOOLEAN /\ quiet \in BOOLEAN /\ crowded \in BOOLEAN
              /\ overlap \in BOOLEAN /\ asked \in BOOLEAN
TypeCount  == decision \in {"none", "stands", "late"} /\ disturbances \in 0..MaxDisturbances

\* What a decider has in mind fits what it is about to do: at `step' the outcome
\* of the delivery, at its writes a status of the task.
MemoFits == \A d \in Deciders :
    /\ gate[d] = "step" => memo[d] \in {"sent", "failed", "pending"}
    /\ gate[d] \in {"touchWrite", "write"} => memo[d] \in TaskStatuses
    /\ gate[d] = "write" => memo[d] # "verifying"

\* What is about to be written back is a status, too.
WasFits == /\ mark \in {"note", "plain", "hardNote"} => was \in TaskStatuses
           /\ note # "none" => note \in TaskStatuses

\* The statuses the actions write are statuses of steps and of outbox events.
LEMMA Literals ==
    /\ {"running", "completed", "failed", "abandoned", "waiting_outbox"} \subseteq StepStatuses
    /\ {"pending", "sent", "failed", "abandoned"} \subseteq OutboxStatuses
BY DEF StepStatuses, OpenStep, OutboxStatuses, OutboxTerminal, OutboxActive,
       OutboxSuccess, OutboxFailure, OutboxAbandoned

\* The types and what the actors have in mind.
Types == TypeOK /\ MemoFits /\ WasFits

\* Types hold at first.
LEMMA TypeInit == Init => Types
<1> SUFFICES ASSUME Init PROVE Types
  OBVIOUS
<1> USE RecoveryAssumption DEF Init, NoSteps, TaskStatuses, Turns, Phases, Marks, Labels
<1>1. TypeRow
  BY DEF TypeRow
<1>2. TypeSteps
  BY DEF TypeSteps
<1>3. TypePlaces
  BY DEF TypePlaces
<1>4. TypeGate
  BY DEF TypeGate
<1>5. TypeSeen
  BY DEF TypeSeen
<1>6. TypeMemo
  BY DEF TypeMemo
<1>7. TypeFlags
  BY DEF TypeFlags
<1>8. TypeCount
  BY DEF TypeCount
<1>9. MemoFits
  BY DEF MemoFits
<1>10. WasFits
  BY DEF WasFits
<1> QED
  BY <1>1, <1>2, <1>3, <1>4, <1>5, <1>6, <1>7, <1>8, <1>9, <1>10
  DEF Types, TypeOK, TypeRow, TypeSteps, TypePlaces, TypeGate, TypeSeen, TypeMemo,
      TypeFlags, TypeCount

\* Every step keeps the types of all variables.
LEMMA TypeNext == Types /\ [Next]_vars => Types'
<1> SUFFICES ASSUME Types, [Next]_vars PROVE Types'
  OBVIOUS
<1> USE RecoveryAssumption, GateType, Literals
    DEF Types, TypeOK, Write, Active, TaskStatuses, Turns, Phases, Marks, Labels, Deciders,
        MayDisturb, NoSteps, row, board, watch, deciding, history
<1>1. ASSUME NEW t \in Turns, NEW s \in Steps,
             TurnStep(t) \/ Checkpoint(t) \/ FailTurn(t) \/ CancelTurn(t) \/ StartTool(t, s)
      PROVE  Types'
  <2>1. TypeRow'
    BY <1>1
    DEF TypeRow, TurnStep, StartTurn, StartTool, FinishTool, EndTurn, LeaveTurn,
           Checkpoint, FailTurn, CancelTurn, MemoFits, WasFits, LoopFree
  <2>2. TypeSteps'
    BY <1>1
    DEF TypeSteps, TurnStep, StartTurn, StartTool, FinishTool, EndTurn, LeaveTurn,
           Checkpoint, FailTurn, CancelTurn
  <2>3. TypePlaces'
    BY <1>1
    DEF TypePlaces, TurnStep, StartTurn, StartTool, FinishTool, EndTurn, LeaveTurn,
           Checkpoint, FailTurn, CancelTurn
  <2>4. TypeGate'
    BY <1>1
    DEF TypeGate, TurnStep, StartTurn, StartTool, FinishTool, EndTurn, LeaveTurn,
           Checkpoint, FailTurn, CancelTurn
  <2>5. TypeSeen'
    BY <1>1
    DEF TypeSeen, TurnStep, StartTurn, StartTool, FinishTool, EndTurn, LeaveTurn,
           Checkpoint, FailTurn, CancelTurn
  <2>6. TypeMemo'
    BY <1>1
    DEF TypeMemo, TurnStep, StartTurn, StartTool, FinishTool, EndTurn, LeaveTurn,
           Checkpoint, FailTurn, CancelTurn, MemoFits, WasFits, LoopFree
  <2>7. TypeFlags'
    BY <1>1
    DEF TypeFlags, TurnStep, StartTurn, StartTool, FinishTool, EndTurn, LeaveTurn,
           Checkpoint, FailTurn, CancelTurn
  <2>8. TypeCount'
    BY <1>1
    DEF TypeCount, TurnStep, StartTurn, StartTool, FinishTool, EndTurn, LeaveTurn,
           Checkpoint, FailTurn, CancelTurn
  <2>9. MemoFits'
    BY <1>1
    DEF MemoFits, TurnStep, StartTurn, StartTool, FinishTool, EndTurn, LeaveTurn,
           Checkpoint, FailTurn, CancelTurn
  <2>10. WasFits'
    BY <1>1
    DEF WasFits, TurnStep, StartTurn, StartTool, FinishTool, EndTurn, LeaveTurn,
           Checkpoint, FailTurn, CancelTurn
  <2> QED
    BY <2>1, <2>2, <2>3, <2>4, <2>5, <2>6, <2>7, <2>8, <2>9, <2>10
    DEF TypeRow, TypeSteps, TypePlaces, TypeGate, TypeSeen, TypeMemo, TypeFlags, TypeCount
<1>2. ASSUME NEW d \in Deciders, Decision(d) PROVE Types'
  <2>1. TypeRow'
    BY <1>2
    DEF TypeRow, Decision, Begin, ReadSteps, ReadEvents, Decide, Goto, Conclude, MemoFits, WasFits, LoopFree
  <2>2. TypeSteps'
    BY <1>2
    DEF TypeSteps, Decision, Begin, ReadSteps, ReadEvents, Decide, Goto, Conclude
  <2>3. TypePlaces'
    BY <1>2
    DEF TypePlaces, Decision, Begin, ReadSteps, ReadEvents, Decide, Goto, Conclude
  <2>4. TypeGate'
    BY <1>2
    DEF TypeGate, Decision, Begin, ReadSteps, ReadEvents, Decide, Goto, Conclude
  <2>5. TypeSeen'
    BY <1>2
    DEF TypeSeen, Decision, Begin, ReadSteps, ReadEvents, Decide, Goto, Conclude
  <2>6. TypeMemo'
    BY <1>2
    DEF TypeMemo, Decision, Begin, ReadSteps, ReadEvents, Decide, Goto, Conclude, MemoFits, WasFits, LoopFree
  <2>7. TypeFlags'
    BY <1>2
    DEF TypeFlags, Decision, Begin, ReadSteps, ReadEvents, Decide, Goto, Conclude
  <2>8. TypeCount'
    BY <1>2
    DEF TypeCount, Decision, Begin, ReadSteps, ReadEvents, Decide, Goto, Conclude
  <2>9. MemoFits'
    BY <1>2
    DEF MemoFits, Decision, Begin, ReadSteps, ReadEvents, Decide, Goto, Conclude
  <2>10. WasFits'
    BY <1>2
    DEF WasFits, Decision, Begin, ReadSteps, ReadEvents, Decide, Goto, Conclude
  <2> QED
    BY <2>1, <2>2, <2>3, <2>4, <2>5, <2>6, <2>7, <2>8, <2>9, <2>10
    DEF TypeRow, TypeSteps, TypePlaces, TypeGate, TypeSeen, TypeMemo, TypeFlags, TypeCount
<1>3. CASE Send
  <2>1. TypeRow'
    BY <1>3
    DEF TypeRow, Send, Deliver, Mark, MarkStep, StepFor, ReadRow, WriteRow, Goto, Reopen, Overwrite, MemoFits, WasFits, LoopFree
  <2>2. TypeSteps'
    BY <1>3
    DEF TypeSteps, Send, Deliver, Mark, MarkStep, StepFor, ReadRow, WriteRow, Goto, Reopen, Overwrite
  <2>3. TypePlaces'
    BY <1>3
    DEF TypePlaces, Send, Deliver, Mark, MarkStep, StepFor, ReadRow, WriteRow, Goto, Reopen, Overwrite
  <2>4. TypeGate'
    BY <1>3
    DEF TypeGate, Send, Deliver, Mark, MarkStep, StepFor, ReadRow, WriteRow, Goto, Reopen, Overwrite
  <2>5. TypeSeen'
    BY <1>3
    DEF TypeSeen, Send, Deliver, Mark, MarkStep, StepFor, ReadRow, WriteRow, Goto, Reopen, Overwrite
  <2>6. TypeMemo'
    BY <1>3
    DEF TypeMemo, Send, Deliver, Mark, MarkStep, StepFor, ReadRow, WriteRow, Goto, Reopen, Overwrite, MemoFits, WasFits, LoopFree
  <2>7. TypeFlags'
    BY <1>3
    DEF TypeFlags, Send, Deliver, Mark, MarkStep, StepFor, ReadRow, WriteRow, Goto, Reopen, Overwrite
  <2>8. TypeCount'
    BY <1>3
    DEF TypeCount, Send, Deliver, Mark, MarkStep, StepFor, ReadRow, WriteRow, Goto, Reopen, Overwrite
  <2>9. MemoFits'
    BY <1>3
    DEF MemoFits, Send, Deliver, Mark, MarkStep, StepFor, ReadRow, WriteRow, Goto, Reopen, Overwrite
  <2>10. WasFits'
    BY <1>3
    DEF WasFits, Send, Deliver, Mark, MarkStep, StepFor, ReadRow, WriteRow, Goto, Reopen, Overwrite
  <2> QED
    BY <2>1, <2>2, <2>3, <2>4, <2>5, <2>6, <2>7, <2>8, <2>9, <2>10
    DEF TypeRow, TypeSteps, TypePlaces, TypeGate, TypeSeen, TypeMemo, TypeFlags, TypeCount
<1>4. CASE Watch
  <2>1. TypeRow'
    BY <1>4
    DEF TypeRow, Watch, ListStale, ReadStale, FailStale, ReadForNote, WriteNote, LeaveUnmarked,
           Noting, FailsWhen, Overwrite, MemoFits, WasFits, LoopFree
  <2>2. TypeSteps'
    BY <1>4
    DEF TypeSteps, Watch, ListStale, ReadStale, FailStale, ReadForNote, WriteNote, LeaveUnmarked,
           Noting, FailsWhen, Overwrite
  <2>3. TypePlaces'
    BY <1>4
    DEF TypePlaces, Watch, ListStale, ReadStale, FailStale, ReadForNote, WriteNote, LeaveUnmarked,
           Noting, FailsWhen, Overwrite
  <2>4. TypeGate'
    BY <1>4
    DEF TypeGate, Watch, ListStale, ReadStale, FailStale, ReadForNote, WriteNote, LeaveUnmarked,
           Noting, FailsWhen, Overwrite
  <2>5. TypeSeen'
    BY <1>4
    DEF TypeSeen, Watch, ListStale, ReadStale, FailStale, ReadForNote, WriteNote, LeaveUnmarked,
           Noting, FailsWhen, Overwrite
  <2>6. TypeMemo'
    BY <1>4
    DEF TypeMemo, Watch, ListStale, ReadStale, FailStale, ReadForNote, WriteNote, LeaveUnmarked,
           Noting, FailsWhen, Overwrite, MemoFits, WasFits, LoopFree
  <2>7. TypeFlags'
    BY <1>4
    DEF TypeFlags, Watch, ListStale, ReadStale, FailStale, ReadForNote, WriteNote, LeaveUnmarked,
           Noting, FailsWhen, Overwrite
  <2>8. TypeCount'
    BY <1>4
    DEF TypeCount, Watch, ListStale, ReadStale, FailStale, ReadForNote, WriteNote, LeaveUnmarked,
           Noting, FailsWhen, Overwrite
  <2>9. MemoFits'
    BY <1>4
    DEF MemoFits, Watch, ListStale, ReadStale, FailStale, ReadForNote, WriteNote, LeaveUnmarked,
           Noting, FailsWhen, Overwrite
  <2>10. WasFits'
    BY <1>4
    DEF WasFits, Watch, ListStale, ReadStale, FailStale, ReadForNote, WriteNote, LeaveUnmarked,
           Noting, FailsWhen, Overwrite
  <2> QED
    BY <2>1, <2>2, <2>3, <2>4, <2>5, <2>6, <2>7, <2>8, <2>9, <2>10
    DEF TypeRow, TypeSteps, TypePlaces, TypeGate, TypeSeen, TypeMemo, TypeFlags, TypeCount
<1>5. CASE ListAll \/ Restart \/ TimePasses \/ MakeRoom
  <2>1. TypeRow'
    BY <1>5
    DEF TypeRow, ListAll, Restart, TimePasses, MakeRoom, Reopen, MemoFits, WasFits, LoopFree
  <2>2. TypeSteps'
    BY <1>5
    DEF TypeSteps, ListAll, Restart, TimePasses, MakeRoom, Reopen
  <2>3. TypePlaces'
    BY <1>5
    DEF TypePlaces, ListAll, Restart, TimePasses, MakeRoom, Reopen
  <2>4. TypeGate'
    BY <1>5
    DEF TypeGate, ListAll, Restart, TimePasses, MakeRoom, Reopen
  <2>5. TypeSeen'
    BY <1>5
    DEF TypeSeen, ListAll, Restart, TimePasses, MakeRoom, Reopen
  <2>6. TypeMemo'
    BY <1>5
    DEF TypeMemo, ListAll, Restart, TimePasses, MakeRoom, Reopen, MemoFits, WasFits, LoopFree
  <2>7. TypeFlags'
    BY <1>5
    DEF TypeFlags, ListAll, Restart, TimePasses, MakeRoom, Reopen
  <2>8. TypeCount'
    BY <1>5
    DEF TypeCount, ListAll, Restart, TimePasses, MakeRoom, Reopen
  <2>9. MemoFits'
    BY <1>5
    DEF MemoFits, ListAll, Restart, TimePasses, MakeRoom, Reopen
  <2>10. WasFits'
    BY <1>5
    DEF WasFits, ListAll, Restart, TimePasses, MakeRoom, Reopen
  <2> QED
    BY <2>1, <2>2, <2>3, <2>4, <2>5, <2>6, <2>7, <2>8, <2>9, <2>10
    DEF TypeRow, TypeSteps, TypePlaces, TypeGate, TypeSeen, TypeMemo, TypeFlags, TypeCount
<1>6. CASE RequestResume \/ RetryEvent \/ Replay
  <2>0. AtWork \in BOOLEAN
    BY DEF AtWork
  <2>1. TypeRow'
    BY <1>6
    DEF TypeRow, RequestResume, RetryEvent, Replay, MayAsk, MemoFits, WasFits, LoopFree
  <2>2. TypeSteps'
    BY <1>6
    DEF TypeSteps, RequestResume, RetryEvent, Replay, MayAsk
  <2>3. TypePlaces'
    BY <1>6
    DEF TypePlaces, RequestResume, RetryEvent, Replay, MayAsk
  <2>4. TypeGate'
    BY <1>6
    DEF TypeGate, RequestResume, RetryEvent, Replay, MayAsk
  <2>5. TypeSeen'
    BY <1>6
    DEF TypeSeen, RequestResume, RetryEvent, Replay, MayAsk
  <2>6. TypeMemo'
    BY <1>6
    DEF TypeMemo, RequestResume, RetryEvent, Replay, MayAsk, MemoFits, WasFits, LoopFree
  <2>7. TypeFlags'
    BY <1>6, <2>0
    DEF TypeFlags, RequestResume, RetryEvent, Replay, MayAsk
  <2>8. TypeCount'
    BY <1>6
    DEF TypeCount, RequestResume, RetryEvent, Replay, MayAsk
  <2>9. MemoFits'
    BY <1>6
    DEF MemoFits, RequestResume, RetryEvent, Replay, MayAsk
  <2>10. WasFits'
    BY <1>6
    DEF WasFits, RequestResume, RetryEvent, Replay, MayAsk
  <2> QED
    BY <2>1, <2>2, <2>3, <2>4, <2>5, <2>6, <2>7, <2>8, <2>9, <2>10
    DEF TypeRow, TypeSteps, TypePlaces, TypeGate, TypeSeen, TypeMemo, TypeFlags, TypeCount
<1>7. CASE AskRecheck \/ Recheck \/ WriteBack \/ ResumeRecheck
  <2>1. TypeRow'
    BY <1>7
    DEF TypeRow, AskRecheck, Recheck, WriteBack, ResumeRecheck, MayAsk, Goto,
           Conclude, Overwrite, MemoFits, WasFits, LoopFree
  <2>2. TypeSteps'
    BY <1>7
    DEF TypeSteps, AskRecheck, Recheck, WriteBack, ResumeRecheck, MayAsk, Goto,
           Conclude, Overwrite
  <2>3. TypePlaces'
    BY <1>7
    DEF TypePlaces, AskRecheck, Recheck, WriteBack, ResumeRecheck, MayAsk, Goto,
           Conclude, Overwrite
  <2>4. TypeGate'
    BY <1>7
    DEF TypeGate, AskRecheck, Recheck, WriteBack, ResumeRecheck, MayAsk, Goto,
           Conclude, Overwrite
  <2>5. TypeSeen'
    BY <1>7
    DEF TypeSeen, AskRecheck, Recheck, WriteBack, ResumeRecheck, MayAsk, Goto,
           Conclude, Overwrite
  <2>6. TypeMemo'
    BY <1>7
    DEF TypeMemo, AskRecheck, Recheck, WriteBack, ResumeRecheck, MayAsk, Goto,
           Conclude, Overwrite, MemoFits, WasFits, LoopFree
  <2>7. TypeFlags'
    BY <1>7
    DEF TypeFlags, AskRecheck, Recheck, WriteBack, ResumeRecheck, MayAsk, Goto,
           Conclude, Overwrite
  <2>8. TypeCount'
    BY <1>7
    DEF TypeCount, AskRecheck, Recheck, WriteBack, ResumeRecheck, MayAsk, Goto,
           Conclude, Overwrite
  <2>9. MemoFits'
    BY <1>7
    DEF MemoFits, AskRecheck, Recheck, WriteBack, ResumeRecheck, MayAsk, Goto,
           Conclude, Overwrite
  <2>10. WasFits'
    BY <1>7
    DEF WasFits, AskRecheck, Recheck, WriteBack, ResumeRecheck, MayAsk, Goto,
           Conclude, Overwrite
  <2> QED
    BY <2>1, <2>2, <2>3, <2>4, <2>5, <2>6, <2>7, <2>8, <2>9, <2>10
    DEF TypeRow, TypeSteps, TypePlaces, TypeGate, TypeSeen, TypeMemo, TypeFlags, TypeCount
<1>8. CASE UNCHANGED vars
  <2>1. TypeRow'
    BY <1>8
    DEF TypeRow, vars
  <2>2. TypeSteps'
    BY <1>8
    DEF TypeSteps, vars
  <2>3. TypePlaces'
    BY <1>8
    DEF TypePlaces, vars
  <2>4. TypeGate'
    BY <1>8
    DEF TypeGate, vars
  <2>5. TypeSeen'
    BY <1>8
    DEF TypeSeen, vars
  <2>6. TypeMemo'
    BY <1>8
    DEF TypeMemo, vars
  <2>7. TypeFlags'
    BY <1>8
    DEF TypeFlags, vars
  <2>8. TypeCount'
    BY <1>8
    DEF TypeCount, vars
  <2>9. MemoFits'
    BY <1>8
    DEF MemoFits, vars
  <2>10. WasFits'
    BY <1>8
    DEF WasFits, vars
  <2> QED
    BY <2>1, <2>2, <2>3, <2>4, <2>5, <2>6, <2>7, <2>8, <2>9, <2>10
    DEF TypeRow, TypeSteps, TypePlaces, TypeGate, TypeSeen, TypeMemo, TypeFlags, TypeCount
<1> QED
  BY <1>1, <1>2, <1>3, <1>4, <1>5, <1>6, <1>7, <1>8 DEF Next

\* The types are an invariant, with what the actors have in mind.
LEMMA TypesHold == Spec => []Types
  BY TypeInit, TypeNext, PTL DEF Spec

\* Every variable keeps its type.
THEOREM TypeCorrect == Spec => []TypeOK
<1>1. Types => TypeOK
  BY DEF Types
<1> QED
  BY <1>1, TypesHold, PTL

-----------------------------------------------------------------------------
(* A replay starts only where it is safe *)

\* What a queued replay relies on, together with what keeps it so: the first
\* turn is over, there is no failed event that could be retried, no thread has
\* begun a gate, and the watchdog does not bring back a settled status.
WaitsSafely ==
    /\ ReplayIsSafe
    /\ turn["first"] = "none" /\ event # "failed"
    /\ note = "none" /\ \A d \in Deciders : gate[d] = "idle"
    /\ Noting => was \notin {"completed", "abandoned"}
ReplayWaitsSafely == turn["replay"] = "queued" /\ ~overlap /\ ~asked => WaitsSafely

\* No step of anybody but an operator takes the ground from a queued replay.
LEMMA SafelyNext ==
    Types /\ ReplayWaitsSafely /\ [Next]_vars => ReplayWaitsSafely'
<1> SUFFICES ASSUME Types, ReplayWaitsSafely, [Next]_vars,
                    turn'["replay"] = "queued", ~overlap', ~asked'
             PROVE  WaitsSafely'
  BY DEF ReplayWaitsSafely
<1> USE DEF Types, TypeOK, ReplayWaitsSafely, WaitsSafely, ReplayIsSafe, OpenEvent, OutboxActive,
        Failed, Write, Active, Turns, Deciders, Noting, row, board, watch, deciding, history
<1>1. ASSUME NEW t \in Turns, StartTurn(t) PROVE WaitsSafely'
  BY <1>1 DEF StartTurn
<1>2. ASSUME NEW t \in Turns, EndTurn(t) \/ LeaveTurn(t) \/ Checkpoint(t) \/ FailTurn(t)
      PROVE WaitsSafely'
  BY <1>2 DEF EndTurn, LeaveTurn, Checkpoint, FailTurn, Holding
<1>3. ASSUME NEW t \in Turns, NEW s \in Steps, StartTool(t, s) \/ FinishTool(t, s)
      PROVE WaitsSafely'
  BY <1>3 DEF StartTool, FinishTool
<1>4. ASSUME NEW t \in Turns, CancelTurn(t) PROVE WaitsSafely'
  BY <1>4 DEF CancelTurn, Holding
<1>5. ASSUME NEW d \in Deciders, Decision(d) PROVE WaitsSafely'
  BY <1>5 DEF Decision, Begin, ReadSteps, ReadEvents, Decide
<1>6. CASE Send
  BY <1>6 DEF Send, Deliver, Mark, MarkStep, ReadRow, WriteRow
<1>7. CASE Watch
  BY <1>7 DEF Watch, ListStale, ReadStale, FailStale, ReadForNote, WriteNote, LeaveUnmarked
<1>8. CASE ListAll \/ Restart \/ TimePasses \/ MakeRoom
  BY <1>8 DEF ListAll, Restart, TimePasses, MakeRoom
<1>9. CASE RequestResume \/ RetryEvent \/ AskRecheck \/ ResumeRecheck
  BY <1>9 DEF RequestResume, RetryEvent, AskRecheck, ResumeRecheck, MayAsk, Candidate
<1>10. CASE Recheck \/ WriteBack
  BY <1>10 DEF Recheck, WriteBack, LoopFree
<1>11. CASE Replay
  BY <1>11 DEF Replay, MayAsk, Candidate, Superseded, AtWork, LoopFree
<1>12. CASE UNCHANGED vars
  BY <1>12 DEF vars
<1> QED
  BY <1>1, <1>2, <1>3, <1>4, <1>5, <1>6, <1>7, <1>8, <1>9, <1>10, <1>11, <1>12
  DEF Next, TurnStep

\* Whatever the watchdog, the dispatcher and other requests do between an
\* operator's resume and the start of its turn, if they begin after it.
THEOREM ReplaysStartSafely == Spec => ReplayStartsSafe
<1>1. Init => ReplayWaitsSafely
  BY DEF Init, ReplayWaitsSafely, Turns
<1>2. Types /\ ReplayWaitsSafely /\ [Next]_vars =>
          [StartTurn("replay") => ReplayIsSafe \/ overlap \/ asked]_vars
  BY DEF ReplayWaitsSafely, WaitsSafely, StartTurn
<1> QED
  BY <1>1, <1>2, SafelyNext, TypesHold, PTL DEF Spec, ReplayStartsSafe

-----------------------------------------------------------------------------
(* The gate's decision *)

\* One turn at a time has the session's lock; once the gate has decided, none
\* makes tool calls any more.
OneRuns ==
    /\ \A t, u \in Turns : t \in Holding /\ u \in Holding => t = u
    /\ decision # "none" => \A t \in Turns : turn[t] # "running"

\* The session's lock, and that a turn starts only after the gate's decision
\* has been forgotten.
LEMMA OneRunsNext == Types /\ OneRuns /\ [Next]_vars => OneRuns'
<1> SUFFICES ASSUME Types, OneRuns, [Next]_vars PROVE OneRuns'
  OBVIOUS
<1> USE DEF Types, TypeOK, OneRuns, Holding, Write, Turns, Idle, Conclude, Reopen, Overwrite,
        row, board, watch, deciding, history
<1>1. ASSUME NEW t \in Turns, StartTurn(t) PROVE OneRuns'
  BY <1>1 DEF StartTurn
<1>2. ASSUME NEW t \in Turns, EndTurn(t) \/ LeaveTurn(t) \/ Checkpoint(t) \/ FailTurn(t)
      PROVE OneRuns'
  BY <1>2 DEF EndTurn, LeaveTurn, Checkpoint, FailTurn
<1>3. ASSUME NEW t \in Turns, NEW s \in Steps, StartTool(t, s) \/ FinishTool(t, s) PROVE OneRuns'
  BY <1>3 DEF StartTool, FinishTool
<1>4. ASSUME NEW t \in Turns, CancelTurn(t) PROVE OneRuns'
  BY <1>4 DEF CancelTurn
<1>5. ASSUME NEW d \in Deciders, Decision(d) PROVE OneRuns'
  BY <1>5 DEF Decision, Begin, ReadSteps, ReadEvents, Decide
<1>6. CASE Send
  BY <1>6 DEF Send, Deliver, Mark, MarkStep, ReadRow, WriteRow
<1>7. CASE Watch
  BY <1>7 DEF Watch, ListStale, ReadStale, FailStale, ReadForNote, WriteNote, LeaveUnmarked
<1>8. CASE ListAll \/ Restart \/ TimePasses \/ MakeRoom
  BY <1>8 DEF ListAll, Restart, TimePasses, MakeRoom
<1>9. CASE RequestResume \/ RetryEvent \/ AskRecheck \/ ResumeRecheck \/ Recheck \/ WriteBack
  BY <1>9 DEF RequestResume, RetryEvent, AskRecheck, ResumeRecheck, Recheck, WriteBack, MayAsk
<1>10. CASE Replay
  BY <1>10 DEF Replay, MayAsk
<1>11. CASE UNCHANGED vars
  BY <1>11 DEF vars
<1> QED
  BY <1>1, <1>2, <1>3, <1>4, <1>5, <1>6, <1>7, <1>8, <1>9, <1>10, <1>11 DEF Next, TurnStep

\* Nobody changes what the gate decides upon, or what it has decided, without
\* a decision to follow or its decision being late.
LEMMA GateNext ==
    Types /\ OneRuns /\ ConcludedByGate /\ [Next]_vars => ConcludedByGate'
<1> SUFFICES ASSUME Types, OneRuns, ConcludedByGate, [Next]_vars PROVE ConcludedByGate'
  OBVIOUS
<1>0. GateOf(step, event) # "verifying"
  BY GateType
<1>g. step' = step /\ event' = event => GateOf(step, event)' = GateOf(step, event)
  BY DEF GateOf
<1>d. gate' = gate /\ memo' = memo => Deciding' = Deciding
  BY DEF Deciding
<1> USE DEF Types, TypeOK, OneRuns, Holding, ConcludedByGate, Write, Turns, Deciders,
        Conclude, Reopen, Overwrite, row, board, watch, deciding, history
<1>1. ASSUME NEW t \in Turns, StartTurn(t) \/ Checkpoint(t) \/ FailTurn(t) PROVE ConcludedByGate'
  BY <1>1, <1>d DEF StartTurn, Checkpoint, FailTurn
<1>2. ASSUME NEW t \in Turns, EndTurn(t) \/ LeaveTurn(t) PROVE ConcludedByGate'
  BY <1>2, <1>g, <1>d DEF EndTurn, LeaveTurn
<1>3. ASSUME NEW t \in Turns, NEW s \in Steps, StartTool(t, s) \/ FinishTool(t, s)
      PROVE ConcludedByGate'
  BY <1>3 DEF StartTool, FinishTool
<1>4. ASSUME NEW t \in Turns, CancelTurn(t) PROVE ConcludedByGate'
  BY <1>4, <1>g, <1>d DEF CancelTurn
<1>5. ASSUME NEW d \in Deciders, Decision(d) PROVE ConcludedByGate'
  <2>1. CASE Begin(d) \/ ReadSteps(d) \/ ReadEvents(d)
    <3>1. gate'[d] \in {"steps", "events", "write"}
      BY <2>1 DEF Begin, ReadSteps, ReadEvents, Goto
    <3> QED
      BY <3>1 DEF Deciding
  <2>2. CASE Decide(d)
    BY <2>2, <1>g DEF Decide
  <2> QED
    BY <1>5, <2>1, <2>2 DEF Decision
<1>6. CASE Deliver
  <2>1. Deciding' = Deciding
    BY <1>6 DEF Deliver, Goto, Deciding
  <2> QED
    BY <1>6, <1>g, <2>1 DEF Deliver
<1>7. ASSUME NEW result \in {"sent", "failed", "pending"}, Mark(result) PROVE ConcludedByGate'
  <2>1. CASE result # "pending"
    <3>1. Deciding'
      BY <1>7, <2>1 DEF Mark, Goto, Deciding
    <3> QED
      BY <3>1
  <2>2. CASE result = "pending"
    <3>1. Deciding' = Deciding
      BY <1>7, <2>2 DEF Mark, Goto, Deciding
    <3>2. event \in OutboxActive => GateOf(step, event)' = GateOf(step, event)
      BY <1>7, <2>2 DEF Mark, GateOf, Verdict, OutboxActive, OutboxAbandoned
    <3> QED
      BY <1>7, <2>2, <3>1, <3>2 DEF Mark, OpenEvent
  <2> QED
    BY <2>1, <2>2
<1>8. CASE MarkStep
  <2>1. CASE memo["sender"] # "pending"
    <3>1. gate'["sender"] \in {"touch", "begin"}
      BY <1>8, <2>1 DEF MarkStep, Goto, MemoFits
    <3> QED
      BY <3>1 DEF Deciding
  <2>2. CASE memo["sender"] = "pending"
    <3>1. Deciding' = Deciding
      BY <1>8, <2>2 DEF MarkStep, Goto, Deciding
    <3>2. step[Notice] = "waiting_outbox" => step' = step
      BY <1>8, <2>2 DEF MarkStep, StepFor
    <3> QED
      BY <1>8, <2>2, <3>1, <3>2, <1>g DEF MarkStep
  <2> QED
    BY <2>1, <2>2
<1>9. CASE ReadRow \/ WriteRow
  <2>1. gate'["sender"] \in {"touchWrite", "begin"}
    BY <1>9 DEF ReadRow, WriteRow, Goto
  <2> QED
    BY <2>1 DEF Deciding
<1>10. CASE ListStale \/ ReadStale \/ ReadForNote \/ LeaveUnmarked
  BY <1>10, <1>g, <1>d DEF ListStale, ReadStale, ReadForNote, LeaveUnmarked
<1>11. CASE FailStale
  BY <1>11, <1>g, <1>d, <1>0 DEF FailStale, FailsWhen
<1>12. CASE WriteNote
  BY <1>12, <1>g, <1>d DEF WriteNote
<1>13. CASE ListAll \/ TimePasses \/ MakeRoom
  BY <1>13, <1>g, <1>d DEF ListAll, TimePasses, MakeRoom
<1>14. CASE Restart
  BY <1>14, <1>g DEF Restart
<1>15. CASE RequestResume \/ RetryEvent \/ Replay
  BY <1>15 DEF RequestResume, RetryEvent, Replay
<1>16. CASE AskRecheck
  <2>1. gate'["recheck"] = "begin"
    BY <1>16 DEF AskRecheck, Goto
  <2> QED
    BY <2>1 DEF Deciding
<1>17. CASE Recheck
  <2>1. Deciding' = Deciding
    BY <1>17 DEF Recheck, Goto, Deciding
  <2> QED
    BY <1>17, <1>g, <2>1 DEF Recheck
<1>18. CASE WriteBack
  BY <1>18, <1>g, <1>d DEF WriteBack
<1>19. CASE ResumeRecheck
  BY <1>19, <1>g DEF ResumeRecheck
<1>20. CASE UNCHANGED vars
  BY <1>20, <1>g, <1>d DEF vars
<1> QED
  BY <1>1, <1>2, <1>3, <1>4, <1>5, <1>6, <1>7, <1>8, <1>9, <1>10, <1>11, <1>12, <1>13, <1>14,
     <1>15, <1>16, <1>17, <1>18, <1>19, <1>20
  DEF Next, TurnStep, Send, Watch

\* The status of a task is the gate's decision, but for a decision or a mark
\* that was out of date when it was written.
THEOREM GatePrevails == Spec => []ConcludedByGate
<1>1. Init => OneRuns /\ ConcludedByGate
  BY DEF Init, OneRuns, ConcludedByGate, Holding, Turns
<1> QED
  BY <1>1, OneRunsNext, GateNext, TypesHold, PTL DEF Spec
=============================================================================
