--------------------------- MODULE CompletionGate ---------------------------
(***************************************************************************)
(* The status vocabulary of the task ledger and the completion gate that   *)
(* decides what a task's status becomes (src/lemonclaw/ledger/types.py and *)
(* ledger/completion_gate.py).  The gate reads only which statuses occur   *)
(* among the task's steps and outbox events, so both arguments are sets of *)
(* statuses; the stage written beside the status is a function of it       *)
(* and is left out.                                                        *)
(***************************************************************************)

OutboxActive    == {"pending", "claimed", "retrying"}
OutboxSuccess   == {"sent", "compensated"}
OutboxFailure   == {"failed", "expired"}
OutboxAbandoned == {"abandoned"}
OutboxTerminal  == OutboxSuccess \union OutboxFailure \union OutboxAbandoned
OutboxStatuses  == OutboxActive \union OutboxTerminal

\* Steps that are neither finished nor parked on the outbox.
OpenStep     == {"pending", "running", "waiting", "retrying"}
StepStatuses == OpenStep \union
                {"waiting_outbox", "completed", "failed", "abandoned", "compensated"}

TaskStatuses == {"running", "verifying", "waiting", "completed", "failed", "abandoned"}

\* evaluate_completion: the first blocker found decides.  A failed outbox event
\* parks the task, an expired one fails it, an abandoned one abandons it.
Verdict(steps, events, verified) ==
    IF "failed" \in steps                        THEN "failed"
    ELSE IF events \cap OutboxAbandoned # {}     THEN "abandoned"
    ELSE IF "expired" \in events                 THEN "failed"
    ELSE IF "failed" \in events                  THEN "waiting"
    ELSE IF events \cap OutboxActive # {}        THEN "waiting"
    ELSE IF "waiting_outbox" \in steps           THEN "waiting"
    ELSE IF steps \cap OpenStep # {} \/ ~verified THEN "running"
    ELSE "completed"

\* What the gate must have seen to let a task complete.
Settled(steps, events) ==
    /\ steps \subseteq {"completed", "abandoned", "compensated"}
    /\ events \subseteq OutboxSuccess
=============================================================================
