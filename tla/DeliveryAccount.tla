-------------------------- MODULE DeliveryAccount --------------------------
(***************************************************************************)
(* What is left of DeliveryContract when operators, cancelled turns and    *)
(* crashes interfere with the outbox.  Anybody may give an effect up or    *)
(* reopen it, but the books stay right: it is handed to the delivery       *)
(* adapter at most MaxAttempts times and once more for each rescheduling,  *)
(* it is only called delivered if the adapter accepted it, what was called *)
(* delivered opens again only by a rescheduling that is counted, and what  *)
(* has been forgotten stays so.                                            *)
(***************************************************************************)
EXTENDS Naturals

CONSTANTS Events, MaxAttempts

VARIABLES phase, handoffs, accepted, reopened

vars == <<phase, handoffs, accepted, reopened>>

Init ==
    /\ phase = [e \in Events |-> "absent"]
    /\ handoffs = [e \in Events |-> 0]
    /\ accepted = {}
    /\ reopened = [e \in Events |-> 0]

Known(e)  == phase[e] \in {"open", "delivered", "given up"}
Budget(e) == MaxAttempts + reopened[e]

Becomes(e, to) == phase' = [phase EXCEPT ![e] = to]

Queue(e) ==
    /\ phase[e] = "absent" /\ Becomes(e, "open")
    /\ UNCHANGED <<handoffs, accepted, reopened>>

HandOff(e) ==
    /\ Known(e) /\ handoffs[e] < Budget(e)
    /\ handoffs' = [handoffs EXCEPT ![e] = @ + 1]
    /\ accepted' \in {accepted, accepted \union {e}}
    /\ UNCHANGED <<phase, reopened>>

Confirm(e) ==
    /\ phase[e] \in {"open", "given up"} /\ e \in accepted /\ Becomes(e, "delivered")
    /\ UNCHANGED <<handoffs, accepted, reopened>>

GiveUp(e) ==
    /\ Known(e) /\ Becomes(e, "given up")
    /\ UNCHANGED <<handoffs, accepted, reopened>>

\* The late failure of a handoff reopens what was given up meanwhile.
Postpone(e) ==
    /\ phase[e] = "given up" /\ 0 < handoffs[e] /\ handoffs[e] < Budget(e)
    /\ Becomes(e, "open")
    /\ UNCHANGED <<handoffs, accepted, reopened>>

Reopen(e) ==
    /\ Known(e) /\ Becomes(e, "open")
    /\ reopened' = [reopened EXCEPT ![e] = @ + 1]
    /\ UNCHANGED <<handoffs, accepted>>

Forget(some) ==
    /\ \A e \in some : phase[e] \in {"delivered", "given up"}
    /\ phase' = [e \in Events |-> IF e \in some THEN "forgotten" ELSE phase[e]]
    /\ UNCHANGED <<handoffs, accepted, reopened>>

Next ==
    \/ \E e \in Events : \/ Queue(e) \/ HandOff(e) \/ Confirm(e)
                         \/ GiveUp(e) \/ Postpone(e) \/ Reopen(e)
    \/ \E some \in SUBSET Events : Forget(some)

Spec == Init /\ [][Next]_vars
=============================================================================
