-------------------------- MODULE DeliveryContract --------------------------
(***************************************************************************)
(* What the outbox promises the tool that queued a side effect, as long as *)
(* nobody interferes with it: the effect is handed to the delivery adapter *)
(* at most MaxAttempts times, never after it was delivered or given up, it *)
(* is only called delivered after a handoff, only given up untried if it   *)
(* was allowed to expire, and it does not stay open for ever.              *)
(***************************************************************************)
EXTENDS Naturals

CONSTANTS Events, Expiring, MaxAttempts

VARIABLES phase, handoffs

vars == <<phase, handoffs>>

Init ==
    /\ phase = [e \in Events |-> "absent"]
    /\ handoffs = [e \in Events |-> 0]

Move(e, from, to) ==
    /\ phase[e] = from
    /\ phase' = [phase EXCEPT ![e] = to]
    /\ UNCHANGED handoffs

Queue(e) == Move(e, "absent", "open")

HandOff(e) ==
    /\ phase[e] = "open" /\ handoffs[e] < MaxAttempts
    /\ handoffs' = [handoffs EXCEPT ![e] = @ + 1]
    /\ UNCHANGED phase

Confirm(e) == handoffs[e] > 0 /\ Move(e, "open", "delivered")

GiveUp(e) == (handoffs[e] > 0 \/ e \in Expiring) /\ Move(e, "open", "given up")

\* Records of settled effects may be compacted away, several at once.
Forget(some) ==
    /\ \A e \in some : phase[e] \in {"delivered", "given up"}
    /\ phase' = [e \in Events |-> IF e \in some THEN "forgotten" ELSE phase[e]]
    /\ UNCHANGED handoffs

Next ==
    \/ \E e \in Events : Queue(e) \/ HandOff(e) \/ Confirm(e) \/ GiveUp(e)
    \/ \E some \in SUBSET Events : Forget(some)

Settles == \A e \in Events : phase[e] = "open" ~> phase[e] # "open"

Spec == Init /\ [][Next]_vars /\ Settles
=============================================================================
