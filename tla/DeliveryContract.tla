-------------------------- MODULE DeliveryContract --------------------------
(***************************************************************************)
(* What a delivery promises to a consumer of the subscription status: it   *)
(* is queued once, ends delivered or failed, a verdict is never revised,   *)
(* and a delivery that was forgotten does not come back.                   *)
(***************************************************************************)
CONSTANTS Subs, Updates

VARIABLE phase

Init == phase = [s \in Subs |-> [u \in Updates |-> "none"]]

Moves(p, q) ==
    \/ p = "none" /\ q = "pending"
    \/ p = "pending" /\ q \in {"delivered", "failed"}
    \/ p # "none" /\ q = "gone"

\* Several deliveries may move at once: an update is queued for all its
\* subscriptions, a subscription is removed with all its deliveries.
Next ==
    /\ phase' \in [Subs -> [Updates -> {"none", "pending", "delivered", "failed", "gone"}]]
    /\ \A s \in Subs, u \in Updates :
         phase'[s][u] = phase[s][u] \/ Moves(phase[s][u], phase'[s][u])

Spec == Init /\ [][Next]_phase
=============================================================================
