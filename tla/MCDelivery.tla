----------------------------- MODULE MCDelivery -----------------------------
(* Small instances of Delivery for TLC: filters, updates, faults.          *)
EXTENDS Delivery, TLC

CONSTANTS a, b, c, u1, u2, u3

Faults(h, k, e, r, d) ==
    [f \in Kinds |-> CASE f = "handover" -> h [] f = "crash" -> k [] f = "error" -> e
                       [] f = "revoke" -> r [] f = "delete" -> d]

\* a takes all types of one chat, b one type in it, c cannot be read.
Filters ==
    [s \in Subs |->
       CASE s = a -> [readable |-> TRUE, types |-> {}, chats |-> {"chat"}]
         [] s = b -> [readable |-> TRUE, types |-> {"message"}, chats |-> {"chat"}]
         [] s = c -> [readable |-> FALSE, types |-> {}, chats |-> {}]]

\* u1 and u2 concern the chat, u1 through its message, u3 concerns no chat.
Contents ==
    [u \in Updates |->
       CASE u = u1 -> [type |-> "message", chat |-> None, messageChat |-> "chat"]
         [] u = u2 -> [type |-> "edit", chat |-> "chat", messageChat |-> "other"]
         [] u = u3 -> [type |-> "status", chat |-> None, messageChat |-> None]]

SteadyFaults   == Faults(0, 0, 1, 1, 1)
MoveFaults     == Faults(1, 0, 0, 0, 0)
MovingFaults   == Faults(1, 1, 1, 0, 1)
=============================================================================
