------------------------------ MODULE MCSends ------------------------------
(* Instances of Sends for TLC. *)
EXTENDS Sends

CONSTANTS u1, a1, a2, m1, m2, m3, c1, c2

\* An album and a single message; the ids of m2 and m3, of two chats, are the same.
MCIdOf == [m \in {m1, m2, m3} |-> IF m = m1 THEN 1 ELSE 2]
MCMsgsOf == [c \in {c1, c2} |-> IF c = c1 THEN {m1, m2} ELSE {m3}]

Budget(upload, request, send, fault, purge) ==
    [upload |-> upload, request |-> request, send |-> send, fault |-> fault,
     purge |-> purge]

\* Racing chunks; an upload sent while a client still asks for it; an upload whose
\* album and a message of the same id are confirmed; faults with and without uploads.
MCBudgets == {Budget(0, 3, 0, 0, 0), Budget(0, 2, 1, 0, 0), Budget(1, 1, 1, 0, 0),
              Budget(1, 0, 2, 0, 0), Budget(1, 0, 1, 1, 0), Budget(0, 0, 2, 1, 1)}
=============================================================================
