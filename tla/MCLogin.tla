------------------------------ MODULE MCLogin ------------------------------
(* Instances of Login for TLC. *)
EXTENDS Login

CONSTANTS u1, u2, b1, c1, c2, d1, d2, phone

\* Two logins of one phone, one bot.
SamePhone == [u \in {u1, u2} |-> phone]

Budget(user, bot, request, fault) ==
    [user |-> user, bot |-> bot, request |-> request, fault |-> fault]

\* Two logins of one phone; one login with four overlapping requests; one bot.
MCBudgets == {Budget(2, 0, 1, 0), Budget(2, 0, 0, 1), Budget(1, 0, 4, 0),
              Budget(1, 0, 2, 1), Budget(0, 1, 2, 1)}
=============================================================================
