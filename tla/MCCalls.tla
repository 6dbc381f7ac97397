------------------------------ MODULE MCCalls ------------------------------
(* Instances of Calls for TLC. *)
EXTENDS Calls, TLC

CONSTANTS s1, t1, r1, r2, r3, r4, c1, c2

MCGroupOf == [forwardMessages |-> "@send", addChatMember |-> "@invite",
              searchPublicChat |-> "@resolve", getMe |-> None]
Call(m, tok, named, n, local) ==
    [m |-> m, tok |-> tok, named |-> named, n |-> n, local |-> local]

\* A forward of two messages by username, a token's forward of one, an invite, and a
\* read that stays local.
MCInputs == {Call("forwardMessages", None, TRUE, 2, FALSE),
             Call("forwardMessages", t1, FALSE, 1, FALSE),
             Call("addChatMember", t1, FALSE, 0, FALSE),
             Call("getMe", None, FALSE, 0, TRUE)}

Default(id, methods, max) ==
    [id |-> id, level |-> "session", kind |-> "user", session |-> None, token |-> None,
     methods |-> methods, max |-> max, per |-> "hour", enabled |-> TRUE]

\* Every call, and sends by default, by the session and by the token.
All   == Default(r1, {"*"}, 2)
Sends == Default(r4, {"@send"}, 2)
Own   == [Default(r2, {"@send"}, 1) EXCEPT !.kind = None, !.session = s1]
Token == [Default(r3, {"@send"}, 2) EXCEPT !.level = "token", !.kind = None, !.token = t1]

MCLimits == {All, [All EXCEPT !.max = 1], Sends, Own, Token, [Token EXCEPT !.enabled = FALSE]}
MCFirst  == {All, Own, Token}

Budget(answer, update, operator, lift, fault, move) ==
    [answer |-> answer, update |-> update, operator |-> operator, lift |-> lift,
     fault |-> fault, move |-> move]
MCBudgets == {Budget(1, 1, 0, 0, 0, 0), Budget(0, 0, 1, 0, 0, 0), Budget(1, 0, 0, 1, 0, 0),
              Budget(1, 0, 0, 0, 1, 0), Budget(1, 0, 0, 0, 0, 1), Budget(0, 0, 0, 0, 1, 1),
              Budget(0, 0, 0, 1, 1, 0)}

Symmetry == Permutations(Callers)

MCLength == [hour |-> 2]
MCOffset == [hour |-> 1]
=============================================================================
