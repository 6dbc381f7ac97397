------------------------------ MODULE MCTokens ------------------------------
(* Instances of Tokens for TLC. *)
EXTENDS Tokens

CONSTANTS t1, a1, s1, p1, p2, r1, r2

MCAppOf == [s \in {s1} |-> a1]

Create(app, session) == [enabled |-> TRUE, all |-> FALSE, app |-> app, session |-> session]

\* A token for the app of the session.
MCCreates == {Create({a1}, {})}

Patch(enabled, all, app, session) ==
    [token |-> t1, named |-> FALSE, enabled |-> enabled, all |-> all, app |-> app, session |-> session]

\* A patch without a column that grants the session for its app, one that turns the token
\* off and grants the app, one that turns it on for all sessions and takes the app away.
MCPatches == {Patch({}, {}, {{}}, {{s1}}), Patch({FALSE}, {}, {{a1}}, {}), Patch({TRUE}, {TRUE}, {{}}, {})}

Request(t, route, q) == [token |-> t, s |-> s1, route |-> route, sub |-> q]

\* The routes of the token and of the master.
MCRequests == {Request(t, route, r1) : t \in {t1, Master}, route \in {"subscribe", "remove"}}
              \cup {Request(t1, "unsubscribe", r1), Request(t1, "call", r1)}
=============================================================================
