------------------------------- MODULE Quota -------------------------------
(***************************************************************************)
(* The policy of the operator's rate limits: which methods a rule covers,  *)
(* how much one call counts, in which window, and which rules bear on a    *)
(* session for a caller.  A rule is a record                               *)
(*    [id, level, kind, session, token, methods, max, per, enabled]        *)
(* whose kind, session and token are None when not given.                  *)
(*                                                                         *)
(* Source: internal/quota/quota.go, internal/router/limits.go.             *)
(***************************************************************************)
EXTENDS Integers

CONSTANTS
    GroupOf,   \* GroupOf[m]: the method group of method m, or None
    Bulk,      \* the methods that carry several messages, people or contacts
    Length,    \* Length[per]: how long a window of per is
    Offset,    \* Offset[per]: how long before the clock's zero a window starts
    None

Methods == DOMAIN GroupOf
Groups  == {GroupOf[m] : m \in Methods} \ {None}
Pers    == DOMAIN Length

ASSUME QuotaAssumption ==
    /\ Length \in [Pers -> Nat \ {0}]
    /\ Offset \in [Pers -> Nat]
    /\ Groups \cap Methods = {} /\ "*" \notin Methods \cup Groups

\* A method's group, or the method itself.
Scope(m) == IF GroupOf[m] = None THEN m ELSE GroupOf[m]

Matches(p, m) == p = "*" \/ p = m \/ (p \in Groups /\ GroupOf[m] = p)

\* What one call of m counts against rule l: nothing when it is not covered or
\* stays local; one for a "*" rule; else what the call carries.
Count(l, m, carried, local) ==
    IF local \/ ~\E p \in l.methods : Matches(p, m) THEN 0
    ELSE IF "*" \in l.methods \/ m \notin Bulk \/ carried < 1 THEN 1 ELSE carried

\* The fixed window that holds t.  Minutes and hours have offset 0, a day starts at
\* midnight in Moscow, a week on Monday.
WindowStart(per, t) == ((t + Offset[per]) \div Length[per]) * Length[per] - Offset[per]
WindowEnd(per, t)   == WindowStart(per, t) + Length[per]

\* Rules that cover the same calls in the same window.
Signature(l) == <<l.per, l.methods>>
Signatures(ls) == {Signature(l) : l \in ls}

Defaults(rules, kind) ==
    {l \in rules : l.enabled /\ l.level = "session" /\ l.session = None /\ l.kind = kind}
OwnRules(rules, session) ==
    {l \in rules : l.enabled /\ l.level = "session" /\ l.session # None /\ l.session = session}
TokenRules(rules, token) ==
    {l \in rules : l.enabled /\ l.level = "token" /\ token # None /\ l.token = token}

\* Variant of Applicable: a token's rule leaves the session's own in force.
ApplicableTokenBeatsDefault(rules, session, kind, token) ==
    LET own  == OwnRules(rules, session)
        mine == TokenRules(rules, token)
    IN  {[limit |-> l, replaced |-> Signature(l) \in Signatures(own \cup mine)] : l \in Defaults(rules, kind)}
        \cup {[limit |-> l, replaced |-> FALSE] : l \in own \cup mine}

\* The rules bearing on a session, and whether another takes a rule's place there: a
\* session's own rule that of a default, the caller's token rule that of both.
Applicable(rules, session, kind, token) ==
    LET own  == OwnRules(rules, session)
        mine == TokenRules(rules, token)
    IN  {[limit |-> l, replaced |-> Signature(l) \in Signatures(own \cup mine)] : l \in Defaults(rules, kind)}
        \cup {[limit |-> l, replaced |-> Signature(l) \in Signatures(mine)] : l \in own}
        \cup {[limit |-> l, replaced |-> FALSE] : l \in mine}

\* The rules a call is charged to.
InForce(rules, session, kind, token) ==
    {a.limit : a \in {b \in Applicable(rules, session, kind, token) : ~b.replaced}}

\* What the gateway accepts as a rule: validTarget and validLimit.
ValidTarget(l) ==
    \/ /\ l.level = "session" /\ l.token = None
       /\ \/ l.session = None /\ l.kind \in {"user", "bot"}
          \/ l.session # None /\ l.kind = None
    \/ l.level = "token" /\ l.token # None /\ l.kind = None /\ l.session = None
ValidLimit(l) ==
    /\ l.methods # {} /\ l.methods \subseteq {"*"} \cup Groups \cup Methods
    /\ l.max > 0 /\ l.per \in Pers

-----------------------------------------------------------------------------
(* The policy as the operator reads it: of the rules that bear on a call,   *)
(* those of one signature are ranked token, session, default, and only the  *)
(* highest rank present counts.                                             *)

Rank(l) == IF l.level = "token" THEN 3 ELSE IF l.session # None THEN 2 ELSE 1

Bears(l, session, kind, token) ==
    /\ l.enabled
    /\ IF l.level = "token" THEN token # None /\ l.token = token
       ELSE l.level = "session" /\ IF l.session # None THEN l.session = session ELSE l.kind = kind

Ruling(rules, session, kind, token) ==
    {l \in rules :
        /\ Bears(l, session, kind, token)
        /\ ~\E o \in rules : /\ Bears(o, session, kind, token)
                             /\ Signature(o) = Signature(l)
                             /\ Rank(o) > Rank(l)}
=============================================================================
