------------------------------- MODULE Tokens -------------------------------
(***************************************************************************)
(* Scoped API tokens: their scope in the registry, the transactions that   *)
(* change it, and the requests the gateway admits by it.                   *)
(*                                                                         *)
(* A PATCH of a token is one transaction of several statements at          *)
(* Postgres' default isolation, READ COMMITTED: each statement sees what   *)
(* is committed when it starts, a row changed by a transaction under way   *)
(* is waited for, and changes show at the commit.  A request reads the     *)
(* registry three times before anything is done for it: its token, the     *)
(* token's scope, the session's row.                                       *)
(*                                                                         *)
(* Source: internal/router/router.go, internal/store/store.go (tokens and  *)
(* subscriptions), internal/store/migrations.go (keys and cascades).       *)
(***************************************************************************)
CONSTANTS
    Tokens,         \* ids of scoped tokens, each created at most once
    Master,         \* the master token, which is not in the registry
    Apps,           \* tg_app ids; nothing removes an app
    Sessions,       \* session ids, each created at most once
    AppOf,          \* AppOf[s]: app_id of session s
    CreateInputs,   \* the bodies of POST /v1/tokens
    Patches,        \* PATCH requests of tokens, each made at most once
    PatchInputs,    \* their token and body
    Requests,       \* other requests, each made at most once
    RequestInputs   \* their token, session and route

Kinds == {"app", "session"}

\* What a token may be granted: rows of api_token_app and api_token_session.
Targets(k) == IF k = "app" THEN Apps ELSE Sessions

\* A field that may be left out of a body: a nil pointer is {}.
Maybe(S) == {{}} \cup {{x} : x \in S}

CreateType == [enabled : BOOLEAN, all : BOOLEAN, app : SUBSET Apps, session : SUBSET Sessions]
PatchType  == [token : Tokens, named : BOOLEAN, enabled : Maybe(BOOLEAN), all : Maybe(BOOLEAN),
               app : Maybe(SUBSET Apps), session : Maybe(SUBSET Sessions)]
Routes     == {"call", "subscribe", "unsubscribe", "remove"}
RequestType == [token : Tokens \cup {Master}, s : Sessions, route : Routes, sub : Requests]

ASSUME TokensAssumption ==
    /\ Master \notin Tokens
    /\ AppOf \in [Sessions -> Apps]
    /\ CreateInputs \subseteq CreateType
    /\ PatchInputs \subseteq PatchType
    /\ RequestInputs \subseteq RequestType
    /\ "create" \notin Patches

VARIABLES
    tok,        \* tok[t]: the row of api_token
    sess,       \* sess[s]: whether the session's row exists
    row,        \* the grants committed, each with the transaction that inserted it
    tx,         \* tx[p]: the transaction of patch p
    req,        \* req[r]: a request
    sub,        \* the requests whose subscription exists
    before,     \* history: before[p], the grants committed when patch p started
    said,       \* history: said[t][k], the list last committed for token t
    had         \* history: the requests whose token had access while they ran

registry == <<tok, sess, row>>
vars == <<tok, sess, row, tx, req, sub, before, said, had>>

Status == {"none", "there", "gone"}
RowType == {x \in [token : Tokens, kind : Kinds, of : Apps \cup Sessions, by : Patches \cup {"create"}] :
                x.of \in Targets(x.kind)}
TxType == [pc : {"run", "wait", "committed", "failed"}, in : PatchInputs, kind : Kinds,
           done : SUBSET Kinds, seen : SUBSET RowType, del : SUBSET RowType,
           ins : SUBSET RowType, todo : SUBSET (Apps \cup Sessions)]
NoTx == [pc |-> "new"]
ReqType == [pc : {"resolve", "scope", "route", "work", "done", "refused"}, in : RequestInputs]
NoReq == [pc |-> "new"]

TypeOK ==
    /\ tok \in [Tokens -> [st : Status, enabled : BOOLEAN, all : BOOLEAN]]
    /\ sess \in [Sessions -> Status]
    /\ row \subseteq RowType
    /\ tx \in [Patches -> TxType \cup {NoTx}]
    /\ \A p \in Patches : tx[p] # NoTx => tx[p].todo \subseteq Targets(tx[p].kind)
    /\ req \in [Requests -> ReqType \cup {NoReq}]
    /\ sub \subseteq Requests
    /\ before \in [Patches -> SUBSET RowType]
    /\ said \in [Tokens -> [Kinds -> SUBSET (Apps \cup Sessions)]]
    /\ had \subseteq Requests

Init ==
    /\ tok = [t \in Tokens |-> [st |-> "none", enabled |-> FALSE, all |-> FALSE]]
    /\ sess = [s \in Sessions |-> "none"]
    /\ row = {}
    /\ tx = [p \in Patches |-> NoTx]
    /\ req = [r \in Requests |-> NoReq]
    /\ sub = {}
    /\ before = [p \in Patches |-> {}]
    /\ said = [t \in Tokens |-> [k \in Kinds |-> {}]]
    /\ had = {}

-----------------------------------------------------------------------------
(* The scope of a token, as the documentation has it and as the query of the *)
(* gateway states it.                                                        *)

Granted(t, k, g) == \E x \in row : x.token = t /\ x.kind = k /\ x.of = g

\* A token that exists and is enabled covers all sessions, those it is granted and those
\* of the apps it is granted.
HasAccess(t, s) ==
    /\ tok[t].st = "there" /\ tok[t].enabled
    /\ \/ tok[t].all
       \/ \E x \in row : /\ x.token = t
                         /\ \/ x.kind = "session" /\ x.of = s
                            \/ x.kind = "app" /\ x.of = AppOf[s] /\ sess[s] = "there"

TokenGrantsSession(t, s) ==
    /\ tok[t].st = "there" /\ tok[t].enabled
    /\ \/ tok[t].all
       \/ Granted(t, "session", s)
       \/ sess[s] = "there" /\ Granted(t, "app", AppOf[s])

-----------------------------------------------------------------------------
(* Requests. *)

Active(r)  == req[r].pc \in {"resolve", "scope", "route", "work"}
Scoped(r)  == req[r].in.token # Master
Covered(r) == Active(r) /\ Scoped(r) /\ HasAccess(req[r].in.token, req[r].in.s)

\* History: after every step, whose token has access now.
Observe == had' = had \cup {r \in Requests : Covered(r)'}

To(r, pc) == req' = [req EXCEPT ![r].pc = pc]

\* auth: the master token passes, any other is looked up.
Arrive(r, in) ==
    /\ req[r] = NoReq
    /\ req' = [req EXCEPT ![r] = [pc |-> IF in.token = Master THEN "route" ELSE "resolve", in |-> in]]
    /\ UNCHANGED <<registry, tx, sub, before, said>>
    /\ Observe

\* The routes a scoped token may use; deleting a session is not among them.
SessionTarget(route) == route # "remove"

ResolveToken(r) ==
    LET t == req[r].in.token
    IN  /\ req[r].pc = "resolve"
        /\ To(r, IF tok[t].st = "there" /\ tok[t].enabled /\ SessionTarget(req[r].in.route)
                 THEN "scope" ELSE "refused")
        /\ UNCHANGED <<registry, tx, sub, before, said>>
        /\ Observe

\* Variant: the query leaves the token's flag to ResolveToken.
CheckGrants(r) ==
    LET t == req[r].in.token
        s == req[r].in.s
    IN  /\ req[r].pc = "scope"
        /\ To(r, IF tok[t].all \/ Granted(t, "session", s) \/ Granted(t, "app", AppOf[s])
                 THEN "route" ELSE "refused")
        /\ UNCHANGED <<registry, tx, sub, before, said>>
        /\ Observe

CheckScope(r) ==
    /\ req[r].pc = "scope"
    /\ To(r, IF TokenGrantsSession(req[r].in.token, req[r].in.s) THEN "route" ELSE "refused")
    /\ UNCHANGED <<registry, tx, sub, before, said>>
    /\ Observe

ResolveSession(r) ==
    /\ req[r].pc = "route"
    /\ To(r, IF sess[req[r].in.s] = "there" THEN "work" ELSE "refused")
    /\ UNCHANGED <<registry, tx, sub, before, said>>
    /\ Observe

\* A statement fails, no worker is alive or the worker cannot be reached.
RequestFails(r) ==
    /\ Active(r)
    /\ To(r, "refused")
    /\ UNCHANGED <<registry, tx, sub, before, said>>
    /\ Observe

\* What the worker does for a call is not about tokens.
Call(r) ==
    /\ req[r].pc = "work" /\ req[r].in.route = "call"
    /\ To(r, "done")
    /\ UNCHANGED <<registry, tx, sub, before, said>>
    /\ Observe

\* The token and the session a subscription names must still exist.
CreateSubscription(r) ==
    /\ req[r].pc = "work" /\ req[r].in.route = "subscribe"
    /\ IF /\ sess[req[r].in.s] = "there"
          /\ Scoped(r) => tok[req[r].in.token].st = "there"
       THEN sub' = sub \cup {r} /\ To(r, "done")
       ELSE sub' = sub /\ To(r, "refused")
    /\ UNCHANGED <<registry, tx, before, said>>
    /\ Observe

\* Variant: the statement does not look at the token.
MatchesAnyToken(r, q) == req[q].in.s = req[r].in.s

\* Whether the statement of request r matches the subscription of request q.
Matches(r, q) ==
    /\ req[q].in.s = req[r].in.s
    /\ Scoped(r) => req[q].in.token = req[r].in.token

DeleteSubscription(r) ==
    LET q == req[r].in.sub
    IN  /\ req[r].pc = "work" /\ req[r].in.route = "unsubscribe"
        /\ IF q \in sub /\ Matches(r, q)
           THEN sub' = sub \ {q} /\ To(r, "done")
           ELSE sub' = sub /\ To(r, "refused")
        /\ UNCHANGED <<registry, tx, before, said>>
        /\ Observe

-----------------------------------------------------------------------------
(* The transaction of a PATCH. *)

Open(p)  == tx[p].pc \in {"run", "wait"}
\* The lists the body has.
Given(in) == {k \in Kinds : in[k] # {}}

List(p)  == UNION tx[p].in[tx[p].kind]

\* The UPDATE of api_token is made only when the body has one of its columns.
Columns(in) == in.named \/ in.enabled # {} \/ in.all # {}

\* The row locks of a transaction: of the token it updates, and of grants.
Holds(p, t)   == Open(p) /\ tx[p].in.token = t /\ Columns(tx[p].in)
Touched(p)    == IF Open(p) THEN tx[p].del \cup tx[p].ins ELSE {}

Ended(p, pc) ==
    tx' = [tx EXCEPT ![p] = [tx[p] EXCEPT !.pc = pc, !.seen = {}, !.del = {}, !.ins = {}, !.todo = {}]]

\* Variant: nobody waits for the token's row.
UpdateTokenUnlocked(p, in) ==
    /\ tx[p] = NoTx
    /\ tx' = [tx EXCEPT ![p] = [pc |-> IF tok[in.token].st = "there" THEN "run" ELSE "failed",
                                in |-> in, kind |-> "app", done |-> {}, seen |-> {},
                                del |-> {}, ins |-> {}, todo |-> {}]]
    /\ before' = [before EXCEPT ![p] = row]
    /\ UNCHANGED <<registry, req, sub, said>>
    /\ Observe

\* Begin, then the UPDATE of the columns, which locks the token's row, or the
\* SELECT that only looks whether it exists.
UpdateToken(p, in) ==
    /\ tx[p] = NoTx
    /\ Columns(in) => \A q \in Patches : ~Holds(q, in.token)
    /\ tx' = [tx EXCEPT ![p] = [pc |-> IF tok[in.token].st = "there" THEN "run" ELSE "failed",
                                in |-> in, kind |-> "app", done |-> {}, seen |-> {},
                                del |-> {}, ins |-> {}, todo |-> {}]]
    /\ before' = [before EXCEPT ![p] = row]
    /\ UNCHANGED <<registry, req, sub, said>>
    /\ Observe

\* The grants of the list's kind the transaction sees when its DELETE starts.
DeleteStarts(p, k) ==
    /\ tx[p].pc = "run" /\ tx[p].todo = {}
    /\ k \in Given(tx[p].in) \ tx[p].done
    /\ k = "session" => "app" \notin Given(tx[p].in) \ tx[p].done
    /\ tx' = [tx EXCEPT ![p] = [tx[p] EXCEPT !.pc = "wait", !.kind = k, !.done = tx[p].done \cup {k},
                                !.seen = {x \in row : x.token = tx[p].in.token /\ x.kind = k}]]
    /\ UNCHANGED <<registry, req, sub, before, said>>
    /\ Observe

\* Variant: rows another transaction is removing are skipped.
DeleteSkips(p) ==
    LET locked == UNION {tx[q].del : q \in {o \in Patches \ {p} : Open(o)}}
    IN  /\ tx[p].pc = "wait"
        /\ tx' = [tx EXCEPT ![p] = [tx[p] EXCEPT !.pc = "run", !.seen = {}, !.todo = List(p),
                                    !.del = tx[p].del \cup ((tx[p].seen \cap row) \ locked)]]
        /\ UNCHANGED <<registry, req, sub, before, said>>
        /\ Observe

\* It waits for the transactions that are removing one of them; those that are
\* gone by then are skipped.
DeleteEnds(p) ==
    /\ tx[p].pc = "wait"
    /\ \A q \in Patches \ {p} : Open(q) => tx[q].del \cap tx[p].seen = {}
    /\ tx' = [tx EXCEPT ![p] = [tx[p] EXCEPT !.pc = "run", !.seen = {}, !.todo = List(p),
                                !.del = tx[p].del \cup (tx[p].seen \cap row)]]
    /\ UNCHANGED <<registry, req, sub, before, said>>
    /\ Observe

\* INSERT ... ON CONFLICT DO NOTHING of one grant: waits for transactions that have
\* inserted or are removing the same grant, does nothing if it is there, and fails if
\* what it refers to is gone.
InsertGrant(p, g) ==
    LET t == tx[p].in.token
        k == tx[p].kind
        Same(x) == x.token = t /\ x.kind = k /\ x.of = g
    IN  /\ tx[p].pc = "run" /\ g \in tx[p].todo
        /\ \A q \in Patches \ {p} : \A x \in Touched(q) : ~Same(x)
        /\ IF tok[t].st = "there" /\ (k = "session" => sess[g] = "there")
           THEN tx' = [tx EXCEPT ![p] = [tx[p] EXCEPT !.todo = tx[p].todo \ {g},
                                !.ins = IF \E x \in row \ tx[p].del : Same(x) THEN tx[p].ins
                                        ELSE tx[p].ins \cup {[token |-> t, kind |-> k, of |-> g, by |-> p]}]]
           ELSE Ended(p, "failed")
        /\ UNCHANGED <<registry, req, sub, before, said>>
        /\ Observe

\* A column keeps its value unless the body has it.
Set(value, old) == IF value = {} THEN old ELSE TRUE \in value

Commit(p) ==
    LET in == tx[p].in
    IN  /\ tx[p].pc = "run" /\ tx[p].todo = {} /\ tx[p].done = Given(in)
        /\ row' = (row \ tx[p].del) \cup tx[p].ins
        /\ tok' = [tok EXCEPT ![in.token].enabled = Set(in.enabled, @),
                              ![in.token].all = Set(in.all, @)]
        /\ said' = [said EXCEPT ![in.token] =
                       [k \in Kinds |-> IF k \in Given(in) THEN UNION in[k] ELSE said[in.token][k]]]
        /\ Ended(p, "committed")
        /\ UNCHANGED <<sess, req, sub, before>>
        /\ Observe

\* A statement fails or the request is canceled.
Rollback(p) ==
    /\ Open(p)
    /\ Ended(p, "failed")
    /\ UNCHANGED <<registry, req, sub, before, said>>
    /\ Observe

-----------------------------------------------------------------------------
(* Tokens and sessions come and go; each is one statement or one transaction *)
(* that nobody sees before its commit.                                       *)

CreateToken(t, in) ==
    /\ tok[t].st = "none"
    /\ \A s \in in.session : sess[s] = "there"
    /\ tok' = [tok EXCEPT ![t] = [st |-> "there", enabled |-> in.enabled, all |-> in.all]]
    /\ row' = row \cup UNION {{[token |-> t, kind |-> k, of |-> g, by |-> "create"] : g \in in[k]}
                                : k \in Kinds}
    /\ said' = [said EXCEPT ![t] = [k \in Kinds |-> in[k]]]
    /\ UNCHANGED <<sess, tx, req, sub, before>>
    /\ Observe

\* Variant: the subscriptions of the token stay.
DeleteTokenOnly(t) ==
    /\ tok[t].st = "there"
    /\ tok' = [tok EXCEPT ![t].st = "gone"]
    /\ row' = {x \in row : x.token # t}
    /\ UNCHANGED <<sess, tx, req, sub, before, said>>
    /\ Observe

\* The grants and subscriptions of the token go with it; a transaction that has
\* updated it or changed one of its grants is waited for.
DeleteToken(t) ==
    /\ tok[t].st = "there"
    /\ \A p \in Patches : ~Holds(p, t) /\ \A x \in Touched(p) : x.token # t
    /\ tok' = [tok EXCEPT ![t].st = "gone"]
    /\ row' = {x \in row : x.token # t}
    /\ sub' = {q \in sub : req[q].in.token # t}
    /\ UNCHANGED <<sess, tx, req, before, said>>
    /\ Observe

CreateSession(s) ==
    /\ sess[s] = "none"
    /\ sess' = [sess EXCEPT ![s] = "there"]
    /\ UNCHANGED <<tok, row, tx, req, sub, before, said>>
    /\ Observe

IsGrantOf(x, s) == x.kind = "session" /\ x.of = s

\* DELETE of the session's row, with its grants and subscriptions.
DeleteSession(r) ==
    LET s == req[r].in.s
    IN  /\ req[r].pc = "work" /\ req[r].in.route = "remove"
        /\ \A p \in Patches : \A x \in Touched(p) : ~IsGrantOf(x, s)
        /\ IF sess[s] = "there" THEN To(r, "done") ELSE To(r, "refused")
        /\ sess' = [sess EXCEPT ![s] = "gone"]
        /\ row' = {x \in row : ~IsGrantOf(x, s)}
        /\ sub' = {q \in sub : req[q].in.s # s}
        /\ UNCHANGED <<tok, tx, before, said>>
        /\ Observe

-----------------------------------------------------------------------------
Gateway(r) ==
    \/ \E in \in RequestInputs : Arrive(r, in)
    \/ ResolveToken(r) \/ CheckScope(r) \/ ResolveSession(r) \/ RequestFails(r)
    \/ Call(r) \/ CreateSubscription(r) \/ DeleteSubscription(r) \/ DeleteSession(r)

Patching(p) ==
    \/ \E in \in PatchInputs : UpdateToken(p, in)
    \/ \E k \in Kinds : DeleteStarts(p, k)
    \/ DeleteEnds(p)
    \/ \E g \in Apps \cup Sessions : InsertGrant(p, g)
    \/ Commit(p) \/ Rollback(p)

Lifecycle ==
    \/ \E t \in Tokens : DeleteToken(t) \/ \E in \in CreateInputs : CreateToken(t, in)
    \/ \E s \in Sessions : CreateSession(s)

Next ==
    \/ \E r \in Requests : Gateway(r)
    \/ \E p \in Patches : Patching(p)
    \/ Lifecycle

Spec == Init /\ [][Next]_vars

-----------------------------------------------------------------------------
(* Properties. *)

\* A request of a scoped token goes beyond auth only if, at one moment since it
\* arrived, the token was enabled and its scope covered the session, both at once,
\* although auth reads them in two statements while patches commit between them
\* (auth, ResolveToken, TokenGrantsSession).
AdmittedHadAccess ==
    \A r \in Requests :
        req[r].pc \in {"route", "work", "done"} /\ Scoped(r) => r \in had

\* A subscription belongs to a session and, unless the master made it, to a token that
\* exist, and the token had access while it was made, whatever was revoked or deleted
\* between the check, the forward and the INSERT (handleCreateSubscription,
\* DeleteToken, DeleteSession and their cascades).
SubscriptionsRooted ==
    \A q \in sub :
        /\ sess[req[q].in.s] = "there"
        /\ Scoped(q) => tok[req[q].in.token].st = "there" /\ q \in had

\* One step of RemovalsEntitled.
Entitled ==
    /\ \A q \in sub \ sub' :
         \/ Scoped(q) /\ tok'[req[q].in.token].st = "gone"
         \/ sess'[req[q].in.s] = "gone"
         \/ \E r \in Requests :
               /\ req[r].pc = "work" /\ req'[r].pc = "done" /\ req[r].in.sub = q
               /\ Scoped(r) => r \in had /\ req[r].in.token = req[q].in.token
    /\ \A s \in Sessions :
         sess[s] = "there" /\ sess'[s] = "gone" =>
             \E r \in Requests : req[r].pc = "work" /\ req[r].in.s = s /\ ~Scoped(r)

\* Whoever removes a subscription is the master, the token it belongs to or the
\* deletion of that token or of the session, and only the master removes a session
\* (sessionTarget, DeleteSubscription).
RemovalsEntitled == [][Entitled]_vars

\* Once a patch that has a list is committed, no grant of that kind is left that was
\* committed before the patch began, whichever transactions overlap and whichever
\* of them roll back (UpdateToken, patchTokenGrants).
PatchRevokes ==
    \A p \in Patches : tx[p].pc = "committed" =>
        \A x \in row \cap before[p] :
            ~(x.token = tx[p].in.token /\ x.kind \in Given(tx[p].in))

\* The grants of token t are the list last committed, less the sessions deleted since.
AsSaid(t, k) ==
    {g \in Targets(k) : Granted(t, k, g)}
        = {g \in said[t][k] : k = "session" => sess[g] = "there"}

\* Every patch of token t so far has a column besides its lists.
Locked(t) == \A p \in Patches : tx[p].pc # "new" /\ tx[p].in.token = t => Columns(tx[p].in)

\* A list in a patch replaces the set where the token's row lock puts its patches in
\* order, whatever happens to other tokens and to the sessions (UpdateToken,
\* patchTokenGrants).
LockedListsReplace ==
    \A t \in Tokens, k \in Kinds : tok[t].st = "there" /\ Locked(t) => AsSaid(t, k)

=============================================================================
