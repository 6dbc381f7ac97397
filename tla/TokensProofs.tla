---------------------------- MODULE TokensProofs ----------------------------
(***************************************************************************)
(* The properties of Tokens for any tokens, apps, sessions, patches and    *)
(* requests, whatever their bodies.                                        *)
(***************************************************************************)
EXTENDS Tokens, TLAPS

\* A list of a body names what its kind has.
LEMMA PatchLists ==
  ASSUME NEW in \in PatchInputs, NEW k \in Kinds
  PROVE  UNION in[k] \subseteq Targets(k)
  <1>1. in \in PatchType
    BY TokensAssumption
  <1>2. in.app \in Maybe(SUBSET Apps) /\ in.session \in Maybe(SUBSET Sessions)
    BY <1>1 DEF PatchType
  <1>3. UNION in.app \subseteq Apps /\ UNION in.session \subseteq Sessions
    BY <1>2 DEF Maybe
  <1>4. CASE k = "app"
    BY <1>3, <1>4 DEF Targets
  <1>5. CASE k = "session"
    BY <1>3, <1>5 DEF Targets
  <1>6. QED
    BY <1>4, <1>5 DEF Kinds

\* So does a list of POST /v1/tokens.
LEMMA CreateLists ==
  ASSUME NEW in \in CreateInputs, NEW k \in Kinds
  PROVE  in[k] \subseteq Targets(k)
  <1>1. in.app \subseteq Apps /\ in.session \subseteq Sessions
    BY TokensAssumption DEF CreateType
  <1>2. CASE k = "app"
    BY <1>1, <1>2 DEF Targets
  <1>3. CASE k = "session"
    BY <1>1, <1>3 DEF Targets
  <1>4. QED
    BY <1>2, <1>3 DEF Kinds

\* Targets of either kind are apps or sessions.
LEMMA TargetsOf == \A k \in Kinds : Targets(k) \subseteq Apps \cup Sessions
  BY DEF Targets

\* A patch past its first statement has its transaction.
LEMMA HasTx ==
  ASSUME TypeOK, NEW p \in Patches, tx[p].pc # "new"
  PROVE  tx[p] \in TxType /\ tx[p].todo \subseteq Targets(tx[p].kind)
  BY DEF TypeOK, NoTx

\* Its body is of a token.
LEMMA PatchToken ==
  ASSUME TypeOK, NEW p \in Patches, tx[p].pc # "new"
  PROVE  tx[p].in \in PatchInputs /\ tx[p].in.token \in Tokens
  BY HasTx, TokensAssumption DEF TxType, PatchType

\* A request that has arrived has its input.
LEMMA HasReq ==
  ASSUME TypeOK, NEW r \in Requests, req[r].pc # "new"
  PROVE  /\ req[r] \in ReqType
         /\ req[r].in \in RequestInputs
         /\ req[r].in.token \in Tokens \cup {Master} /\ req[r].in.s \in Sessions
         /\ req[r].in.sub \in Requests
  <1>1. req[r] \in ReqType
    BY DEF TypeOK, NoReq
  <1>2. req[r].in \in RequestType
    BY <1>1, TokensAssumption DEF ReqType
  <1>3. QED
    BY <1>1, <1>2 DEF RequestType, ReqType

-----------------------------------------------------------------------------
(* Types. *)

\* What the transactions of patches have to keep of TypeOK.
TxTypes ==
    /\ tx \in [Patches -> TxType \cup {NoTx}]
    /\ \A p \in Patches : tx[p] # NoTx => tx[p].todo \subseteq Targets(tx[p].kind)

\* One transaction changes to one of its type.
LEMMA TxChanges ==
  ASSUME TypeOK, NEW p \in Patches, NEW x \in TxType, x.todo \subseteq Targets(x.kind),
         tx' = [tx EXCEPT ![p] = x]
  PROVE  TxTypes'
  BY DEF TypeOK, TxTypes

\* A transaction that ends keeps its type.
LEMMA TxEnds ==
  ASSUME TypeOK, NEW p \in Patches, tx[p].pc # "new",
         NEW pc \in {"committed", "failed"}, Ended(p, pc)
  PROVE  TxTypes'
  <1> DEFINE x == [tx[p] EXCEPT !.pc = pc, !.seen = {}, !.del = {}, !.ins = {}, !.todo = {}]
  <1>1. tx[p] \in TxType
    BY HasTx
  <1>2. x \in TxType /\ x.todo \subseteq Targets(x.kind)
    BY <1>1 DEF TxType
  <1>3. tx' = [tx EXCEPT ![p] = x]
    BY DEF Ended
  <1>4. QED
    BY <1>2, <1>3, TxChanges

\* A request moves on.
LEMMA ReqMoves ==
  ASSUME TypeOK, NEW r \in Requests, req[r].pc # "new",
         NEW pc \in {"resolve", "scope", "route", "work", "done", "refused"}, To(r, pc)
  PROVE  req' \in [Requests -> ReqType \cup {NoReq}]
  <1>1. req[r] \in ReqType
    BY HasReq
  <1>2. [req[r] EXCEPT !.pc = pc] \in ReqType
    BY <1>1 DEF ReqType
  <1>3. req' = [req EXCEPT ![r] = [req[r] EXCEPT !.pc = pc]]
    BY DEF To
  <1>4. QED
    BY <1>2, <1>3 DEF TypeOK

\* The steps of a request keep the types.
LEMMA TypeGateway ==
  ASSUME TypeOK, NEW r \in Requests, Gateway(r)
  PROVE  TypeOK'
  <1>0. had' \subseteq Requests
    <2>1. Observe
      BY DEF Gateway, Arrive, ResolveToken, CheckScope, ResolveSession, RequestFails, Call,
             CreateSubscription, DeleteSubscription, DeleteSession
    <2>2. QED
      BY <2>1 DEF TypeOK, Observe
  <1>1. ASSUME NEW in \in RequestInputs, Arrive(r, in) PROVE TypeOK'
    <2>1. [pc |-> IF in.token = Master THEN "route" ELSE "resolve", in |-> in] \in ReqType
      BY DEF ReqType
    <2>2. QED
      BY <1>0, <1>1, <2>1 DEF Arrive, registry, TypeOK
  <1>2. CASE ResolveToken(r) \/ CheckScope(r) \/ ResolveSession(r) \/ RequestFails(r) \/ Call(r)
    <2>1. \E pc \in {"resolve", "scope", "route", "work", "done", "refused"} : To(r, pc)
      BY <1>2 DEF ResolveToken, CheckScope, ResolveSession, RequestFails, Call
    <2>2. req[r].pc # "new" /\ UNCHANGED <<registry, tx, sub, before, said>>
      BY <1>2 DEF ResolveToken, CheckScope, ResolveSession, RequestFails, Call, Active
    <2>3. req' \in [Requests -> ReqType \cup {NoReq}]
      BY <2>1, <2>2, ReqMoves
    <2>4. QED
      BY <1>0, <2>2, <2>3 DEF registry, TypeOK
  <1>3. CASE CreateSubscription(r) \/ DeleteSubscription(r)
    <2>1. \E pc \in {"resolve", "scope", "route", "work", "done", "refused"} : To(r, pc)
      BY <1>3 DEF CreateSubscription, DeleteSubscription
    <2>2. req[r].pc # "new" /\ UNCHANGED <<registry, tx, before, said>> /\ sub' \subseteq Requests
      BY <1>3 DEF CreateSubscription, DeleteSubscription, TypeOK
    <2>3. req' \in [Requests -> ReqType \cup {NoReq}]
      BY <2>1, <2>2, ReqMoves
    <2>4. QED
      BY <1>0, <2>2, <2>3 DEF registry, TypeOK
  <1>4. CASE DeleteSession(r)
    <2>1. \E pc \in {"resolve", "scope", "route", "work", "done", "refused"} : To(r, pc)
      BY <1>4 DEF DeleteSession
    <2>2. /\ req[r].pc # "new" /\ UNCHANGED <<tok, tx, before, said>> /\ sub' \subseteq Requests
          /\ row' \subseteq RowType
      BY <1>4 DEF DeleteSession, TypeOK
    <2>3. sess' \in [Sessions -> Status]
      BY <1>4, Zenon DEF DeleteSession, TypeOK, Status
    <2>4. req' \in [Requests -> ReqType \cup {NoReq}]
      BY <2>1, <2>2, ReqMoves
    <2>5. QED
      BY <1>0, <2>2, <2>3, <2>4 DEF TypeOK
  <1>5. QED
    BY <1>1, <1>2, <1>3, <1>4 DEF Gateway

\* So do the steps of a patch.
LEMMA TypePatching ==
  ASSUME TypeOK, NEW p \in Patches, Patching(p)
  PROVE  TypeOK'
  <1>0. had' \subseteq Requests
    <2>1. Observe
      BY Zenon DEF Patching, UpdateToken, DeleteStarts, DeleteEnds, InsertGrant, Commit, Rollback
    <2>2. QED
      BY <2>1 DEF TypeOK, Observe
  <1>1. ASSUME NEW in \in PatchInputs, UpdateToken(p, in) PROVE TypeOK'
    <2> DEFINE x == [pc |-> IF tok[in.token].st = "there" THEN "run" ELSE "failed",
                     in |-> in, kind |-> "app", done |-> {}, seen |-> {},
                     del |-> {}, ins |-> {}, todo |-> {}]
    <2>1. x \in TxType /\ x.todo \subseteq Targets(x.kind)
      BY DEF TxType, Kinds
    <2>2. tx' = [tx EXCEPT ![p] = x]
      BY <1>1 DEF UpdateToken
    <2>3. TxTypes'
      BY <2>1, <2>2, TxChanges
    <2>4. before' \in [Patches -> SUBSET RowType] /\ UNCHANGED <<tok, sess, row, req, sub, said>>
      BY <1>1 DEF UpdateToken, TypeOK, registry
    <2>5. QED
      BY <1>0, <2>3, <2>4 DEF TxTypes, TypeOK
  <1>2. ASSUME NEW k \in Kinds, DeleteStarts(p, k) PROVE TypeOK'
    <2> DEFINE seen == {x \in row : x.token = tx[p].in.token /\ x.kind = k}
               x == [tx[p] EXCEPT !.pc = "wait", !.kind = k, !.done = tx[p].done \cup {k}, !.seen = seen]
    <2>0. tx[p] \in TxType /\ tx[p].todo = {} /\ seen \subseteq RowType
      BY <1>2, HasTx DEF DeleteStarts, TypeOK
    <2>1. x \in TxType /\ x.todo \subseteq Targets(x.kind)
      BY <2>0 DEF TxType
    <2>2. tx' = [tx EXCEPT ![p] = x]
      BY <1>2 DEF DeleteStarts
    <2>3. TxTypes'
      BY <2>1, <2>2, TxChanges
    <2>4. UNCHANGED <<tok, sess, row, req, sub, before, said>>
      BY <1>2 DEF DeleteStarts, registry
    <2>5. QED
      BY <1>0, <2>3, <2>4 DEF TxTypes, TypeOK
  <1>3. CASE DeleteEnds(p)
    <2> DEFINE x == [tx[p] EXCEPT !.pc = "run", !.seen = {}, !.todo = List(p),
                                  !.del = tx[p].del \cup (tx[p].seen \cap row)]
    <2>0. tx[p] \in TxType /\ tx[p].in \in PatchInputs /\ tx[p].kind \in Kinds
      BY <1>3, HasTx DEF DeleteEnds, TxType
    <2>1. List(p) \subseteq Targets(tx[p].kind) /\ List(p) \subseteq Apps \cup Sessions
      BY <2>0, PatchLists, TargetsOf DEF List
    <2>2. x \in TxType /\ x.todo \subseteq Targets(x.kind)
      <3> HIDE DEF List
      <3>1. QED
        BY <2>0, <2>1 DEF TxType
    <2>3. tx' = [tx EXCEPT ![p] = x]
      BY <1>3 DEF DeleteEnds
    <2>4. TxTypes'
      BY <2>2, <2>3, TxChanges
    <2>5. UNCHANGED <<tok, sess, row, req, sub, before, said>>
      BY <1>3 DEF DeleteEnds, registry
    <2>6. QED
      BY <1>0, <2>4, <2>5 DEF TxTypes, TypeOK
  <1>4. ASSUME NEW g \in Apps \cup Sessions, InsertGrant(p, g) PROVE TypeOK'
    <2> DEFINE new == [token |-> tx[p].in.token, kind |-> tx[p].kind, of |-> g, by |-> p]
    <2>0. /\ tx[p] \in TxType /\ tx[p].pc = "run" /\ g \in tx[p].todo
          /\ tx[p].todo \subseteq Targets(tx[p].kind)
      BY <1>4, HasTx DEF InsertGrant
    <2>1. new \in RowType
      <3>1. tx[p].in.token \in Tokens
        BY <2>0, TokensAssumption DEF TxType, PatchType
      <3>2. QED
        BY <2>0, <3>1 DEF TxType, RowType
    <2>2. TxTypes'
      <3>1. CASE Ended(p, "failed")
        BY <2>0, <3>1, TxEnds
      <3>2. ASSUME NEW ins \in SUBSET RowType,
                   tx' = [tx EXCEPT ![p] = [tx[p] EXCEPT !.todo = tx[p].todo \ {g}, !.ins = ins]]
            PROVE  TxTypes'
        <4> DEFINE x == [tx[p] EXCEPT !.todo = tx[p].todo \ {g}, !.ins = ins]
        <4>1. x \in TxType /\ x.todo \subseteq Targets(x.kind)
          BY <2>0 DEF TxType
        <4>2. tx' = [tx EXCEPT ![p] = x]
          BY <3>2
        <4>3. QED
          BY <4>1, <4>2, TxChanges
      <3>3. tx[p].ins \subseteq RowType
        BY <2>0 DEF TxType
      <3>4. Ended(p, "failed") \/ \E ins \in SUBSET RowType :
                   tx' = [tx EXCEPT ![p] = [tx[p] EXCEPT !.todo = tx[p].todo \ {g}, !.ins = ins]]
        BY <1>4, <2>1, <3>3 DEF InsertGrant
      <3>5. QED
        BY <3>1, <3>2, <3>4
    <2>3. UNCHANGED <<tok, sess, row, req, sub, before, said>>
      BY <1>4 DEF InsertGrant, registry
    <2>4. QED
      BY <1>0, <2>2, <2>3 DEF TxTypes, TypeOK
  <1>5. CASE Commit(p)
    <2> DEFINE in == tx[p].in
    <2>0. tx[p] \in TxType /\ tx[p].pc = "run" /\ in \in PatchInputs /\ in.token \in Tokens
      BY <1>5, HasTx, TokensAssumption DEF Commit, TxType, PatchType
    <2>1. TxTypes'
      BY <1>5, <2>0, TxEnds DEF Commit
    <2>2. row' \subseteq RowType
      BY <1>5, <2>0 DEF Commit, TxType, TypeOK
    <2>3. tok' \in [Tokens -> [st : Status, enabled : BOOLEAN, all : BOOLEAN]]
      <3>1. \A v : Set(v, tok[in.token].enabled) \in BOOLEAN /\ Set(v, tok[in.token].all) \in BOOLEAN
        <4>1. tok[in.token].enabled \in BOOLEAN /\ tok[in.token].all \in BOOLEAN
          BY <2>0 DEF TypeOK
        <4>2. \A v : (TRUE \in v) \in BOOLEAN
          OBVIOUS
        <4>3. QED
          BY <4>1, <4>2 DEF Set
      <3>2. QED
        BY <1>5, <2>0, <3>1 DEF Commit, TypeOK
    <2>4. said' \in [Tokens -> [Kinds -> SUBSET (Apps \cup Sessions)]]
      <3>1. \A k \in Kinds : UNION in[k] \subseteq Apps \cup Sessions
        BY <2>0, PatchLists, TargetsOf
      <3>2. \A k \in Kinds : said[in.token][k] \subseteq Apps \cup Sessions
        BY <2>0 DEF TypeOK
      <3>3. [k \in Kinds |-> IF k \in Given(in) THEN UNION in[k] ELSE said[in.token][k]]
               \in [Kinds -> SUBSET (Apps \cup Sessions)]
        BY <3>1, <3>2
      <3>4. QED
        BY <1>5, <3>3 DEF Commit, TypeOK
    <2>5. UNCHANGED <<sess, req, sub, before>>
      BY <1>5 DEF Commit
    <2>6. QED
      BY <1>0, <2>1, <2>2, <2>3, <2>4, <2>5 DEF TxTypes, TypeOK
  <1>6. CASE Rollback(p)
    <2>1. TxTypes'
      BY <1>6, TxEnds DEF Rollback, Open
    <2>2. QED
      BY <1>0, <1>6, <2>1 DEF Rollback, registry, TxTypes, TypeOK
  <1>7. QED
    BY <1>1, <1>2, <1>3, <1>4, <1>5, <1>6 DEF Patching

\* And so does what comes and goes.
LEMMA TypeLifecycle ==
  ASSUME TypeOK, Lifecycle
  PROVE  TypeOK'
  <1>0. had' \subseteq Requests
    <2>1. Observe
      BY DEF Lifecycle, DeleteToken, CreateToken, CreateSession
    <2>2. QED
      BY <2>1 DEF TypeOK, Observe
  <1>1. ASSUME NEW t \in Tokens, DeleteToken(t) PROVE TypeOK'
    BY <1>0, <1>1 DEF DeleteToken, TypeOK, Status
  <1>2. ASSUME NEW t \in Tokens, NEW in \in CreateInputs, CreateToken(t, in) PROVE TypeOK'
    <2>1. in \in CreateType
      BY TokensAssumption
    <2>2. tok' \in [Tokens -> [st : Status, enabled : BOOLEAN, all : BOOLEAN]]
      BY <1>2, <2>1 DEF CreateToken, TypeOK, Status, CreateType
    <2>3. \A k \in Kinds : in[k] \subseteq Targets(k) /\ in[k] \subseteq Apps \cup Sessions
      BY CreateLists, TargetsOf
    <2>4. \A k \in Kinds : \A g \in in[k] :
             [token |-> t, kind |-> k, of |-> g, by |-> "create"] \in RowType
      BY <2>3 DEF RowType
    <2>5. row' \subseteq RowType
      BY <1>2, <2>4 DEF CreateToken, TypeOK
    <2>6. [k \in Kinds |-> in[k]] \in [Kinds -> SUBSET (Apps \cup Sessions)]
      BY <2>3
    <2>7. said' \in [Tokens -> [Kinds -> SUBSET (Apps \cup Sessions)]]
      BY <1>2, <2>6 DEF CreateToken, TypeOK
    <2>8. QED
      BY <1>0, <1>2, <2>2, <2>5, <2>7 DEF CreateToken, TypeOK
  <1>3. ASSUME NEW s \in Sessions, CreateSession(s) PROVE TypeOK'
    BY <1>0, <1>3 DEF CreateSession, TypeOK, Status
  <1>4. QED
    BY <1>1, <1>2, <1>3 DEF Lifecycle

\* TypeOK: the registry, the transactions and the requests keep their types, and a
\* grant of either kind names what the kind has (patchTokenGrants).
THEOREM TypeCorrect == Spec => []TypeOK
  <1>1. Init => TypeOK
    BY DEF Init, TypeOK, Status
  <1>2. ASSUME TypeOK, [Next]_vars PROVE TypeOK'
    <2>1. CASE Next
      BY <1>2, <2>1, TypeGateway, TypePatching, TypeLifecycle DEF Next
    <2>2. QED
      BY <1>2, <2>1 DEF vars, TypeOK
  <1>3. QED
    BY <1>1, <1>2, PTL DEF Spec

-----------------------------------------------------------------------------
(* Requests and subscriptions. *)

\* What holds of a request beyond auth and of a subscription.
Covering  == \A r \in Requests : Covered(r) => r \in had
OnTarget  == \A r \in Requests :
                req[r].pc \in {"scope", "route", "work"} /\ Scoped(r) => SessionTarget(req[r].in.route)
Settled   == \A q \in sub : req[q].pc = "done"
GateInv   == Covering /\ OnTarget /\ Settled /\ AdmittedHadAccess /\ SubscriptionsRooted

\* The query of auth and the documentation agree.
LEMMA ScopeAgrees ==
  ASSUME NEW t \in Tokens, NEW s \in Sessions
  PROVE  TokenGrantsSession(t, s) <=> HasAccess(t, s)
  BY DEF TokenGrantsSession, HasAccess, Granted

\* Every step records who has access.
LEMMA Observed ==
  ASSUME Next
  PROVE  had \subseteq had' /\ Covering'
  <1>1. Observe
    BY Zenon DEF Next, Gateway, Arrive, ResolveToken, CheckScope, ResolveSession, RequestFails, Call,
           CreateSubscription, DeleteSubscription, DeleteSession, Patching, UpdateToken, DeleteStarts,
           DeleteEnds, InsertGrant, Commit, Rollback, Lifecycle, DeleteToken, CreateToken, CreateSession
  <1>2. had \subseteq had' /\ \A r \in Requests : Covered(r)' => r \in had'
    BY <1>1 DEF Observe
  <1>3. QED
    BY <1>2, Zenon DEF Covering

\* A request that only moves on, and is admitted only with access.
LEMMA GateMoves ==
  ASSUME TypeOK, GateInv, Next, NEW r \in Requests, Active(r),
         NEW pc \in {"scope", "route", "work", "done", "refused"}, To(r, pc),
         UNCHANGED <<tok, sess>>,
         pc = "scope" => SessionTarget(req[r].in.route),
         pc \in {"route", "work"} /\ Scoped(r) => req[r].pc # "resolve" /\ r \in had,
         pc = "done" => req[r].pc = "work",
         sub' \subseteq sub
  PROVE  GateInv'
  <1>1. /\ req[r] \in ReqType /\ req[r].pc # "new"
        /\ req' = [req EXCEPT ![r].pc = pc] /\ req \in [Requests -> ReqType \cup {NoReq}]
    BY HasReq DEF Active, To, TypeOK
  <1>2. /\ req'[r].pc = pc /\ req'[r].in = req[r].in
        /\ \A q \in Requests : q # r => req'[q] = req[q]
    BY <1>1 DEF ReqType
  <1>3. \A q \in Requests : Scoped(q)' <=> Scoped(q)
    BY <1>2 DEF Scoped
  <1>4. had \subseteq had' /\ Covering'
    BY Observed
  <1>5. OnTarget'
    <2> SUFFICES ASSUME NEW q \in Requests, req'[q].pc \in {"scope", "route", "work"}, Scoped(q)
                 PROVE  SessionTarget(req'[q].in.route)
      BY <1>3 DEF OnTarget
    <2>1. CASE q # r
      BY <1>2, <2>1 DEF GateInv, OnTarget
    <2>2. CASE q = r /\ pc = "scope"
      BY <1>2, <2>2
    <2>3. CASE q = r /\ pc # "scope"
      BY <1>2, <2>3 DEF GateInv, OnTarget, Active
    <2>4. QED
      BY <2>1, <2>2, <2>3
  <1>6. Settled'
    <2>1. r \notin sub
      BY DEF GateInv, Settled, Active
    <2>2. QED
      BY <1>2, <2>1 DEF GateInv, Settled, TypeOK
  <1>7. AdmittedHadAccess'
    <2> SUFFICES ASSUME NEW q \in Requests, req'[q].pc \in {"route", "work", "done"}, Scoped(q)
                 PROVE  q \in had'
      BY <1>3 DEF AdmittedHadAccess
    <2>1. CASE q # r
      BY <1>2, <1>4, <2>1 DEF GateInv, AdmittedHadAccess
    <2>2. CASE q = r /\ pc = "done"
      BY <1>2, <1>4, <2>2 DEF GateInv, AdmittedHadAccess
    <2>3. CASE q = r /\ pc # "done"
      BY <1>2, <1>4, <2>3
    <2>4. QED
      BY <2>1, <2>2, <2>3
  <1>8. SubscriptionsRooted'
    <2> SUFFICES ASSUME NEW q \in sub'
                 PROVE  /\ sess'[req'[q].in.s] = "there"
                        /\ Scoped(q) => tok'[req'[q].in.token].st = "there" /\ q \in had'
      BY <1>3 DEF SubscriptionsRooted, TypeOK
    <2>1. q \in sub /\ q \in Requests /\ req'[q].in = req[q].in
      BY <1>2 DEF TypeOK
    <2>2. QED
      BY <1>4, <2>1 DEF GateInv, SubscriptionsRooted
  <1>9. QED
    BY <1>4, <1>5, <1>6, <1>7, <1>8 DEF GateInv

\* Steps that leave requests alone.
LEMMA GateRests ==
  ASSUME TypeOK, GateInv, Next, UNCHANGED req, sub' \subseteq sub,
         \A s \in Sessions : sess[s] = "there" => sess'[s] = "there",
         \A q \in sub' : Scoped(q) =>
            (tok[req[q].in.token].st = "there" => tok'[req[q].in.token].st = "there")
  PROVE  GateInv'
  <1>1. had \subseteq had' /\ Covering'
    BY Observed
  <1>2. \A q : Scoped(q)' <=> Scoped(q)
    BY DEF Scoped
  <1>3. OnTarget' /\ Settled' /\ AdmittedHadAccess'
    BY <1>1, <1>2 DEF GateInv, OnTarget, Settled, AdmittedHadAccess
  <1>4. SubscriptionsRooted'
    <2> SUFFICES ASSUME NEW q \in sub'
                 PROVE  /\ sess'[req[q].in.s] = "there"
                        /\ Scoped(q) => tok'[req[q].in.token].st = "there" /\ q \in had'
      BY <1>2 DEF SubscriptionsRooted
    <2>1. q \in Requests /\ req[q].pc # "new"
      BY DEF TypeOK, GateInv, Settled
    <2>2. req[q].in.s \in Sessions
      BY <2>1, HasReq
    <2>3. QED
      BY <1>1, <2>2 DEF GateInv, SubscriptionsRooted
  <1>5. QED
    BY <1>1, <1>3, <1>4 DEF GateInv

\* The steps of a request keep GateInv.
LEMMA GateGateway ==
  ASSUME TypeOK, GateInv, Next, NEW r \in Requests, Gateway(r)
  PROVE  GateInv'
  <1>0. had \subseteq had' /\ Covering'
    BY Observed
  <1>1. ASSUME NEW in \in RequestInputs, Arrive(r, in) PROVE GateInv'
    <2>1. /\ req[r].pc = "new" /\ req'[r] = [pc |-> IF in.token = Master THEN "route" ELSE "resolve", in |-> in]
          /\ \A q \in Requests : q # r => req'[q] = req[q]
          /\ UNCHANGED <<tok, sess, sub>>
      BY <1>1 DEF Arrive, registry, TypeOK, NoReq
    <2>2. r \notin sub
      BY <2>1 DEF GateInv, Settled
    <2>3. \A q \in Requests : q # r => (Scoped(q)' <=> Scoped(q))
      BY <2>1 DEF Scoped
    <2>4. req'[r].pc # "resolve" => ~Scoped(r)'
      BY <2>1 DEF Scoped
    <2>5. OnTarget'
      BY <2>1, <2>3, <2>4 DEF GateInv, OnTarget
    <2>6. Settled' /\ SubscriptionsRooted'
      BY <1>0, <2>1, <2>2, <2>3 DEF GateInv, Settled, SubscriptionsRooted, TypeOK
    <2>7. AdmittedHadAccess'
      BY <1>0, <2>1, <2>3, <2>4 DEF GateInv, AdmittedHadAccess
    <2>8. QED
      BY <1>0, <2>5, <2>6, <2>7 DEF GateInv
  <1>2. CASE ResolveToken(r)
    <2>1. Active(r) /\ UNCHANGED <<tok, sess, sub>>
      BY <1>2 DEF ResolveToken, Active, registry
    <2>2. \/ To(r, "scope") /\ SessionTarget(req[r].in.route)
          \/ To(r, "refused")
      BY <1>2 DEF ResolveToken
    <2>3. QED
      BY <2>1, <2>2, GateMoves
  <1>3. CASE CheckScope(r)
    <2>1. Active(r) /\ req[r].pc = "scope" /\ UNCHANGED <<tok, sess, sub>>
      BY <1>3 DEF CheckScope, Active, registry
    <2>2. \/ To(r, "route") /\ TokenGrantsSession(req[r].in.token, req[r].in.s)
          \/ To(r, "refused")
      BY <1>3 DEF CheckScope
    <2>3. ASSUME TokenGrantsSession(req[r].in.token, req[r].in.s), Scoped(r)
          PROVE  r \in had
      <3>1. req[r].in.token \in Tokens /\ req[r].in.s \in Sessions
        BY <2>1, <2>3, HasReq DEF Scoped
      <3>2. Covered(r)
        BY <2>1, <2>3, <3>1, ScopeAgrees DEF Covered
      <3>3. QED
        BY <3>2 DEF GateInv, Covering
    <2>4. QED
      BY <2>1, <2>2, <2>3, GateMoves
  <1>4. CASE ResolveSession(r)
    <2>1. Active(r) /\ req[r].pc = "route" /\ UNCHANGED <<tok, sess, sub>>
      BY <1>4 DEF ResolveSession, Active, registry
    <2>2. To(r, "work") \/ To(r, "refused")
      BY <1>4 DEF ResolveSession
    <2>3. Scoped(r) => r \in had
      BY <2>1 DEF GateInv, AdmittedHadAccess
    <2>4. QED
      BY <2>1, <2>2, <2>3, GateMoves
  <1>5. CASE RequestFails(r) \/ Call(r) \/ DeleteSubscription(r)
    <2>1. Active(r) /\ UNCHANGED <<tok, sess>> /\ sub' \subseteq sub
      BY <1>5 DEF RequestFails, Call, DeleteSubscription, Active, registry
    <2>2. To(r, "refused") \/ (To(r, "done") /\ req[r].pc = "work")
      <3>1. CASE RequestFails(r)
        BY <3>1 DEF RequestFails
      <3>2. CASE Call(r)
        BY <3>2 DEF Call
      <3>3. CASE DeleteSubscription(r)
        BY <3>3 DEF DeleteSubscription
      <3>4. QED
        BY <1>5, <3>1, <3>2, <3>3
    <2>3. QED
      BY <2>1, <2>2, GateMoves
  <1>6. CASE CreateSubscription(r)
    <2>1. Active(r) /\ req[r].pc = "work" /\ UNCHANGED <<tok, sess>>
      BY <1>6 DEF CreateSubscription, Active, registry
    <2>2. CASE To(r, "refused") /\ sub' = sub
      BY <2>1, <2>2, GateMoves
    <2>3. CASE /\ sess[req[r].in.s] = "there"
               /\ Scoped(r) => tok[req[r].in.token].st = "there"
               /\ sub' = sub \cup {r} /\ To(r, "done")
      <3>1. /\ req'[r].pc = "done" /\ req'[r].in = req[r].in
            /\ \A q \in Requests : q # r => req'[q] = req[q]
        <4>1. req[r] \in ReqType /\ req' = [req EXCEPT ![r].pc = "done"]
              /\ req \in [Requests -> ReqType \cup {NoReq}]
          BY <2>1, <2>3, HasReq DEF To, TypeOK
        <4>2. QED
          BY <4>1 DEF ReqType
      <3>2. \A q \in Requests : Scoped(q)' <=> Scoped(q)
        BY <3>1 DEF Scoped
      <3>3. Scoped(r) => r \in had
        BY <2>1 DEF GateInv, AdmittedHadAccess
      <3>4. OnTarget'
        BY <3>1, <3>2 DEF GateInv, OnTarget
      <3>5. Settled'
        BY <2>3, <3>1 DEF GateInv, Settled, TypeOK
      <3>6. AdmittedHadAccess'
        BY <1>0, <3>1, <3>2, <3>3 DEF GateInv, AdmittedHadAccess
      <3>7. SubscriptionsRooted'
        <4> SUFFICES ASSUME NEW q \in sub'
                     PROVE  /\ sess'[req'[q].in.s] = "there"
                            /\ Scoped(q)' => tok'[req'[q].in.token].st = "there" /\ q \in had'
          BY DEF SubscriptionsRooted
        <4>1. q \in Requests /\ req'[q].in = req[q].in
          BY <2>3, <3>1 DEF TypeOK
        <4>2. CASE q = r
          BY <1>0, <2>1, <2>3, <3>2, <3>3, <4>1, <4>2
        <4>3. CASE q # r
          BY <1>0, <2>1, <2>3, <3>2, <4>1, <4>3 DEF GateInv, SubscriptionsRooted
        <4>4. QED
          BY <4>2, <4>3
      <3>8. QED
        BY <1>0, <3>4, <3>5, <3>6, <3>7 DEF GateInv
    <2>4. QED
      BY <1>6, <2>2, <2>3 DEF CreateSubscription
  <1>7. CASE DeleteSession(r)
    <2> DEFINE s == req[r].in.s
    <2>1. /\ req[r].pc = "work" /\ r \notin sub /\ UNCHANGED tok
          /\ sess' = [sess EXCEPT ![s] = "gone"] /\ sub' = {q \in sub : req[q].in.s # s}
      BY <1>7 DEF DeleteSession, GateInv, Settled
    <2>2. \E pc \in {"done", "refused"} : req' = [req EXCEPT ![r].pc = pc]
      BY <1>7 DEF DeleteSession, To
    <2>3. /\ req'[r].pc \in {"done", "refused"} /\ req'[r].in = req[r].in
          /\ \A q \in Requests : q # r => req'[q] = req[q]
      <3>1. req[r] \in ReqType /\ req \in [Requests -> ReqType \cup {NoReq}]
        BY <2>1, HasReq DEF TypeOK
      <3>2. QED
        BY <2>2, <3>1 DEF ReqType
    <2>4. \A q \in Requests : Scoped(q)' <=> Scoped(q)
      BY <2>3 DEF Scoped
    <2>5. OnTarget'
      BY <2>3, <2>4 DEF GateInv, OnTarget
    <2>6. Settled'
      BY <2>1, <2>3 DEF GateInv, Settled, TypeOK
    <2>7. AdmittedHadAccess'
      BY <1>0, <2>1, <2>3, <2>4 DEF GateInv, AdmittedHadAccess
    <2>8. SubscriptionsRooted'
      <3> SUFFICES ASSUME NEW q \in sub'
                   PROVE  /\ sess'[req'[q].in.s] = "there"
                          /\ Scoped(q)' => tok'[req'[q].in.token].st = "there" /\ q \in had'
        BY DEF SubscriptionsRooted
      <3>1. q \in Requests /\ q \in sub /\ q # r /\ req'[q] = req[q] /\ req[q].in.s # s
        BY <2>1, <2>3 DEF TypeOK
      <3>2. sess'[req[q].in.s] = sess[req[q].in.s]
        BY <2>1, <3>1 DEF TypeOK
      <3>3. QED
        BY <1>0, <2>1, <2>4, <3>1, <3>2 DEF GateInv, SubscriptionsRooted
    <2>9. QED
      BY <1>0, <2>5, <2>6, <2>7, <2>8 DEF GateInv
  <1>8. QED
    BY <1>1, <1>2, <1>3, <1>4, <1>5, <1>6, <1>7 DEF Gateway

\* Every step keeps GateInv.
LEMMA GateNext ==
  ASSUME TypeOK, GateInv, [Next]_vars
  PROVE  GateInv'
  <1>1. CASE UNCHANGED vars
    BY <1>1 DEF vars, GateInv, Covering, OnTarget, Settled, AdmittedHadAccess, SubscriptionsRooted,
                Covered, Active, Scoped, HasAccess
  <1>2. ASSUME Next, NEW p \in Patches, Patching(p) PROVE GateInv'
    <2>1. UNCHANGED <<req, sub, sess>>
      BY <1>2, Zenon DEF Patching, UpdateToken, DeleteStarts, DeleteEnds, InsertGrant, Commit, Rollback, registry
    <2>2. \A t \in Tokens : tok'[t].st = tok[t].st
      <3>1. CASE Commit(p)
        <4>1. tx[p].in.token \in Tokens
          BY <3>1, HasTx, TokensAssumption DEF Commit, TxType, PatchType
        <4>2. QED
          BY <3>1, <4>1 DEF Commit, TypeOK
      <3>2. CASE UNCHANGED tok
        BY <3>2
      <3>3. QED
        BY <1>2, <3>1, <3>2 DEF Patching, UpdateToken, DeleteStarts, DeleteEnds, InsertGrant, Rollback, registry
    <2>3. \A q \in sub : Scoped(q) => req[q].in.token \in Tokens
      BY HasReq DEF GateInv, Settled, TypeOK, Scoped
    <2>4. QED
      BY <1>2, <2>1, <2>2, <2>3, GateRests, Zenon
  <1>3. ASSUME Next, Lifecycle PROVE GateInv'
    <2>1. ASSUME NEW t \in Tokens, DeleteToken(t) PROVE GateInv'
      BY <1>3, <2>1, GateRests DEF DeleteToken, TypeOK
    <2>2. ASSUME NEW t \in Tokens, NEW in \in CreateInputs, CreateToken(t, in) PROVE GateInv'
      BY <1>3, <2>2, GateRests DEF CreateToken, TypeOK
    <2>3. ASSUME NEW s \in Sessions, CreateSession(s) PROVE GateInv'
      BY <1>3, <2>3, GateRests DEF CreateSession, TypeOK
    <2>4. QED
      BY <1>3, <2>1, <2>2, <2>3 DEF Lifecycle
  <1>4. QED
    BY <1>1, <1>2, <1>3, GateGateway DEF Next

\* GateInv is an invariant.
LEMMA GateHolds == Spec => []GateInv
  <1>1. Init => GateInv
    BY DEF Init, GateInv, Covering, OnTarget, Settled, AdmittedHadAccess, SubscriptionsRooted,
           Covered, Active, NoReq
  <1>2. QED
    BY <1>1, GateNext, TypeCorrect, PTL DEF Spec

\* AdmittedHadAccess: whatever commits between the reads of auth, a scoped request goes
\* on only if its token had access at one moment since it arrived (auth).
THEOREM AdmittedFairly == Spec => []AdmittedHadAccess
  BY GateHolds, PTL DEF GateInv

\* SubscriptionsRooted: subscriptions never outlive their token or session, and are made
\* only with access (handleCreateSubscription, DeleteToken, DeleteSession).
THEOREM SubscriptionsStayRooted == Spec => []SubscriptionsRooted
  BY GateHolds, PTL DEF GateInv

\* RemovalsEntitled: only the master removes a session, and a subscription goes with
\* its session or token, by the master or by the token that owns it
\* (sessionTarget, DeleteSubscription).
THEOREM OnlyEntitledRemove == Spec => RemovalsEntitled
  <1> DEFINE Gone(q) == \/ Scoped(q) /\ tok'[req[q].in.token].st = "gone"
                        \/ sess'[req[q].in.s] = "gone"
             Asked(r, q) == /\ req[r].pc = "work" /\ req'[r].pc = "done" /\ req[r].in.sub = q
                            /\ Scoped(r) => r \in had /\ req[r].in.token = req[q].in.token
             Removed(s) == \E r \in Requests : req[r].pc = "work" /\ req[r].in.s = s /\ ~Scoped(r)
  <1>1. TypeOK /\ GateInv /\ [Next]_vars => [Entitled]_vars
    <2> SUFFICES ASSUME TypeOK, GateInv, [Next]_vars PROVE [Entitled]_vars
      OBVIOUS
    <2>0. (/\ \A q \in sub \ sub' : Gone(q) \/ \E r \in Requests : Asked(r, q)
           /\ \A s \in Sessions : sess[s] = "there" /\ sess'[s] = "gone" => Removed(s)) => Entitled
      BY DEF Entitled
    <2>1. CASE UNCHANGED <<sub, sess>>
      BY <2>0, <2>1 DEF TypeOK
    <2>2. ASSUME NEW t \in Tokens, DeleteToken(t) PROVE Entitled
      BY <2>0, <2>2, TokensAssumption DEF DeleteToken, Scoped, TypeOK
    <2>3. ASSUME NEW s \in Sessions, CreateSession(s) PROVE Entitled
      BY <2>0, <2>3 DEF CreateSession, TypeOK
    <2>4. ASSUME NEW r \in Requests, CreateSubscription(r) PROVE Entitled
      BY <2>0, <2>4 DEF CreateSubscription, registry
    <2>5. ASSUME NEW r \in Requests, DeleteSubscription(r) PROVE Entitled
      <3>1. Scoped(r) => r \in had
        BY <2>5 DEF DeleteSubscription, GateInv, AdmittedHadAccess
      <3>2. ASSUME NEW q \in sub \ sub' PROVE Asked(r, q)
        <4>1. q = req[r].in.sub /\ Matches(r, q) /\ To(r, "done") /\ req[r].pc = "work"
          BY <2>5, <3>2 DEF DeleteSubscription
        <4>2. req'[r].pc = "done"
          BY <4>1, HasReq DEF To, TypeOK, ReqType
        <4>3. QED
          BY <3>1, <4>1, <4>2 DEF Matches
      <3>3. UNCHANGED sess
        BY <2>5 DEF DeleteSubscription, registry
      <3>4. QED
        BY <2>0, <3>2, <3>3
    <2>6. ASSUME NEW r \in Requests, DeleteSession(r) PROVE Entitled
      <3>1. ~Scoped(r) /\ req[r].pc = "work"
        BY <2>6 DEF DeleteSession, GateInv, OnTarget, SessionTarget
      <3>2. req[r].in.s \in Sessions /\ sess' = [sess EXCEPT ![req[r].in.s] = "gone"]
            /\ sub' = {q \in sub : req[q].in.s # req[r].in.s}
        BY <2>6, <3>1, HasReq DEF DeleteSession
      <3>3. \A q \in sub \ sub' : Gone(q)
        BY <3>2 DEF TypeOK
      <3>4. \A s \in Sessions : sess[s] = "there" /\ sess'[s] = "gone" => Removed(s)
        BY <3>1, <3>2 DEF TypeOK
      <3>5. QED
        BY <2>0, <3>3, <3>4
    <2>7. CASE Next
      <3>1. ASSUME NEW p \in Patches, Patching(p) PROVE UNCHANGED <<sub, sess>>
        BY <3>1, Zenon DEF Patching, UpdateToken, DeleteStarts, DeleteEnds, InsertGrant, Commit, Rollback, registry
      <3>2. ASSUME NEW r \in Requests, Gateway(r), ~CreateSubscription(r), ~DeleteSubscription(r), ~DeleteSession(r)
            PROVE UNCHANGED <<sub, sess>>
        BY <3>2 DEF Gateway, Arrive, ResolveToken, CheckScope, ResolveSession, RequestFails, Call, registry
      <3>3. ASSUME NEW t \in Tokens, NEW in \in CreateInputs, CreateToken(t, in)
            PROVE UNCHANGED <<sub, sess>>
        BY <3>3 DEF CreateToken
      <3>4. QED
        BY <2>1, <2>2, <2>3, <2>4, <2>5, <2>6, <2>7, <3>1, <3>2, <3>3, Zenon DEF Next, Lifecycle
    <2>8. QED
      BY <2>7 DEF vars
  <1>2. QED
    BY <1>1, GateHolds, TypeCorrect, PTL DEF Spec, RemovalsEntitled

-----------------------------------------------------------------------------
(* What a committed patch has removed. *)

\* A grant a patch inserted is committed, now or in what a later patch found, only if
\* that patch is.
Authored ==
    /\ \A x \in row : x.by \in Patches => tx[x.by].pc = "committed"
    /\ \A p \in Patches : \A x \in before[p] : x.by \in Patches => tx[x.by].pc = "committed"
    /\ \A p \in Patches : tx[p].pc # "new" => \A x \in tx[p].ins : x.by = p

\* The token of a patch that found it has been created.
Begun == \A p \in Patches : tx[p].pc \in {"run", "wait", "committed"} => tok[tx[p].in.token].st # "none"

\* Where the transaction of patch p has the grant x of its token, by how far it has got.
Reached(p, x) ==
    /\ tx[p].pc = "run" /\ x.kind \in tx[p].done => x \in tx[p].del
    /\ tx[p].pc = "wait" /\ x.kind \in tx[p].done =>
          x \in IF x.kind = tx[p].kind THEN tx[p].seen ELSE tx[p].del
    /\ tx[p].pc = "committed" => x.kind \notin Given(tx[p].in)

\* Of the grants that were there when it began.
Sweeping == \A p \in Patches : \A x \in row \cap before[p] :
               tx[p].pc # "new" /\ x.token = tx[p].in.token => Reached(p, x)

PatchInv == Authored /\ Begun /\ Sweeping

\* Steps outside the transactions: a grant may come only with the token it is of.
LEMMA PatchRests ==
  ASSUME TypeOK, PatchInv, UNCHANGED <<tx, before>>,
         \A x \in row' \ row : x.by = "create" /\ tok[x.token].st = "none",
         \A t \in Tokens : tok[t].st # "none" => tok'[t].st # "none"
  PROVE  PatchInv'
  <1>1. Authored'
    BY TokensAssumption DEF PatchInv, Authored
  <1>2. Begun'
    <2> SUFFICES ASSUME NEW p \in Patches, tx[p].pc \in {"run", "wait", "committed"}
                 PROVE  tok'[tx[p].in.token].st # "none"
      BY DEF Begun
    <2>1. tx[p].in.token \in Tokens
      BY PatchToken
    <2>2. QED
      BY <2>1 DEF PatchInv, Begun
  <1>3. Sweeping'
    <2> SUFFICES ASSUME NEW p \in Patches, NEW x \in row' \cap before[p],
                        tx[p].pc # "new", x.token = tx[p].in.token
                 PROVE  Reached(p, x)'
      BY DEF Sweeping
    <2>1. CASE x \in row
      BY <2>1 DEF PatchInv, Sweeping, Reached
    <2>2. CASE x \notin row
      <3>1. tx[p].pc \notin {"run", "wait", "committed"}
        BY <2>2 DEF PatchInv, Begun
      <3>2. QED
        BY <3>1 DEF Reached
    <2>3. QED
      BY <2>1, <2>2
  <1>4. QED
    BY <1>1, <1>2, <1>3 DEF PatchInv

\* A transaction gets further, or fails, without a commit.
LEMMA PatchAdvances ==
  ASSUME TypeOK, PatchInv, NEW p \in Patches, Open(p), UNCHANGED <<tok, row, before>>,
         \A q \in Patches : q # p => tx'[q] = tx[q],
         tx'[p].in = tx[p].in, tx'[p].pc \in {"run", "wait", "failed"},
         \A x \in tx'[p].ins : x.by = p,
         \A x \in row : x.token = tx[p].in.token /\ Reached(p, x) => Reached(p, x)'
  PROVE  PatchInv'
  <1>1. \A q \in Patches : tx[q].pc = "committed" => tx'[q].pc = "committed"
    BY DEF Open
  <1>2. Authored'
    BY <1>1 DEF PatchInv, Authored
  <1>3. Begun'
    BY DEF PatchInv, Begun, Open
  <1>4. Sweeping'
    <2> SUFFICES ASSUME NEW q \in Patches, NEW x \in row \cap before[q],
                        tx'[q].pc # "new", x.token = tx'[q].in.token
                 PROVE  Reached(q, x)'
      BY DEF Sweeping
    <2>1. CASE q = p
      BY <2>1 DEF PatchInv, Sweeping, Open
    <2>2. CASE q # p
      BY <2>2 DEF PatchInv, Sweeping, Reached
    <2>3. QED
      BY <2>1, <2>2
  <1>5. QED
    BY <1>2, <1>3, <1>4 DEF PatchInv

\* The first statement of a patch.
LEMMA PatchBegins ==
  ASSUME TypeOK, PatchInv, NEW p \in Patches, NEW in \in PatchInputs, UpdateToken(p, in)
  PROVE  PatchInv'
  <1> DEFINE pc == IF tok[in.token].st = "there" THEN "run" ELSE "failed"
             new == [pc |-> pc, in |-> in, kind |-> "app", done |-> {}, seen |-> {},
                     del |-> {}, ins |-> {}, todo |-> {}]
  <1>1. /\ tx[p].pc = "new" /\ tx'[p] = new /\ before'[p] = row
        /\ \A q \in Patches : q # p => tx'[q] = tx[q] /\ before'[q] = before[q]
        /\ UNCHANGED <<tok, row>>
    BY DEF UpdateToken, TypeOK, NoTx, registry
  <1>2. \A q \in Patches : tx[q].pc = "committed" => tx'[q].pc = "committed"
    BY <1>1
  <1>3. Authored'
    <2>1. \A x \in row : x.by \in Patches => tx'[x.by].pc = "committed"
      BY <1>2 DEF PatchInv, Authored
    <2>2. \A q \in Patches : \A x \in before'[q] : x.by \in Patches => tx'[x.by].pc = "committed"
      BY <1>1, <1>2, <2>1 DEF PatchInv, Authored
    <2>3. \A q \in Patches : tx'[q].pc # "new" => \A x \in tx'[q].ins : x.by = q
      BY <1>1 DEF PatchInv, Authored
    <2>4. QED
      BY <1>1, <2>1, <2>2, <2>3 DEF Authored
  <1>4. Begun'
    BY <1>1 DEF PatchInv, Begun
  <1>5. Sweeping'
    <2> SUFFICES ASSUME NEW q \in Patches, NEW x \in row \cap before'[q],
                        tx'[q].pc # "new", x.token = tx'[q].in.token
                 PROVE  Reached(q, x)'
      BY <1>1 DEF Sweeping
    <2>1. CASE q = p
      BY <1>1, <2>1 DEF Reached
    <2>2. CASE q # p
      BY <1>1, <2>2 DEF PatchInv, Sweeping, Reached
    <2>3. QED
      BY <2>1, <2>2
  <1>6. QED
    BY <1>3, <1>4, <1>5 DEF PatchInv

\* A commit: what it inserts was not there when any patch began, what it has
\* removed is all that was there when it began itself.
LEMMA PatchCommits ==
  ASSUME TypeOK, PatchInv, NEW p \in Patches, Commit(p)
  PROVE  PatchInv'
  <1>0. tx[p] \in TxType /\ tx[p].pc = "run" /\ tx[p].in.token \in Tokens /\ tx[p].done = Given(tx[p].in)
    BY PatchToken, HasTx DEF Commit
  <1>1. /\ tx'[p].pc = "committed" /\ tx'[p].in = tx[p].in /\ tx'[p].ins = {}
        /\ \A q \in Patches : q # p => tx'[q] = tx[q]
        /\ row' = (row \ tx[p].del) \cup tx[p].ins /\ before' = before
    BY <1>0 DEF Commit, Ended, TypeOK, TxType
  <1>2. \A q \in Patches : tx[q].pc = "committed" => tx'[q].pc = "committed"
    BY <1>1
  <1>3. \A x \in tx[p].ins : x.by = p
    BY <1>0 DEF PatchInv, Authored
  <1>4. Authored'
    BY <1>1, <1>2, <1>3 DEF PatchInv, Authored
  <1>5. Begun'
    <2>1. \A t \in Tokens : tok'[t].st = tok[t].st
      BY <1>0 DEF Commit, TypeOK
    <2> SUFFICES ASSUME NEW q \in Patches, tx'[q].pc \in {"run", "wait", "committed"}
                 PROVE  tok'[tx'[q].in.token].st # "none"
      BY DEF Begun
    <2>2. tx[q].pc \in {"run", "wait", "committed"} /\ tx'[q].in = tx[q].in
      BY <1>0, <1>1
    <2>3. tx[q].in.token \in Tokens
      BY <2>2, PatchToken
    <2>4. QED
      BY <2>1, <2>2, <2>3 DEF PatchInv, Begun
  <1>6. Sweeping'
    <2> SUFFICES ASSUME NEW q \in Patches, NEW x \in row' \cap before[q],
                        tx'[q].pc # "new", x.token = tx'[q].in.token
                 PROVE  Reached(q, x)'
      BY <1>1 DEF Sweeping
    <2>1. x \in row \ tx[p].del
      BY <1>0, <1>1, <1>3 DEF PatchInv, Authored
    <2>2. CASE q = p
      BY <1>0, <1>1, <2>1, <2>2 DEF PatchInv, Sweeping, Reached
    <2>3. CASE q # p
      BY <1>1, <2>1, <2>3 DEF PatchInv, Sweeping, Reached
    <2>4. QED
      BY <2>2, <2>3
  <1>7. QED
    BY <1>4, <1>5, <1>6 DEF PatchInv

\* The steps of a patch keep PatchInv.
LEMMA PatchSteps ==
  ASSUME TypeOK, PatchInv, NEW p \in Patches, Patching(p)
  PROVE  PatchInv'
  <1>1. ASSUME NEW k \in Kinds, DeleteStarts(p, k) PROVE PatchInv'
    <2>1. tx[p] \in TxType /\ tx[p].pc = "run" /\ UNCHANGED <<tok, row, before>>
      BY <1>1, HasTx DEF DeleteStarts, registry
    <2>2. /\ tx'[p].pc = "wait" /\ tx'[p].in = tx[p].in /\ tx'[p].kind = k
          /\ tx'[p].done = tx[p].done \cup {k} /\ tx'[p].ins = tx[p].ins /\ tx'[p].del = tx[p].del
          /\ tx'[p].seen = {x \in row : x.token = tx[p].in.token /\ x.kind = k}
          /\ \A q \in Patches : q # p => tx'[q] = tx[q]
      BY <1>1, <2>1 DEF DeleteStarts, TypeOK, TxType
    <2>3. \A x \in row : x.token = tx[p].in.token /\ Reached(p, x) => Reached(p, x)'
      BY <2>1, <2>2 DEF Reached
    <2>4. \A x \in tx'[p].ins : x.by = p
      BY <2>1, <2>2 DEF PatchInv, Authored
    <2>5. QED
      BY <2>1, <2>2, <2>3, <2>4, PatchAdvances DEF Open
  <1>2. CASE DeleteEnds(p)
    <2>1. tx[p] \in TxType /\ tx[p].pc = "wait" /\ UNCHANGED <<tok, row, before>>
      BY <1>2, HasTx DEF DeleteEnds, registry
    <2>2. /\ tx'[p].pc = "run" /\ tx'[p].in = tx[p].in /\ tx'[p].ins = tx[p].ins
          /\ tx'[p].done = tx[p].done /\ tx'[p].del = tx[p].del \cup (tx[p].seen \cap row)
          /\ \A q \in Patches : q # p => tx'[q] = tx[q]
      BY <1>2, <2>1 DEF DeleteEnds, TypeOK, TxType
    <2>3. \A x \in row : x.token = tx[p].in.token /\ Reached(p, x) => Reached(p, x)'
      BY <2>1, <2>2 DEF Reached
    <2>4. \A x \in tx'[p].ins : x.by = p
      BY <2>1, <2>2 DEF PatchInv, Authored
    <2>5. QED
      BY <2>1, <2>2, <2>3, <2>4, PatchAdvances DEF Open
  <1>3. CASE Ended(p, "failed") /\ Open(p) /\ UNCHANGED <<tok, row, before>>
    <2>1. tx[p] \in TxType
      BY <1>3, HasTx DEF Open
    <2>2. /\ tx'[p].pc = "failed" /\ tx'[p].in = tx[p].in /\ tx'[p].ins = {}
          /\ \A q \in Patches : q # p => tx'[q] = tx[q]
      BY <1>3, <2>1 DEF Ended, TypeOK, TxType
    <2>3. \A x \in row : Reached(p, x)'
      BY <2>2 DEF Reached
    <2>4. QED
      BY <1>3, <2>2, <2>3, PatchAdvances
  <1>4. ASSUME NEW g \in Apps \cup Sessions, InsertGrant(p, g) PROVE PatchInv'
    <2>1. tx[p] \in TxType /\ tx[p].pc = "run" /\ UNCHANGED <<tok, row, before>>
      BY <1>4, HasTx DEF InsertGrant, registry
    <2>2. CASE Ended(p, "failed")
      BY <1>3, <2>1, <2>2 DEF Open
    <2>3. ASSUME NEW ins, \A x \in ins : x.by = p,
                 tx' = [tx EXCEPT ![p] = [tx[p] EXCEPT !.todo = tx[p].todo \ {g}, !.ins = ins]]
          PROVE  PatchInv'
      <3>1. /\ tx'[p].pc = "run" /\ tx'[p].in = tx[p].in /\ tx'[p].ins = ins
            /\ tx'[p].done = tx[p].done /\ tx'[p].del = tx[p].del
            /\ \A q \in Patches : q # p => tx'[q] = tx[q]
        BY <2>1, <2>3 DEF TypeOK, TxType
      <3>2. \A x \in row : x.token = tx[p].in.token /\ Reached(p, x) => Reached(p, x)'
        BY <2>1, <3>1 DEF Reached
      <3>3. QED
        BY <2>1, <2>3, <3>1, <3>2, PatchAdvances DEF Open
    <2>4. \A x \in tx[p].ins : x.by = p
      BY <2>1 DEF PatchInv, Authored
    <2> DEFINE Same(x) == x.token = tx[p].in.token /\ x.kind = tx[p].kind /\ x.of = g
               new == [token |-> tx[p].in.token, kind |-> tx[p].kind, of |-> g, by |-> p]
               now == IF \E x \in row \ tx[p].del : Same(x) THEN tx[p].ins ELSE tx[p].ins \cup {new}
    <2>5. \A x \in now : x.by = p
      BY <2>4
    <2>6. \/ Ended(p, "failed")
          \/ tx' = [tx EXCEPT ![p] = [tx[p] EXCEPT !.todo = tx[p].todo \ {g}, !.ins = now]]
      BY <1>4 DEF InsertGrant
    <2> HIDE DEF now
    <2>7. QED
      BY <2>2, <2>3, <2>5, <2>6
  <1>5. CASE Rollback(p)
    BY <1>3, <1>5 DEF Rollback, registry
  <1>6. QED
    BY <1>1, <1>2, <1>4, <1>5, PatchBegins, PatchCommits DEF Patching

\* Every step keeps PatchInv.
LEMMA PatchNext ==
  ASSUME TypeOK, PatchInv, [Next]_vars
  PROVE  PatchInv'
  <1>1. CASE UNCHANGED vars
    BY <1>1, PatchRests DEF vars
  <1>2. ASSUME NEW r \in Requests, Gateway(r) PROVE PatchInv'
    <2>1. UNCHANGED <<tx, before, tok>> /\ row' \subseteq row
      BY <1>2 DEF Gateway, Arrive, ResolveToken, CheckScope, ResolveSession, RequestFails, Call,
                  CreateSubscription, DeleteSubscription, DeleteSession, registry
    <2>2. QED
      BY <2>1, PatchRests
  <1>3. ASSUME NEW t \in Tokens, DeleteToken(t) PROVE PatchInv'
    BY <1>3, PatchRests DEF DeleteToken, TypeOK
  <1>4. ASSUME NEW t \in Tokens, NEW in \in CreateInputs, CreateToken(t, in) PROVE PatchInv'
    <2>1. UNCHANGED <<tx, before>> /\ tok[t].st = "none"
      BY <1>4 DEF CreateToken
    <2>2. \A x \in row' \ row : x.by = "create" /\ x.token = t
      BY <1>4 DEF CreateToken
    <2>3. \A u \in Tokens : tok[u].st # "none" => tok'[u].st # "none"
      BY <1>4 DEF CreateToken, TypeOK
    <2>4. QED
      BY <2>1, <2>2, <2>3, PatchRests
  <1>5. ASSUME NEW s \in Sessions, CreateSession(s) PROVE PatchInv'
    BY <1>5, PatchRests DEF CreateSession
  <1>6. QED
    BY <1>1, <1>2, <1>3, <1>4, <1>5, PatchSteps DEF Next, Lifecycle

\* PatchInv is an invariant.
LEMMA PatchHolds == Spec => []PatchInv
  <1>1. Init => PatchInv
    BY DEF Init, PatchInv, Authored, Begun, Sweeping, NoTx
  <1>2. QED
    BY <1>1, PatchNext, TypeCorrect, PTL DEF Spec

\* PatchRevokes: whatever transactions overlap it, a committed patch leaves no grant of
\* its lists' kinds that was there when it began (UpdateToken, patchTokenGrants).
THEOREM PatchesRevoke == Spec => []PatchRevokes
  <1>1. PatchInv => PatchRevokes
    BY DEF PatchInv, Sweeping, Reached, PatchRevokes
  <1>2. QED
    BY <1>1, PatchHolds, PTL

-----------------------------------------------------------------------------
(* Patches that update the token's row. *)

\* A grant, committed or inserted by an open transaction, is of a token that exists.
RowsRooted == /\ \A x \in row : tok[x.token].st = "there"
              /\ \A p \in Patches : Open(p) => \A x \in tx[p].ins : tok[x.token].st = "there"

\* An open transaction of a locked token has a token that exists, and has it for itself.
Alone == \A p \in Patches : Open(p) /\ Locked(tx[p].in.token) =>
            /\ tok[tx[p].in.token].st = "there"
            /\ \A q \in Patches : Open(q) /\ tx[q].in.token = tx[p].in.token => q = p

\* The grants an open transaction has touched: its own token's, of the lists it is
\* through with or at; while it waits it has yet to touch those of the list it is at.
Own(p) == /\ \A x \in tx[p].del \cup tx[p].ins :
                /\ x.token = tx[p].in.token /\ x.kind \in tx[p].done
                /\ tx[p].pc = "wait" => x.kind # tx[p].kind
          /\ \A x \in tx[p].seen : x.token = tx[p].in.token /\ x.kind = tx[p].kind
          /\ tx[p].todo # {} => tx[p].pc = "run" /\ tx[p].kind \in tx[p].done
          /\ tx[p].pc = "wait" => tx[p].kind \in tx[p].done
          /\ tx[p].todo \subseteq UNION tx[p].in[tx[p].kind]
          /\ \A x \in tx[p].ins : x.kind = "session" => sess[x.of] = "there"

\* It has found all grants of its token, not only those there when it began.
Clearing(p) == \A x \in row : x.token = tx[p].in.token => Reached(p, x)

\* It has inserted the lists it is through with, and of the one it is at what is not
\* left to do.
Filling(p) == \A k \in tx[p].done : (tx[p].pc = "wait" => k # tx[p].kind) =>
                 \A g \in Apps \cup Sessions :
                    (\E x \in tx[p].ins : x.kind = k /\ x.of = g)
                        <=> g \in UNION tx[p].in[k] /\ (k = tx[p].kind => g \notin tx[p].todo)

\* A list names what its kind has, and no session that is still to be created.
SaidKnown == \A t \in Tokens, k \in Kinds :
                /\ said[t][k] \subseteq Targets(k)
                /\ k = "session" /\ Locked(t) => \A s \in said[t][k] : sess[s] # "none"

ListInv == /\ RowsRooted /\ Alone /\ SaidKnown /\ LockedListsReplace
           /\ \A p \in Patches : Open(p) => Own(p)
           /\ \A p \in Patches : Open(p) /\ Locked(tx[p].in.token) => Clearing(p) /\ Filling(p)

\* Whether a token is locked changes only when a patch of it begins.
LEMMA LockedStays ==
  ASSUME \A q \in Patches : tx'[q].in = tx[q].in /\ (tx'[q].pc = "new" <=> tx[q].pc = "new")
  PROVE  \A t : Locked(t)' <=> Locked(t)
  BY DEF Locked, Columns

\* An open transaction of a locked token has the lock of its row.
LEMMA LocksAll ==
  ASSUME NEW p \in Patches, Open(p), Locked(tx[p].in.token)
  PROVE  Holds(p, tx[p].in.token)
  BY DEF Holds, Locked, Open

\* Steps of requests other than a deletion.
LEMMA ListRests ==
  ASSUME ListInv, UNCHANGED <<tok, sess, row, tx, said>>
  PROVE  ListInv'
  <1>1. \A t : Locked(t)' <=> Locked(t)
    BY LockedStays
  <1>2. QED
    BY <1>1 DEF ListInv, RowsRooted, Alone, SaidKnown, LockedListsReplace, AsSaid, Granted, Open,
                Own, Clearing, Filling, Reached

\* A transaction gets further, or fails, without a commit.
LEMMA ListAdvances ==
  ASSUME TypeOK, ListInv, NEW p \in Patches, Open(p), UNCHANGED <<tok, sess, row, said>>,
         \A q \in Patches : q # p => tx'[q] = tx[q], tx'[p].in = tx[p].in, tx'[p].pc # "new",
         Open(p)' => Own(p)' /\ \A x \in tx'[p].ins : tok[x.token].st = "there",
         Open(p)' /\ Clearing(p) /\ Filling(p) => Clearing(p)' /\ Filling(p)'
  PROVE  ListInv'
  <1>1. \A t : Locked(t)' <=> Locked(t)
    BY LockedStays DEF Open
  <1>2. \A q \in Patches : q # p /\ Open(q)' => Open(q) /\ tx'[q] = tx[q]
    BY DEF Open
  <1>3. RowsRooted' /\ SaidKnown' /\ LockedListsReplace'
    BY <1>1, <1>2 DEF ListInv, RowsRooted, SaidKnown, LockedListsReplace, AsSaid, Granted
  <1>4. Alone'
    BY <1>1, <1>2 DEF ListInv, Alone
  <1>5. ASSUME NEW q \in Patches, Open(q)' PROVE Own(q)'
    <2>1. CASE q = p
      BY <1>5, <2>1
    <2>2. CASE q # p
      BY <1>2, <1>5, <2>2 DEF ListInv, Own
    <2>3. QED
      BY <2>1, <2>2
  <1>6. ASSUME NEW q \in Patches, Open(q)', Locked(tx[q].in.token)
        PROVE  Clearing(q)' /\ Filling(q)'
    <2>1. CASE q = p
      BY <1>6, <2>1 DEF ListInv
    <2>2. CASE q # p
      <3>1. Open(q) /\ tx'[q] = tx[q] /\ Clearing(q) /\ Filling(q)
        BY <1>2, <1>6, <2>2 DEF ListInv
      <3>2. Clearing(q)'
        BY <3>1 DEF Clearing, Reached
      <3>3. Filling(q)'
        BY <3>1 DEF Filling
      <3>4. QED
        BY <3>2, <3>3
    <2>3. QED
      BY <2>1, <2>2
  <1>7. \A q \in Patches : tx'[q].in = tx[q].in
    OBVIOUS
  <1>8. QED
    BY <1>1, <1>3, <1>4, <1>5, <1>6, <1>7 DEF ListInv

\* The first statement of a patch with a column waits for the transaction that has the
\* token; after one without, the token is not locked.
LEMMA ListBegins ==
  ASSUME TypeOK, ListInv, NEW p \in Patches, NEW in \in PatchInputs, UpdateToken(p, in)
  PROVE  ListInv'
  <1> DEFINE pc == IF tok[in.token].st = "there" THEN "run" ELSE "failed"
             new == [pc |-> pc, in |-> in, kind |-> "app", done |-> {}, seen |-> {},
                     del |-> {}, ins |-> {}, todo |-> {}]
  <1>1. /\ tx[p].pc = "new" /\ tx'[p] = new
        /\ \A q \in Patches : q # p => tx'[q] = tx[q]
        /\ UNCHANGED <<tok, sess, row, said>>
    BY DEF UpdateToken, TypeOK, NoTx, registry
  <1>2. \A t : Locked(t)' => Locked(t)
    BY <1>1 DEF Locked, Columns
  <1>3. Locked(in.token)' => Columns(in)
    BY <1>1 DEF Locked, Columns
  <1>4. \A q \in Patches : q # p /\ Open(q)' => Open(q) /\ tx'[q] = tx[q]
    BY <1>1 DEF Open
  <1>5. ASSUME NEW q \in Patches, Open(q), Locked(in.token)' PROVE tx[q].in.token # in.token
    BY <1>2, <1>3, <1>5, LocksAll DEF UpdateToken
  <1>6. RowsRooted'
    BY <1>1, <1>4 DEF ListInv, RowsRooted
  <1>7. SaidKnown' /\ LockedListsReplace'
    BY <1>1, <1>2 DEF ListInv, SaidKnown, LockedListsReplace, AsSaid, Granted
  <1>8. Alone'
    <2> SUFFICES ASSUME NEW o \in Patches, Open(o)', Locked(tx[o].in.token)'
                 PROVE  /\ tok[tx'[o].in.token].st = "there"
                        /\ \A q \in Patches : Open(q)' /\ tx'[q].in.token = tx'[o].in.token => q = o
      BY <1>1 DEF Alone
    <2>1. CASE o = p
      BY <1>1, <1>4, <1>5, <2>1 DEF Open
    <2>2. CASE o # p
      <3>1. Open(o) /\ tx'[o] = tx[o] /\ Locked(tx[o].in.token)
        BY <1>2, <1>4, <2>2
      <3>2. tx[o].in.token # in.token
        BY <1>5, <3>1
      <3>3. QED
        BY <1>1, <1>4, <3>1, <3>2 DEF ListInv, Alone
    <2>3. QED
      BY <2>1, <2>2
  <1>9. ASSUME NEW q \in Patches, Open(q)' PROVE Own(q)'
    <2>1. CASE q = p
      BY <1>1, <2>1 DEF Own
    <2>2. CASE q # p
      BY <1>1, <1>4, <1>9, <2>2 DEF ListInv, Own
    <2>3. QED
      BY <2>1, <2>2
  <1>10. ASSUME NEW q \in Patches, Open(q)', Locked(tx[q].in.token)'
         PROVE  Clearing(q)' /\ Filling(q)'
    <2>1. CASE q = p
      BY <1>1, <2>1 DEF Clearing, Filling, Reached
    <2>2. CASE q # p
      <3>1. Open(q) /\ tx'[q] = tx[q] /\ Clearing(q) /\ Filling(q)
        BY <1>2, <1>4, <1>10, <2>2 DEF ListInv
      <3>2. QED
        BY <1>1, <3>1 DEF Clearing, Filling, Reached
    <2>3. QED
      BY <2>1, <2>2
  <1>11. QED
    BY <1>6, <1>7, <1>8, <1>9, <1>10 DEF ListInv

\* The DELETE of a list starts: all grants of the kind are seen.
LEMMA ListDeletes ==
  ASSUME TypeOK, ListInv, NEW p \in Patches, NEW k \in Kinds, DeleteStarts(p, k)
  PROVE  ListInv'
  <1>1. /\ tx[p] \in TxType /\ tx[p].pc = "run" /\ tx[p].todo = {} /\ k \notin tx[p].done
        /\ UNCHANGED <<tok, sess, row, said>>
    BY HasTx DEF DeleteStarts, registry
  <1>2. /\ tx'[p].pc = "wait" /\ tx'[p].in = tx[p].in /\ tx'[p].kind = k
        /\ tx'[p].done = tx[p].done \cup {k} /\ tx'[p].ins = tx[p].ins /\ tx'[p].del = tx[p].del
        /\ tx'[p].seen = {x \in row : x.token = tx[p].in.token /\ x.kind = k} /\ tx'[p].todo = {}
        /\ \A q \in Patches : q # p => tx'[q] = tx[q]
    BY <1>1 DEF DeleteStarts, TypeOK, TxType
  <1>3. Open(p) /\ Own(p) /\ \A x \in tx[p].ins : tok[x.token].st = "there"
    BY <1>1 DEF ListInv, RowsRooted, Open
  <1>4. Own(p)'
    BY <1>1, <1>2, <1>3 DEF Own
  <1>5. Clearing(p) => Clearing(p)'
    BY <1>1, <1>2 DEF Clearing, Reached
  <1>6. Filling(p) => Filling(p)'
    BY <1>1, <1>2, <1>3 DEF Filling
  <1>7. QED
    BY <1>1, <1>2, <1>3, <1>4, <1>5, <1>6, ListAdvances

\* The DELETE ends: what it saw is removed, and the list is to be inserted.
LEMMA ListDeleted ==
  ASSUME TypeOK, ListInv, NEW p \in Patches, DeleteEnds(p)
  PROVE  ListInv'
  <1>1. tx[p] \in TxType /\ tx[p].pc = "wait" /\ UNCHANGED <<tok, sess, row, said>>
    BY HasTx DEF DeleteEnds, registry
  <1>2. /\ tx'[p].pc = "run" /\ tx'[p].in = tx[p].in /\ tx'[p].kind = tx[p].kind
        /\ tx'[p].ins = tx[p].ins /\ tx'[p].done = tx[p].done
        /\ tx'[p].seen = {} /\ tx'[p].todo = List(p)
        /\ tx'[p].del = tx[p].del \cup (tx[p].seen \cap row)
        /\ \A q \in Patches : q # p => tx'[q] = tx[q]
    BY <1>1 DEF DeleteEnds, TypeOK, TxType
  <1>3. Open(p) /\ Own(p) /\ \A x \in tx[p].ins : tok[x.token].st = "there"
    BY <1>1 DEF ListInv, RowsRooted, Open
  <1>4. Own(p)'
    BY <1>1, <1>2, <1>3 DEF Own, List
  <1>5. Clearing(p) => Clearing(p)'
    BY <1>1, <1>2 DEF Clearing, Reached
  <1>6. ASSUME Filling(p) PROVE Filling(p)'
    <2> SUFFICES ASSUME NEW k \in tx[p].done, NEW g \in Apps \cup Sessions
                 PROVE  (\E x \in tx[p].ins : x.kind = k /\ x.of = g)
                          <=> g \in UNION tx[p].in[k] /\ (k = tx[p].kind => g \notin List(p))
      BY <1>2 DEF Filling
    <2>1. CASE k = tx[p].kind
      BY <1>1, <1>3, <2>1 DEF Own, List
    <2>2. CASE k # tx[p].kind
      BY <1>1, <1>6, <2>2 DEF Filling
    <2>3. QED
      BY <2>1, <2>2
  <1>7. QED
    BY <1>1, <1>2, <1>3, <1>4, <1>5, <1>6, ListAdvances

\* A transaction fails.
LEMMA ListFails ==
  ASSUME TypeOK, ListInv, NEW p \in Patches, Open(p), Ended(p, "failed"),
         UNCHANGED <<tok, sess, row, said>>
  PROVE  ListInv'
  <1>1. tx[p] \in TxType
    BY HasTx DEF Open
  <1>2. /\ tx'[p].pc = "failed" /\ tx'[p].in = tx[p].in
        /\ \A q \in Patches : q # p => tx'[q] = tx[q]
    BY <1>1 DEF Ended, TypeOK, TxType
  <1>3. ~Open(p)'
    BY <1>2 DEF Open
  <1>4. QED
    BY <1>2, <1>3, ListAdvances

\* A grant of the list is inserted; where the token is locked it is never there
\* already, since all are removed.
LEMMA ListInserts ==
  ASSUME TypeOK, ListInv, NEW p \in Patches, NEW g \in Apps \cup Sessions, InsertGrant(p, g)
  PROVE  ListInv'
  <1> DEFINE Same(x) == x.token = tx[p].in.token /\ x.kind = tx[p].kind /\ x.of = g
             new == [token |-> tx[p].in.token, kind |-> tx[p].kind, of |-> g, by |-> p]
             now == IF \E x \in row \ tx[p].del : Same(x) THEN tx[p].ins ELSE tx[p].ins \cup {new}
             inserted == /\ tx' = [tx EXCEPT ![p] = [tx[p] EXCEPT !.todo = tx[p].todo \ {g}, !.ins = now]]
                         /\ tok[tx[p].in.token].st = "there"
                         /\ tx[p].kind = "session" => sess[g] = "there"
  <1>1. /\ tx[p] \in TxType /\ tx[p].pc = "run" /\ g \in tx[p].todo
        /\ UNCHANGED <<tok, sess, row, said>>
    BY HasTx DEF InsertGrant, registry
  <1>2. Open(p) /\ Own(p) /\ \A x \in tx[p].ins : tok[x.token].st = "there"
    BY <1>1 DEF ListInv, RowsRooted, Open
  <1>3. tx[p].kind \in tx[p].done
    BY <1>1, <1>2 DEF Own
  <1>4. Clearing(p) => now = tx[p].ins \cup {new}
    BY <1>1, <1>3 DEF Clearing, Reached
  <1>5. now \subseteq tx[p].ins \cup {new}
    OBVIOUS
  <1>6. Ended(p, "failed") \/ inserted
    BY DEF InsertGrant
  <1> HIDE DEF now
  <1>7. CASE Ended(p, "failed")
    BY <1>1, <1>2, <1>7, ListFails
  <1>8. CASE inserted
    <2>1. /\ tx'[p].pc = "run" /\ tx'[p].in = tx[p].in /\ tx'[p].kind = tx[p].kind
          /\ tx'[p].ins = now /\ tx'[p].done = tx[p].done /\ tx'[p].del = tx[p].del
          /\ tx'[p].seen = tx[p].seen /\ tx'[p].todo = tx[p].todo \ {g}
          /\ \A q \in Patches : q # p => tx'[q] = tx[q]
      BY <1>1, <1>8 DEF TypeOK, TxType
    <2>2. /\ \A x \in tx[p].ins \cup {new} : x.token = tx[p].in.token /\ x.kind \in tx[p].done
          /\ \A x \in tx[p].ins \cup {new} : x.kind = "session" => sess[x.of] = "there"
          /\ \A x \in tx[p].ins \cup {new} : tok[x.token].st = "there"
      BY <1>2, <1>3, <1>8 DEF Own
    <2>3. Own(p)'
      BY <1>1, <1>2, <1>5, <2>1, <2>2 DEF Own
    <2>4. \A x \in tx'[p].ins : tok[x.token].st = "there"
      BY <1>5, <2>1, <2>2
    <2>5. Clearing(p) => Clearing(p)'
      BY <1>1, <2>1 DEF Clearing, Reached
    <2>6. ASSUME Clearing(p), Filling(p) PROVE Filling(p)'
      <3> SUFFICES ASSUME NEW k \in tx[p].done, NEW h \in Apps \cup Sessions
                   PROVE  (\E x \in tx[p].ins \cup {new} : x.kind = k /\ x.of = h)
                            <=> /\ h \in UNION tx[p].in[k]
                                /\ k = tx[p].kind => h \notin tx[p].todo \ {g}
        BY <1>4, <2>1, <2>6 DEF Filling
      <3>1. (\E x \in tx[p].ins : x.kind = k /\ x.of = h)
              <=> h \in UNION tx[p].in[k] /\ (k = tx[p].kind => h \notin tx[p].todo)
        BY <1>1, <2>6 DEF Filling
      <3>2. g \in UNION tx[p].in[tx[p].kind]
        BY <1>1, <1>2 DEF Own
      <3>3. new.kind = tx[p].kind /\ new.of = g
        OBVIOUS
      <3> HIDE DEF new
      <3>4. QED
        BY <3>1, <3>2, <3>3
    <2>7. QED
      BY <1>1, <1>2, <2>1, <2>3, <2>4, <2>5, <2>6, ListAdvances
  <1>9. QED
    BY <1>6, <1>7, <1>8

\* A commit: the grants of the lists of a locked token are those inserted, and
\* nothing else of the token or of another changes.
LEMMA ListCommits ==
  ASSUME TypeOK, ListInv, NEW p \in Patches, Commit(p)
  PROVE  ListInv'
  <1> DEFINE in == tx[p].in
             u  == in.token
  <1>1. /\ tx[p] \in TxType /\ tx[p].pc = "run" /\ tx[p].todo = {} /\ tx[p].done = Given(in)
        /\ in \in PatchInputs /\ u \in Tokens
    BY HasTx, PatchToken DEF Commit
  <1>2. Open(p) /\ Own(p) /\ (Locked(u) => Clearing(p) /\ Filling(p))
    BY <1>1 DEF ListInv, Open
  <1>3. /\ tx'[p].pc = "committed" /\ tx'[p].in = in
        /\ ~Open(p)' /\ \A q \in Patches : q # p => tx'[q] = tx[q]
        /\ row' = (row \ tx[p].del) \cup tx[p].ins /\ sess' = sess
    BY <1>1 DEF Commit, Ended, TypeOK, TxType, Open
  <1>4. \A t \in Tokens : tok'[t].st = tok[t].st
    BY <1>1 DEF Commit, TypeOK
  <1>5. \A t \in Tokens, k \in Kinds :
           said'[t][k] = IF t = u /\ k \in Given(in) THEN UNION in[k] ELSE said[t][k]
    BY <1>1 DEF Commit, TypeOK
  <1>6. \A x \in row \cup row' : x \in RowType /\ x.token \in Tokens /\ x.of \in Apps \cup Sessions
    BY <1>1, <1>3 DEF TypeOK, TxType, RowType
  <1>7. ASSUME NEW x, ~(x.token = u /\ x.kind \in Given(in)) PROVE x \in row' <=> x \in row
    BY <1>1, <1>2, <1>3, <1>7 DEF Own
  <1>8. ASSUME Clearing(p), NEW x, x.token = u, x.kind \in Given(in)
        PROVE  x \in row' <=> x \in tx[p].ins
    BY <1>1, <1>3, <1>8 DEF Clearing, Reached
  <1>9. ASSUME Filling(p), NEW k \in Given(in), NEW g \in Apps \cup Sessions
        PROVE  (\E x \in tx[p].ins : x.kind = k /\ x.of = g) <=> g \in UNION in[k]
    BY <1>1, <1>9 DEF Filling
  <1>10. ASSUME Filling(p), "session" \in Given(in), NEW s \in UNION in["session"]
         PROVE  s \in Sessions /\ sess[s] = "there"
    <2>1. s \in Sessions
      BY <1>1, PatchLists DEF Kinds, Targets
    <2>2. \E x \in tx[p].ins : x.kind = "session" /\ x.of = s
      BY <1>9, <1>10, <2>1
    <2>3. QED
      BY <1>2, <2>1, <2>2 DEF Own
  <1>11. \A k \in Kinds : UNION in[k] \subseteq Targets(k) /\ Targets(k) \subseteq Apps \cup Sessions
    BY <1>1, PatchLists, TargetsOf
  <1>12. \A t : Locked(t)' <=> Locked(t)
    BY <1>1, <1>3, LockedStays
  <1>13. ASSUME NEW q \in Patches, Open(q)'
         PROVE  q # p /\ tx'[q] = tx[q] /\ Open(q) /\ tx[q].in.token \in Tokens /\ tx[q] \in TxType
    BY <1>3, <1>13, PatchToken, HasTx DEF Open
  <1> HIDE DEF in, u
  <1>14. RowsRooted'
    <2>1. \A x \in row' : tok[x.token].st = "there"
      BY <1>2, <1>3 DEF ListInv, RowsRooted
    <2>2. ASSUME NEW q \in Patches, Open(q)', NEW x \in tx[q].ins
          PROVE  x.token \in Tokens /\ tok[x.token].st = "there"
      BY <1>13, <2>2 DEF ListInv, RowsRooted, TxType, RowType
    <2>3. QED
      BY <1>4, <1>6, <1>13, <2>1, <2>2 DEF RowsRooted
  <1>15. Alone'
    <2> SUFFICES ASSUME NEW o \in Patches, Open(o)', Locked(tx[o].in.token)'
                 PROVE  /\ tok'[tx'[o].in.token].st = "there"
                        /\ \A q \in Patches : Open(q)' /\ tx'[q].in.token = tx'[o].in.token => q = o
      BY DEF Alone
    <2>1. QED
      BY <1>4, <1>12, <1>13 DEF ListInv, Alone
  <1>16. SaidKnown'
    <2> SUFFICES ASSUME NEW t \in Tokens, NEW k \in Kinds
                 PROVE  /\ said'[t][k] \subseteq Targets(k)
                        /\ k = "session" /\ Locked(t) => \A s \in said'[t][k] : sess[s] # "none"
      BY <1>3, <1>12 DEF SaidKnown
    <2>1. CASE t = u /\ k \in Given(in)
      <3>1. said'[t][k] = UNION in[k] /\ UNION in[k] \subseteq Targets(k)
        BY <1>5, <1>11, <2>1
      <3>2. k = "session" /\ Locked(u) => \A s \in UNION in[k] : sess[s] # "none"
        BY <1>2, <1>10, <2>1
      <3>3. QED
        BY <2>1, <3>1, <3>2
    <2>2. CASE ~(t = u /\ k \in Given(in))
      BY <1>5, <2>2 DEF ListInv, SaidKnown
    <2>3. QED
      BY <2>1, <2>2
  <1>17. LockedListsReplace'
    <2> SUFFICES ASSUME NEW t \in Tokens, NEW k \in Kinds, tok[t].st = "there", Locked(t)
                 PROVE  {g \in Targets(k) : Granted(t, k, g)'}
                          = {g \in said'[t][k] : k = "session" => sess[g] = "there"}
      BY <1>3, <1>4, <1>12 DEF LockedListsReplace, AsSaid
    <2>1. CASE t = u /\ k \in Given(in)
      <3>1. Clearing(p) /\ Filling(p)
        BY <1>2, <2>1
      <3>2. \A g \in Targets(k) : Granted(t, k, g)' <=> g \in UNION in[k]
        <4> SUFFICES ASSUME NEW g \in Targets(k) PROVE Granted(t, k, g)' <=> g \in UNION in[k]
          OBVIOUS
        <4>1. Granted(t, k, g)' <=> \E x \in tx[p].ins : x.kind = k /\ x.of = g
          BY <1>2, <1>3, <1>8, <2>1, <3>1 DEF Granted, Own, u, in
        <4>2. QED
          BY <1>9, <1>11, <2>1, <3>1, <4>1
      <3>3. said'[t][k] = UNION in[k]
        BY <1>5, <2>1
      <3>4. QED
        BY <1>10, <1>11, <2>1, <3>1, <3>2, <3>3
    <2>2. CASE ~(t = u /\ k \in Given(in))
      <3>1. \A g : Granted(t, k, g)' <=> Granted(t, k, g)
        BY <1>7, <2>2 DEF Granted
      <3>2. said'[t][k] = said[t][k]
        BY <1>5, <2>2
      <3>3. QED
        BY <3>1, <3>2 DEF ListInv, LockedListsReplace, AsSaid
    <2>3. QED
      BY <2>1, <2>2
  <1>18. ASSUME NEW q \in Patches, Open(q)' PROVE Own(q)'
    BY <1>3, <1>13, <1>18 DEF ListInv, Own
  <1>19. ASSUME NEW q \in Patches, Open(q)', Locked(tx[q].in.token)'
         PROVE  Clearing(q)' /\ Filling(q)'
    <2>1. q # p /\ tx'[q] = tx[q] /\ Open(q) /\ Locked(tx[q].in.token) /\ Clearing(q) /\ Filling(q)
      BY <1>12, <1>13, <1>19 DEF ListInv
    <2>2. tx[q].in.token # u
      BY <1>2, <2>1 DEF ListInv, Alone, u, in
    <2>3. Filling(q)'
      BY <2>1 DEF Filling
    <2>4. Clearing(q)'
      <3> SUFFICES ASSUME NEW x \in row', x.token = tx[q].in.token PROVE Reached(q, x)'
        BY <2>1 DEF Clearing
      <3>1. x \in row
        BY <1>7, <2>2
      <3>2. QED
        BY <2>1, <3>1 DEF Clearing, Reached
    <2>5. QED
      BY <2>3, <2>4
  <1>20. QED
    BY <1>14, <1>15, <1>16, <1>17, <1>18, <1>19 DEF ListInv

\* A token is deleted only when no transaction has its row or one of its grants.
LEMMA ListTokenGoes ==
  ASSUME TypeOK, ListInv, NEW t \in Tokens, DeleteToken(t)
  PROVE  ListInv'
  <1>1. /\ tok' = [tok EXCEPT ![t].st = "gone"] /\ row' = {x \in row : x.token # t}
        /\ UNCHANGED <<sess, tx, said>>
    BY DEF DeleteToken
  <1>2. \A u \in Tokens : tok'[u].st = IF u = t THEN "gone" ELSE tok[u].st
    BY <1>1 DEF TypeOK
  <1>3. ASSUME NEW p \in Patches, Open(p)
        PROVE  /\ tx[p].in.token \in Tokens
               /\ Locked(tx[p].in.token) => tx[p].in.token # t
               /\ \A x \in tx[p].ins : x.token \in Tokens /\ x.token # t
    <2>1. tx[p] \in TxType /\ tx[p].in.token \in Tokens
      BY <1>3, PatchToken, HasTx DEF Open
    <2>2. Locked(tx[p].in.token) => tx[p].in.token # t
      BY <1>3, LocksAll DEF DeleteToken
    <2>3. \A x \in tx[p].ins : x.token \in Tokens /\ x.token # t
      BY <1>3, <2>1 DEF DeleteToken, Touched, TxType, RowType
    <2>4. QED
      BY <2>1, <2>2, <2>3
  <1>4. \A x \in row : x.token \in Tokens
    BY DEF TypeOK, RowType
  <1>5. \A u : Locked(u)' <=> Locked(u)
    BY <1>1, LockedStays
  <1>6. \A p \in Patches : Open(p)' <=> Open(p)
    BY <1>1 DEF Open
  <1>7. RowsRooted'
    BY <1>1, <1>2, <1>3, <1>4, <1>6 DEF ListInv, RowsRooted
  <1>8. Alone'
    BY <1>1, <1>2, <1>3, <1>5, <1>6 DEF ListInv, Alone
  <1>9. SaidKnown'
    BY <1>1, <1>5 DEF ListInv, SaidKnown
  <1>10. LockedListsReplace'
    <2> SUFFICES ASSUME NEW u \in Tokens, NEW k \in Kinds, tok'[u].st = "there", Locked(u)
                 PROVE  {g \in Targets(k) : Granted(u, k, g)'}
                          = {g \in said[u][k] : k = "session" => sess[g] = "there"}
      BY <1>1, <1>5 DEF LockedListsReplace, AsSaid
    <2>1. u # t /\ tok[u].st = "there"
      BY <1>2
    <2>2. \A g : Granted(u, k, g)' <=> Granted(u, k, g)
      BY <1>1, <2>1 DEF Granted
    <2>3. QED
      BY <2>1, <2>2 DEF ListInv, LockedListsReplace, AsSaid
  <1>11. \A p \in Patches : Open(p)' => Own(p)'
    BY <1>1, <1>6 DEF ListInv, Own
  <1>12. \A p \in Patches : Open(p)' /\ Locked(tx[p].in.token) => Clearing(p)' /\ Filling(p)'
    BY <1>1, <1>6 DEF ListInv, Clearing, Filling, Reached
  <1>13. QED
    BY <1>1, <1>5, <1>7, <1>8, <1>9, <1>10, <1>11, <1>12 DEF ListInv

\* A token is created with the grants it is said to have.
LEMMA ListTokenComes ==
  ASSUME TypeOK, ListInv, NEW t \in Tokens, NEW in \in CreateInputs, CreateToken(t, in)
  PROVE  ListInv'
  <1> DEFINE new == UNION {{[token |-> t, kind |-> k, of |-> g, by |-> "create"] : g \in in[k]} : k \in Kinds}
  <1>1. /\ tok[t].st = "none" /\ row' = row \cup new /\ UNCHANGED <<sess, tx>>
        /\ \A s \in in["session"] : sess[s] = "there"
    BY DEF CreateToken
  <1>2. \A u \in Tokens : tok'[u].st = IF u = t THEN "there" ELSE tok[u].st
    BY DEF CreateToken, TypeOK
  <1>3. \A u \in Tokens, k \in Kinds : said'[u][k] = IF u = t THEN in[k] ELSE said[u][k]
    BY DEF CreateToken, TypeOK
  <1>4. \A x \in new : x.token = t /\ x.kind \in Kinds /\ x.of \in in[x.kind]
    OBVIOUS
  <1>5. ASSUME NEW k \in Kinds, NEW g \in in[k]
        PROVE  \E x \in new : x.token = t /\ x.kind = k /\ x.of = g
    <2> DEFINE x == [token |-> t, kind |-> k, of |-> g, by |-> "create"]
    <2>1. x \in new
      OBVIOUS
    <2>2. QED
      BY <2>1
  <1> HIDE DEF new
  <1>6. \A x \in row : x.token # t /\ x.token \in Tokens
    BY <1>1 DEF ListInv, RowsRooted, TypeOK, RowType
  <1>7. ASSUME NEW p \in Patches, Open(p)
        PROVE  /\ tx[p].in.token \in Tokens /\ \A x \in tx[p].ins : x.token \in Tokens
               /\ Locked(tx[p].in.token) => tx[p].in.token # t
    <2>1. tx[p] \in TxType /\ tx[p].in.token \in Tokens
      BY <1>7, PatchToken, HasTx DEF Open
    <2>2. Locked(tx[p].in.token) => tx[p].in.token # t
      BY <1>1, <1>7 DEF ListInv, Alone
    <2>3. QED
      BY <2>1, <2>2 DEF TxType, RowType
  <1>8. \A k \in Kinds : in[k] \subseteq Targets(k)
    BY CreateLists
  <1>9. \A u : Locked(u)' <=> Locked(u)
    BY <1>1, LockedStays
  <1>10. \A p \in Patches : Open(p)' <=> Open(p)
    BY <1>1 DEF Open
  <1>11. RowsRooted'
    BY <1>1, <1>2, <1>4, <1>6, <1>7, <1>10 DEF ListInv, RowsRooted
  <1>12. Alone'
    BY <1>1, <1>2, <1>7, <1>9, <1>10 DEF ListInv, Alone
  <1>13. SaidKnown'
    BY <1>1, <1>3, <1>8, <1>9 DEF ListInv, SaidKnown
  <1>14. LockedListsReplace'
    <2> SUFFICES ASSUME NEW u \in Tokens, NEW k \in Kinds, tok'[u].st = "there", Locked(u)
                 PROVE  {g \in Targets(k) : Granted(u, k, g)'}
                          = {g \in said'[u][k] : k = "session" => sess[g] = "there"}
      BY <1>1, <1>9 DEF LockedListsReplace, AsSaid
    <2>1. CASE u = t
      <3>1. \A g : Granted(u, k, g)' <=> g \in in[k]
        BY <1>1, <1>4, <1>5, <1>6, <2>1 DEF Granted
      <3>2. QED
        BY <1>1, <1>3, <1>8, <2>1, <3>1
    <2>2. CASE u # t
      <3>1. \A g : Granted(u, k, g)' <=> Granted(u, k, g)
        BY <1>1, <1>4, <2>2 DEF Granted
      <3>2. QED
        BY <1>2, <1>3, <2>2, <3>1 DEF ListInv, LockedListsReplace, AsSaid
    <2>3. QED
      BY <2>1, <2>2
  <1>15. \A p \in Patches : Open(p)' => Own(p)'
    BY <1>1, <1>10 DEF ListInv, Own
  <1>16. ASSUME NEW p \in Patches, Open(p), Locked(tx[p].in.token) PROVE Clearing(p)' /\ Filling(p)'
    <2>1. Filling(p)'
      BY <1>1, <1>16 DEF ListInv, Filling
    <2>2. Clearing(p)'
      BY <1>1, <1>4, <1>7, <1>16 DEF ListInv, Clearing, Reached
    <2>3. QED
      BY <2>1, <2>2
  <1>17. QED
    BY <1>1, <1>9, <1>10, <1>11, <1>12, <1>13, <1>14, <1>15, <1>16 DEF ListInv

\* A session is created that no list of a locked token names.
LEMMA ListSessionComes ==
  ASSUME TypeOK, ListInv, NEW s \in Sessions, CreateSession(s)
  PROVE  ListInv'
  <1>1. sess[s] = "none" /\ UNCHANGED <<tok, row, tx, said>>
        /\ \A u \in Sessions : sess'[u] = IF u = s THEN "there" ELSE sess[u]
    BY DEF CreateSession, TypeOK
  <1>2. /\ \A u : Locked(u)' <=> Locked(u)
        /\ \A p \in Patches : Open(p)' <=> Open(p)
    BY <1>1, LockedStays DEF Open
  <1>3. RowsRooted' /\ Alone'
    BY <1>1, <1>2 DEF ListInv, RowsRooted, Alone
  <1>4. \A t \in Tokens, k \in Kinds : k = "session" /\ Locked(t) =>
           \A u \in said[t][k] : u \in Sessions /\ u # s
    BY <1>1 DEF ListInv, SaidKnown, Targets
  <1>5. SaidKnown'
    BY <1>1, <1>2, <1>4 DEF ListInv, SaidKnown
  <1>6. LockedListsReplace'
    <2>1. \A t, k, g : Granted(t, k, g)' <=> Granted(t, k, g)
      BY <1>1 DEF Granted
    <2>2. \A t \in Tokens, k \in Kinds : Locked(t) =>
             \A g \in said[t][k] : k = "session" => sess'[g] = sess[g]
      BY <1>1, <1>4
    <2>3. QED
      BY <1>1, <1>2, <2>1, <2>2 DEF ListInv, LockedListsReplace, AsSaid
  <1>7. ASSUME NEW p \in Patches, Open(p) PROVE Own(p)'
    <2>1. tx[p] \in TxType
      BY <1>7, HasTx DEF Open
    <2>2. \A x \in tx[p].ins : x.kind = "session" => x.of \in Sessions
      BY <2>1 DEF TxType, RowType, Targets
    <2>3. QED
      BY <1>1, <1>7, <2>2 DEF ListInv, Own
  <1>8. \A p \in Patches : Open(p) /\ Locked(tx[p].in.token) => Clearing(p)' /\ Filling(p)'
    BY <1>1 DEF ListInv, Clearing, Filling, Reached
  <1>9. QED
    BY <1>1, <1>2, <1>3, <1>5, <1>6, <1>7, <1>8 DEF ListInv

\* A session is deleted with its grants, none of which a transaction has touched.
LEMMA ListSessionGoes ==
  ASSUME TypeOK, ListInv, NEW r \in Requests, DeleteSession(r)
  PROVE  ListInv'
  <1> DEFINE s == req[r].in.s
  <1>1. /\ UNCHANGED <<tok, tx, said>> /\ row' = {x \in row : ~IsGrantOf(x, s)}
        /\ \A u \in Sessions : sess'[u] = IF u = s THEN "gone" ELSE sess[u]
    BY HasReq DEF DeleteSession, TypeOK
  <1>2. \A p \in Patches : Open(p) => \A x \in tx[p].ins : ~IsGrantOf(x, s)
    BY DEF DeleteSession, Touched
  <1> HIDE DEF s
  <1>3. /\ \A u : Locked(u)' <=> Locked(u)
        /\ \A p \in Patches : Open(p)' <=> Open(p)
    BY <1>1, LockedStays DEF Open
  <1>4. RowsRooted' /\ Alone'
    BY <1>1, <1>3 DEF ListInv, RowsRooted, Alone
  <1>5. \A t \in Tokens, k \in Kinds : k = "session" => said[t][k] \subseteq Sessions
    BY DEF ListInv, SaidKnown, Targets
  <1>6. SaidKnown'
    BY <1>1, <1>3, <1>5 DEF ListInv, SaidKnown
  <1>7. LockedListsReplace'
    <2> SUFFICES ASSUME NEW t \in Tokens, NEW k \in Kinds, tok[t].st = "there", Locked(t)
                 PROVE  {g \in Targets(k) : Granted(t, k, g)'}
                          = {g \in said[t][k] : k = "session" => sess'[g] = "there"}
      BY <1>1, <1>3 DEF LockedListsReplace, AsSaid
    <2>1. \A g : Granted(t, k, g)' <=> Granted(t, k, g) /\ ~(k = "session" /\ g = s)
      BY <1>1 DEF Granted, IsGrantOf
    <2>2. {g \in Targets(k) : Granted(t, k, g)}
            = {g \in said[t][k] : k = "session" => sess[g] = "there"}
      BY DEF ListInv, LockedListsReplace, AsSaid
    <2>3. CASE k = "session"
      BY <1>1, <1>5, <2>1, <2>2, <2>3
    <2>4. CASE k # "session"
      BY <2>1, <2>2, <2>4
    <2>5. QED
      BY <2>3, <2>4
  <1>8. ASSUME NEW p \in Patches, Open(p) PROVE Own(p)'
    <2>1. tx[p] \in TxType
      BY <1>8, HasTx DEF Open
    <2>2. \A x \in tx[p].ins : x.kind = "session" => x.of \in Sessions /\ x.of # s
      BY <1>2, <1>8, <2>1 DEF TxType, RowType, Targets, IsGrantOf
    <2>3. QED
      BY <1>1, <1>8, <2>2 DEF ListInv, Own
  <1>9. \A p \in Patches : Open(p) /\ Locked(tx[p].in.token) => Clearing(p)' /\ Filling(p)'
    BY <1>1 DEF ListInv, Clearing, Filling, Reached
  <1>10. QED
    BY <1>1, <1>3, <1>4, <1>6, <1>7, <1>8, <1>9 DEF ListInv

\* Every step keeps ListInv.
LEMMA ListNext ==
  ASSUME TypeOK, ListInv, [Next]_vars
  PROVE  ListInv'
  <1>1. CASE UNCHANGED vars
    BY <1>1, ListRests DEF vars
  <1>2. ASSUME NEW r \in Requests, Gateway(r) PROVE ListInv'
    <2>1. CASE DeleteSession(r)
      BY <2>1, ListSessionGoes
    <2>2. CASE ~DeleteSession(r)
      <3>1. UNCHANGED <<tok, sess, row, tx, said>>
        BY <1>2, <2>2 DEF Gateway, Arrive, ResolveToken, CheckScope, ResolveSession, RequestFails, Call,
                          CreateSubscription, DeleteSubscription, registry
      <3>2. QED
        BY <3>1, ListRests
    <2>3. QED
      BY <2>1, <2>2
  <1>3. ASSUME NEW p \in Patches, Patching(p) PROVE ListInv'
    <2>1. CASE Rollback(p)
      BY <2>1, ListFails DEF Rollback, registry
    <2>2. QED
      BY <1>3, <2>1, ListBegins, ListDeletes, ListDeleted, ListInserts, ListCommits DEF Patching
  <1>4. CASE Lifecycle
    BY <1>4, ListTokenGoes, ListTokenComes, ListSessionComes DEF Lifecycle
  <1>5. QED
    BY <1>1, <1>2, <1>3, <1>4 DEF Next

\* LockedListsReplace: where the patches of a token have a column besides their lists,
\* the UPDATE's row lock puts them in order, and the grants are those of the last one
\* committed (UpdateToken, patchTokenGrants).
THEOREM ListsStayReplaced == Spec => []LockedListsReplace
  <1>1. Init => ListInv
    BY DEF Init, ListInv, RowsRooted, Alone, SaidKnown, LockedListsReplace, AsSaid, Granted, Open, NoTx
  <1>2. TypeOK /\ ListInv /\ [Next]_vars => ListInv'
    BY ListNext
  <1>3. ListInv => LockedListsReplace
    BY DEF ListInv
  <1>4. QED
    BY <1>1, <1>2, <1>3, TypeCorrect, PTL DEF Spec

=============================================================================
