---------------------------- MODULE BoundsProofs ----------------------------
(***************************************************************************)
(* How often a delivery is posted, how many copies of it a receiver        *)
(* accepts, and that a lost update is counted: AttemptsBounded,            *)
(* CopiesBounded and LossCounted of Delivery, each for every set of        *)
(* workers, subscriptions and updates.                                     *)
(***************************************************************************)
EXTENDS DeliveryProofs

\* No more faults are spent than there are.
InBudget == \A k \in Kinds : budget[k] <= MaxFaults[k]

\* What a tick and its claim leave alone.
LEMMA TickFrame ==
  ASSUME NEW w \in Workers, Tick(w) \/ ClaimDeliveries(w) \/ ClaimFails(w)
  PROVE  /\ UNCHANGED <<registry, session, outbox, flush, outside>>
         /\ UNCHANGED budget \/ Spend("error")
  <1>1. CASE Tick(w)
    BY <1>1 DEF Tick
  <1>2. CASE ClaimDeliveries(w)
    BY <1>2, Zenon DEF ClaimDeliveries
  <1>3. CASE ClaimFails(w)
    BY <1>3 DEF ClaimFails
  <1>4. QED
    BY <1>1, <1>2, <1>3

\* Faults spent are a natural number, and a step spends more or none.
LEMMA SpentGrows ==
  ASSUME Types, InBudget, [Next]_vars, NEW k \in Kinds
  PROVE  /\ Spent(k) \in Nat /\ Spent(k)' \in Nat /\ Spent(k)' >= Spent(k)
         /\ budget'[k] <= MaxFaults[k]
  <1> USE DEF registry, session, worker, outside
  <1>1. UNCHANGED budget \/ \E f \in Kinds : Spend(f)
    <2>1. CASE Subscriptions
      BY <2>1, KindsDef DEF Subscriptions, CreateSubscription, DeleteSubscription, ChangeToken,
            LoadFilters, LoadFails, ApplySnapshot
    <2>2. CASE Queue
      BY <2>2, KindsDef DEF Queue, UpdateArrives, WriteOutbox, WriteFails, FlushTake, AddDropped,
            AddDroppedFails
    <2>3. CASE Dispatch
      <3>1. ASSUME NEW w \in Workers, Tick(w) \/ ClaimDeliveries(w) \/ ClaimFails(w)
            PROVE  UNCHANGED budget \/ \E f \in Kinds : Spend(f)
        BY <3>1, KindsDef, TickFrame, ZenonT(30)
      <3>2. ASSUME NEW w \in Workers, NEW r \in rounds[w],
                   RoundStep(w, r) \/ MarkFails(w, r) \/ FailFails(w, r)
            PROVE  UNCHANGED budget \/ \E f \in Kinds : Spend(f)
        BY <3>2, KindsDef DEF RoundStep, Post, MarkDelivered, FailDelivery, RoundDone, MarkFails, FailFails
      <3>3. ASSUME NEW s \in Subs, NEW u \in Updates, BackoffOver(s, u) \/ PurgeDelivery(s, u)
            PROVE  UNCHANGED budget
        BY <3>3 DEF BackoffOver, PurgeDelivery
      <3>4. QED
        BY <2>3, <3>1, <3>2, <3>3 DEF Dispatch
    <2>4. CASE Move
      BY <2>4, KindsDef DEF Move, Release, Crash, Acquire
    <2>5. QED
      BY <2>1, <2>2, <2>3, <2>4 DEF Next, vars
  <1>2. budget \in [Kinds -> Nat] /\ budget' \in [Kinds -> Nat] /\ MaxFaults \in [Kinds -> Nat]
    BY DeliveryAssumption DEF Types, TypeOK
  <1>3. budget'[k] <= budget[k]
    BY <1>1, <1>2 DEF Spend
  <1>4. QED
    BY <1>2, <1>3 DEF Spent, InBudget

\* Spending a fault is what Spent counts.
LEMMA SpentOne ==
  ASSUME Types, NEW k \in Kinds, Spend(k)
  PROVE  Spent(k)' = Spent(k) + 1
  <1>1. budget \in [Kinds -> Nat] /\ MaxFaults \in [Kinds -> Nat]
    BY DeliveryAssumption DEF Types, TypeOK
  <1>2. QED
    BY <1>1 DEF Spend, Spent

-----------------------------------------------------------------------------
(* AttemptsBounded, while the session stays put.                           *)

\* Round r has posted u and not yet recorded the outcome.
Posting(r, u) == r.now = u /\ r.at # "post"

\* No post of u to s is unrecorded.
Idle(s, u) == \A w \in Workers : \A r \in rounds[w] : ~(r.sub = s /\ Posting(r, u))

\* What was never queued for a subscription was never posted to it.
Unposted == \A s \in Subs, u \in Updates : row[s][u].st = "none" => tried[s][u] = 0

\* What a round remembers of a row's attempts is what the row counts, below the
\* limit, and covers its posts but for the one under way and those whose record
\* failed.
RoundBudget ==
    \A w \in Workers : \A r \in rounds[w] : \A u \in r.todo :
       /\ r.att[u] < MaxAttempts
       /\ tried[r.sub][u] <= r.att[u] + Spent("error") + (IF Posting(r, u) THEN 1 ELSE 0)
       /\ row[r.sub][u].st = "pending" => row[r.sub][u].att = r.att[u]

\* The same of a pending row that nobody is posting.
RowBudget ==
    \A s \in Subs, u \in Updates : row[s][u].st = "pending" =>
       /\ row[s][u].att < MaxAttempts
       /\ Idle(s, u) => tried[s][u] <= row[s][u].att + Spent("error")

\* The inductive invariant behind AttemptsBounded, together with Stays.
Attempts == InBudget /\ Unposted /\ RoundBudget /\ RowBudget /\ AttemptsBounded

\* Around a step of a session that stays put.
Around == Stays /\ Attempts /\ Types /\ [Next]_vars

\* The numbers the budgets compare.
LEMMA Counts ==
  ASSUME Types
  PROVE  /\ \A s \in Subs, u \in Updates :
              /\ tried[s][u] \in Nat /\ tried'[s][u] \in Nat
              /\ row[s][u].att \in Nat /\ row'[s][u].att \in Nat
         /\ \A w \in Workers : \A r \in rounds[w] : \A u \in Updates : r.att[u] \in Nat
         /\ MaxAttempts \in Nat \ {0}
  <1>1. /\ row \in [Subs -> [Updates -> Rows]] /\ row' \in [Subs -> [Updates -> Rows]]
        /\ tried \in [Subs -> [Updates -> Nat]] /\ tried' \in [Subs -> [Updates -> Nat]]
    BY DEF Types, TypeOK
  <1>2. \A s \in Subs, u \in Updates : row[s][u].att \in Nat /\ row'[s][u].att \in Nat
    BY <1>1, AttemptsNat
  <1>3. \A w \in Workers : \A r \in rounds[w] : \A u \in Updates : r.att[u] \in Nat
    <2> SUFFICES ASSUME NEW w \in Workers, NEW r \in rounds[w], NEW u \in Updates
                 PROVE  r.att[u] \in Nat
      OBVIOUS
    <2>1. r \in Rounds
      BY RoundTypes DEF Types
    <2>2. QED
      BY <2>1 DEF Rounds
  <1>4. QED
    BY <1>1, <1>2, <1>3, DeliveryAssumption

\* Every step keeps the faults within their budget, and the bound while no post is
\* made.
LEMMA NoPost ==
  ASSUME Around, UNCHANGED tried
  PROVE  InBudget' /\ AttemptsBounded'
  <1>1. \A k \in Kinds : Spent(k) \in Nat /\ Spent(k)' \in Nat /\ Spent(k)' >= Spent(k) /\ budget'[k] <= MaxFaults[k]
    BY SpentGrows DEF Around, Attempts
  <1>2. QED
    BY <1>1, Counts, KindsDef DEF InBudget, AttemptsBounded, Around, Attempts

\* A step that posts nothing and touches no round: rows keep their attempts, are
\* queued, or go.
RowsKeep ==
    /\ UNCHANGED <<rounds, tried>>
    /\ \A s \in Subs, u \in Updates :
         \/ row'[s][u].st = row[s][u].st /\ row'[s][u].att = row[s][u].att
         \/ row[s][u].st = "none" /\ row'[s][u].st = "none"
         \/ row[s][u].st = "none" /\ row'[s][u].st = "pending" /\ row'[s][u].att = 0
         \/ row'[s][u].st \notin {"none", "pending"}

\* Such a step keeps the budgets.
LEMMA RowsKeepAttempts ==
  ASSUME Around, RowsKeep
  PROVE  Attempts'
  <1>1. Spent("error") \in Nat /\ Spent("error")' \in Nat /\ Spent("error")' >= Spent("error")
    BY SpentGrows, KindsDef DEF Around, Attempts
  <1>2. InBudget' /\ AttemptsBounded'
    BY NoPost DEF RowsKeep
  <1>3. Unposted'
    BY DEF Around, Attempts, Unposted, RowsKeep
  <1>4. RoundBudget'
    <2> SUFFICES ASSUME NEW w \in Workers, NEW r \in rounds[w], NEW u \in r.todo
                 PROVE  /\ r.att[u] < MaxAttempts
                        /\ tried[r.sub][u] <= r.att[u] + Spent("error")' + (IF Posting(r, u) THEN 1 ELSE 0)
                        /\ row'[r.sub][u].st = "pending" => row'[r.sub][u].att = r.att[u]
      BY DEF RoundBudget, RowsKeep, Posting
    <2>1. r.sub \in Subs /\ u \in Updates
      BY RoundTypes DEF Around, Types
    <2>2. row[r.sub][u].st \in {"pending", "gone"}
      BY DEF Around, Stays, StillOpen
    <2>3. /\ r.att[u] < MaxAttempts
          /\ tried[r.sub][u] <= r.att[u] + Spent("error") + (IF Posting(r, u) THEN 1 ELSE 0)
          /\ row[r.sub][u].st = "pending" => row[r.sub][u].att = r.att[u]
      BY DEF Around, Attempts, RoundBudget
    <2>4. row'[r.sub][u].st = "pending" => row'[r.sub][u].att = r.att[u]
      BY <2>1, <2>2, <2>3 DEF RowsKeep
    <2>5. r.att[u] \in Nat /\ tried[r.sub][u] \in Nat
      BY <2>1, Counts DEF Around
    <2>6. QED
      BY <1>1, <2>3, <2>4, <2>5
  <1>5. RowBudget'
    <2> SUFFICES ASSUME NEW s \in Subs, NEW u \in Updates, row'[s][u].st = "pending"
                 PROVE  /\ row'[s][u].att < MaxAttempts
                        /\ Idle(s, u) => tried[s][u] <= row'[s][u].att + Spent("error")'
      BY DEF RowBudget, RowsKeep, Idle, Posting
    <2>1. /\ tried[s][u] \in Nat /\ row[s][u].att \in Nat /\ row'[s][u].att \in Nat
          /\ MaxAttempts \in Nat \ {0}
      BY Counts DEF Around
    <2>2. CASE row[s][u].st = "none"
      <3>1. tried[s][u] = 0
        BY <2>2 DEF Around, Attempts, Unposted
      <3>2. row'[s][u].att = 0
        BY <2>2 DEF RowsKeep
      <3>3. QED
        BY <3>1, <3>2, <1>1, <2>1
    <2>3. CASE row[s][u].st # "none"
      <3>1. row[s][u].st = "pending" /\ row'[s][u].att = row[s][u].att
        BY <2>3 DEF RowsKeep
      <3>2. /\ row[s][u].att < MaxAttempts
            /\ Idle(s, u) => tried[s][u] <= row[s][u].att + Spent("error")
        BY <3>1 DEF Around, Attempts, RowBudget
      <3>3. QED
        BY <3>1, <3>2, <1>1, <2>1
    <2>4. QED
      BY <2>2, <2>3
  <1>6. QED
    BY <1>2, <1>3, <1>4, <1>5 DEF Attempts

\* The rounds a claim starts: not in flight, not yet posting, with the attempts of
\* their pending rows in mind.
Fresh(w, r) ==
    /\ owner = w /\ r.sub \in Subs \ inflight[w] /\ r.at = "post"
    /\ \A u \in r.todo : u \in Updates /\ row[r.sub][u].st = "pending" /\ r.att[u] = row[r.sub][u].att

\* ClaimDeliveries starts such rounds and ends none, one for a subscription.
LEMMA ClaimFresh ==
  ASSUME TickSees, TypeOK, NEW w \in Workers, ClaimDeliveries(w)
  PROVE  \E C \in SUBSET Subs :
           /\ rounds[w] \subseteq rounds'[w]
           /\ \A v \in Workers : v # w => rounds'[v] = rounds[v] /\ inflight'[v] = inflight[v]
           /\ \A r \in rounds'[w] : r \in rounds[w] \/ (Fresh(w, r) /\ r.sub \in C)
           /\ \A r, q \in rounds'[w] \ rounds[w] : r.sub = q.sub => r = q
           /\ inflight'[w] = inflight[w] \cup C
  <1>1. PICK C \in SUBSET Claimable(w) :
          /\ \E share \in [C -> SUBSET Updates] :
               /\ \A s \in C : share[s] \in Shares(w, s)
               /\ rounds' = [rounds EXCEPT ![w] = @ \cup {StartRound(s, share[s]) : s \in C}]
          /\ inflight' = [inflight EXCEPT ![w] = @ \cup C]
    BY DEF ClaimDeliveries
  <1>2. PICK share \in [C -> SUBSET Updates] :
          /\ \A s \in C : share[s] \in Shares(w, s)
          /\ rounds' = [rounds EXCEPT ![w] = @ \cup {StartRound(s, share[s]) : s \in C}]
    BY <1>1
  <1>3. busy[w].tick
    BY DEF ClaimDeliveries
  <1>4. /\ rounds'[w] = rounds[w] \cup {StartRound(s, share[s]) : s \in C}
        /\ inflight'[w] = inflight[w] \cup C
        /\ \A v \in Workers : v # w => rounds'[v] = rounds[v] /\ inflight'[v] = inflight[v]
    BY <1>1, <1>2 DEF TypeOK
  <1>5. \A s \in C : /\ StartRound(s, share[s]).sub = s
                     /\ StartRound(s, share[s]).todo = share[s]
                     /\ StartRound(s, share[s]).at = "post"
                     /\ \A u \in Updates : StartRound(s, share[s]).att[u] = row[s][u].att
    BY DEF StartRound
  <1>6. \A s \in C : Fresh(w, StartRound(s, share[s]))
    <2> SUFFICES ASSUME NEW s \in C PROVE Fresh(w, StartRound(s, share[s]))
      OBVIOUS
    <2>1. s \in Subs /\ Due(w, s) # {} /\ share[s] \subseteq Due(w, s)
      BY <1>2 DEF Claimable, Shares
    <2>2. /\ owner = w /\ s \notin busy[w].subs
          /\ \A u \in Due(w, s) : u \in Updates /\ row[s][u].st = "pending"
      BY <2>1 DEF Due
    <2>3. s \notin inflight[w]
      BY <2>2, <1>3 DEF TickSees
    <2>4. QED
      BY <2>1, <2>2, <2>3, <1>5 DEF Fresh
  <1>7. C \subseteq Subs
    BY DEF Claimable
  <1>8. \A r \in rounds'[w] : r \in rounds[w] \/ \E s \in C : r = StartRound(s, share[s])
    BY <1>4
  <1>9. \A r \in rounds'[w] : r \in rounds[w] \/ (Fresh(w, r) /\ r.sub \in C)
    BY <1>5, <1>6, <1>8
  <1>10. \A r, q \in rounds'[w] \ rounds[w] : r.sub = q.sub => r = q
    BY <1>5, <1>8
  <1>11. QED
    BY <1>4, <1>7, <1>9, <1>10

\* A claim keeps the budgets: a subscription that is not in flight is idle.
LEMMA ClaimAttempts ==
  ASSUME Around, NEW w \in Workers, ClaimDeliveries(w)
  PROVE  Attempts'
  <1>1. UNCHANGED <<row, tried, owner, budget>>
    BY DEF ClaimDeliveries, registry, outside
  <1>2. /\ \A v \in Workers : \A r \in rounds'[v] : r \in rounds[v] \/ (v = w /\ Fresh(w, r))
        /\ \A v \in Workers : rounds[v] \subseteq rounds'[v]
    BY ClaimFresh DEF Around, Stays, Types
  <1>3. InBudget' /\ AttemptsBounded'
    BY <1>1, NoPost
  <1>4. Unposted'
    BY <1>1 DEF Around, Attempts, Unposted
  <1>5. RowBudget'
    BY <1>1, <1>2 DEF Around, Attempts, RowBudget, Idle, Posting, Spent
  <1>6. RoundBudget'
    <2> SUFFICES ASSUME NEW v \in Workers, NEW r \in rounds'[v], NEW u \in r.todo
                 PROVE  /\ r.att[u] < MaxAttempts
                        /\ tried[r.sub][u] <= r.att[u] + Spent("error") + (IF Posting(r, u) THEN 1 ELSE 0)
                        /\ row[r.sub][u].st = "pending" => row[r.sub][u].att = r.att[u]
      BY <1>1 DEF RoundBudget, Posting, Spent
    <2>1. CASE r \in rounds[v]
      BY <2>1 DEF Around, Attempts, RoundBudget
    <2>2. CASE v = w /\ Fresh(w, r)
      <3>1. /\ r.sub \in Subs /\ u \in Updates /\ row[r.sub][u].st = "pending"
            /\ r.att[u] = row[r.sub][u].att /\ ~Posting(r, u)
        BY <2>2 DEF Fresh, Posting
      <3>2. Idle(r.sub, u)
        BY <2>2 DEF Idle, Fresh, Around, Stays, OwnerOnly, OneRound
      <3>3. row[r.sub][u].att < MaxAttempts /\ tried[r.sub][u] <= row[r.sub][u].att + Spent("error")
        BY <3>1, <3>2 DEF Around, Attempts, RowBudget
      <3>4. Spent("error") \in Nat /\ row[r.sub][u].att \in Nat
        BY <3>1, Counts, SpentGrows, KindsDef DEF Around, Attempts
      <3>5. QED
        BY <3>1, <3>3, <3>4
    <2>3. QED
      BY <2>1, <2>2, <1>2
  <1>7. QED
    BY <1>3, <1>4, <1>5, <1>6 DEF Attempts

\* A post keeps the budgets: it is the one the round may still make.
LEMMA PostAttempts ==
  ASSUME Around, NEW w \in Workers, NEW r \in rounds[w], NEW x \in Updates, NEW ok \in BOOLEAN,
         Post(w, r, x, ok)
  PROVE  Attempts'
  <1> DEFINE q == [r EXCEPT !.now = x, !.at = IF ok THEN "mark" ELSE "fail"]
  <1>0. r \in Rounds /\ r.sub \in Subs /\ r.at = "post" /\ x \in r.todo /\ r.todo \subseteq Updates
    BY RoundTypes DEF Around, Types, Post, InRound
  <1>1. q.sub = r.sub /\ q.now = x /\ q.att = r.att /\ q.todo = r.todo /\ q.at # "post"
    BY <1>0 DEF Rounds
  <1>2. /\ rounds' = [rounds EXCEPT ![w] = (@ \ {r}) \cup {q}]
        /\ UNCHANGED <<row, budget>>
        /\ tried' = [tried EXCEPT ![r.sub][x] = @ + 1]
    BY DEF Post, Become, registry
  <1> HIDE DEF q
  <1>3. \A s \in Subs, u \in Updates :
          tried'[s][u] = IF s = r.sub /\ u = x THEN tried[s][u] + 1 ELSE tried[s][u]
    <2>1. tried \in [Subs -> [Updates -> Nat]]
      BY DEF Around, Types, TypeOK
    <2>2. tried' = [tried EXCEPT ![r.sub] = [tried[r.sub] EXCEPT ![x] = tried[r.sub][x] + 1]]
      BY <1>2
    <2>3. QED
      BY <2>1, <2>2, <1>0
  <1>4. /\ Spent("error") \in Nat /\ Spent("error")' = Spent("error")
        /\ InBudget'
    BY <1>2, SpentGrows, KindsDef DEF Around, Attempts, Spent, InBudget
  <1>5. /\ \A v \in Workers : \A p \in rounds'[v] : (p \in rounds[v] /\ p.sub # r.sub) \/ p = q
        /\ q \in rounds'[w]
        /\ \A v \in Workers : \A p \in rounds[v] : p \in rounds'[v] \/ p = r
    <2>1. rounds'[w] = (rounds[w] \ {r}) \cup {q} /\ \A v \in Workers : v # w => rounds'[v] = rounds[v]
      BY <1>2 DEF Around, Types, TypeOK
    <2>2. \A v \in Workers : v # w => rounds[v] = {}
      BY DEF Around, Stays, OwnerOnly
    <2>3. \A p \in rounds[w] : p.sub = r.sub => p = r
      BY DEF Around, Stays, OneRound
    <2>4. QED
      BY <2>1, <2>2, <2>3
  <1>6. /\ r.att[x] < MaxAttempts /\ tried[r.sub][x] <= r.att[x] + Spent("error")
        /\ r.att[x] \in Nat /\ tried[r.sub][x] \in Nat /\ MaxAttempts \in Nat
    <2>1. ~Posting(r, x) /\ x \in r.todo
      BY <1>0 DEF Posting
    <2>2. /\ r.att[x] < MaxAttempts
          /\ tried[r.sub][x] <= r.att[x] + Spent("error") + (IF Posting(r, x) THEN 1 ELSE 0)
      BY <2>1 DEF Around, Attempts, RoundBudget
    <2>3. r.att[x] \in Nat /\ tried[r.sub][x] \in Nat /\ MaxAttempts \in Nat
      BY <1>0, Counts DEF Around
    <2>4. QED
      BY <2>1, <2>2, <2>3, <1>4
  <1>7. AttemptsBounded'
    BY <1>3, <1>4, <1>6, Counts DEF AttemptsBounded, Around, Attempts
  <1>8. Unposted'
    <2>1. row[r.sub][x].st # "none"
      BY <1>0 DEF Around, Stays, StillOpen
    <2>2. QED
      BY <1>2, <1>3, <2>1 DEF Around, Attempts, Unposted
  <1>9. RoundBudget'
    <2> SUFFICES ASSUME NEW v \in Workers, NEW p \in rounds'[v], NEW u \in p.todo
                 PROVE  /\ p.att[u] < MaxAttempts
                        /\ tried'[p.sub][u] <= p.att[u] + Spent("error") + (IF Posting(p, u) THEN 1 ELSE 0)
                        /\ row[p.sub][u].st = "pending" => row[p.sub][u].att = p.att[u]
      BY <1>2, <1>4 DEF RoundBudget, Posting
    <2>1. CASE p \in rounds[v] /\ p.sub # r.sub
      <3>1. p.sub \in Subs /\ u \in Updates
        BY <2>1, RoundTypes DEF Around, Types
      <3>2. tried'[p.sub][u] = tried[p.sub][u]
        BY <3>1, <2>1, <1>3
      <3>3. QED
        BY <3>2, <2>1 DEF Around, Attempts, RoundBudget
    <2>2. CASE p = q
      <3>1. u \in Updates /\ u \in r.todo
        BY <2>2, <1>0, <1>1
      <3>2. /\ r.att[u] < MaxAttempts
            /\ tried[r.sub][u] <= r.att[u] + Spent("error") + (IF Posting(r, u) THEN 1 ELSE 0)
            /\ row[r.sub][u].st = "pending" => row[r.sub][u].att = r.att[u]
        BY <3>1 DEF Around, Attempts, RoundBudget
      <3>3. ~Posting(r, u) /\ r.att[u] \in Nat /\ tried[r.sub][u] \in Nat
        BY <1>0, <3>1, Counts DEF Posting, Around
      <3>4. p.att[u] = r.att[u] /\ p.sub = r.sub /\ (u = x => Posting(p, u))
        BY <2>2, <1>1 DEF Posting
      <3>5. CASE u = x
        <4>1. tried'[r.sub][u] = tried[r.sub][u] + 1
          BY <3>5, <1>0, <1>3
        <4>2. QED
          BY <4>1, <3>2, <3>3, <3>4, <3>5, <1>4
      <3>6. CASE u # x
        <4>1. tried'[r.sub][u] = tried[r.sub][u]
          BY <3>6, <3>1, <1>0, <1>3
        <4>2. QED
          BY <4>1, <3>2, <3>3, <3>4, <1>4
      <3>7. QED
        BY <3>5, <3>6
    <2>3. QED
      BY <2>1, <2>2, <1>5
  <1>10. RowBudget'
    <2> SUFFICES ASSUME NEW s \in Subs, NEW u \in Updates, row[s][u].st = "pending"
                 PROVE  /\ row[s][u].att < MaxAttempts
                        /\ Idle(s, u)' => tried'[s][u] <= row[s][u].att + Spent("error")
      BY <1>2, <1>4 DEF RowBudget
    <2>1. /\ row[s][u].att < MaxAttempts
          /\ Idle(s, u) => tried[s][u] <= row[s][u].att + Spent("error")
      BY DEF Around, Attempts, RowBudget
    <2>2. CASE s = r.sub /\ u = x
      BY <2>1, <2>2, <1>1, <1>5 DEF Idle, Posting
    <2>3. CASE ~(s = r.sub /\ u = x)
      <3>1. Idle(s, u)' => Idle(s, u)
        BY <1>0, <1>5 DEF Idle, Posting
      <3>2. tried'[s][u] = tried[s][u]
        BY <2>3, <1>3
      <3>3. QED
        BY <2>1, <3>1, <3>2
    <2>4. QED
      BY <2>2, <2>3
  <1>11. QED
    BY <1>4, <1>7, <1>8, <1>9, <1>10 DEF Attempts

\* A round passes over the row it posted, or ends; of the rows it judges at most
\* that one, and a row that stays pending has counted the attempt or was charged to
\* a fault.
Passes(w, r) ==
    /\ UNCHANGED tried
    /\ \A v \in Workers : \A p \in rounds'[v] :
         \/ p \in rounds[v] /\ ~(v = w /\ p = r)
         \/ /\ v = w /\ p.sub = r.sub /\ p.at = "post" /\ p.att = r.att
            /\ p.todo \subseteq r.todo \ {r.now}
    /\ \A v \in Workers : \A p \in rounds[v] : p \in rounds'[v] \/ (v = w /\ p = r)
    /\ \A s \in Subs, u \in Updates :
         \/ row'[s][u] = row[s][u] /\ (r.sub # s \/ r.now # u \/ r.at = "post" \/ Spent("error")' = Spent("error") + 1)
         \/ /\ s = r.sub /\ u = r.now
            /\ row'[s][u].st \notin {"none", "pending"}
         \/ /\ s = r.sub /\ u = r.now /\ row[s][u].st = "pending" /\ row'[s][u].st = "pending"
            /\ r.at # "post" /\ r.att[u] + 1 < MaxAttempts /\ row'[s][u].att = row[s][u].att + 1

\* Passing over a row keeps the budgets.
LEMMA PassAttempts ==
  ASSUME Around, NEW w \in Workers, NEW r \in rounds[w], Passes(w, r)
  PROVE  Attempts'
  <1>1. InBudget' /\ AttemptsBounded' /\ tried' = tried
    BY NoPost DEF Passes
  <1>2. Spent("error") \in Nat /\ Spent("error")' \in Nat /\ Spent("error")' >= Spent("error")
    BY SpentGrows, KindsDef DEF Around, Attempts
  <1>3. /\ r.sub \in Subs /\ r.todo \subseteq Updates /\ (r.at # "post" => r.now \in r.todo)
        /\ \A u \in r.todo : row[r.sub][u].st \in {"pending", "gone"}
    BY RoundTypes DEF Around, Types, Stays, StillOpen
  <1>4. \A v \in Workers : \A p \in rounds[v] : p.sub = r.sub => v = w /\ p = r
    BY DEF Around, Stays, OneRound, OwnerOnly
  <1>5. Unposted'
    BY <1>1 DEF Around, Attempts, Unposted, Passes
  <1>6. RoundBudget'
    <2> SUFFICES ASSUME NEW v \in Workers, NEW p \in rounds'[v], NEW u \in p.todo
                 PROVE  /\ p.att[u] < MaxAttempts
                        /\ tried[p.sub][u] <= p.att[u] + Spent("error")' + (IF Posting(p, u) THEN 1 ELSE 0)
                        /\ row'[p.sub][u].st = "pending" => row'[p.sub][u].att = p.att[u]
      BY <1>1 DEF RoundBudget, Posting
    <2>1. CASE p \in rounds[v] /\ ~(v = w /\ p = r)
      <3>1. p.sub \in Subs /\ u \in Updates /\ p.sub # r.sub
        BY <2>1, <1>4, RoundTypes DEF Around, Types
      <3>2. /\ p.att[u] < MaxAttempts
            /\ tried[p.sub][u] <= p.att[u] + Spent("error") + (IF Posting(p, u) THEN 1 ELSE 0)
            /\ row[p.sub][u].st = "pending" => row[p.sub][u].att = p.att[u]
        BY <2>1 DEF Around, Attempts, RoundBudget
      <3>3. row'[p.sub][u] = row[p.sub][u]
        BY <3>1 DEF Passes
      <3>4. p.att[u] \in Nat /\ tried[p.sub][u] \in Nat
        BY <2>1, <3>1, Counts DEF Around
      <3>5. QED
        BY <3>2, <3>3, <3>4, <1>2
    <2>2. CASE /\ v = w /\ p.sub = r.sub /\ p.at = "post" /\ p.att = r.att
               /\ p.todo \subseteq r.todo \ {r.now}
      <3>1. u \in Updates /\ u \in r.todo /\ u # r.now
        BY <2>2, <1>3
      <3>2. /\ r.att[u] < MaxAttempts
            /\ tried[r.sub][u] <= r.att[u] + Spent("error") + (IF Posting(r, u) THEN 1 ELSE 0)
            /\ row[r.sub][u].st = "pending" => row[r.sub][u].att = r.att[u]
        BY <3>1 DEF Around, Attempts, RoundBudget
      <3>3. row'[r.sub][u] = row[r.sub][u] /\ ~Posting(r, u) /\ ~Posting(p, u)
        BY <3>1, <2>2, <1>3 DEF Passes, Posting
      <3>4. r.att[u] \in Nat /\ tried[r.sub][u] \in Nat
        BY <3>1, <1>3, Counts DEF Around
      <3>5. QED
        BY <2>2, <3>2, <3>3, <3>4, <1>2
    <2>3. QED
      BY <2>1, <2>2 DEF Passes
  <1>7. RowBudget'
    <2> SUFFICES ASSUME NEW s \in Subs, NEW u \in Updates, row'[s][u].st = "pending"
                 PROVE  /\ row'[s][u].att < MaxAttempts
                        /\ Idle(s, u)' => tried[s][u] <= row'[s][u].att + Spent("error")'
      BY <1>1 DEF RowBudget
    <2>0. /\ tried[s][u] \in Nat /\ row[s][u].att \in Nat /\ row'[s][u].att \in Nat
          /\ MaxAttempts \in Nat /\ r.att[u] \in Nat
      BY Counts DEF Around
    <2>1. CASE s = r.sub /\ Posting(r, u)
      <3>1. u \in r.todo /\ u = r.now /\ r.at # "post"
        BY <2>1, <1>3 DEF Posting
      <3>2. /\ r.att[u] < MaxAttempts /\ tried[s][u] <= r.att[u] + Spent("error") + 1
            /\ row[s][u].st = "pending" => row[s][u].att = r.att[u]
        BY <2>1, <3>1 DEF Around, Attempts, RoundBudget
      <3>3. \/ row'[s][u] = row[s][u] /\ Spent("error")' = Spent("error") + 1
            \/ row[s][u].st = "pending" /\ r.att[u] + 1 < MaxAttempts /\ row'[s][u].att = row[s][u].att + 1
        BY <2>1, <3>1 DEF Passes
      <3>4. QED
        BY <3>2, <3>3, <2>0, <1>2
    <2>2. CASE ~(s = r.sub /\ Posting(r, u))
      <3>1. Idle(s, u)' => Idle(s, u)
        BY <2>2 DEF Idle, Posting, Passes
      <3>2. row'[s][u] = row[s][u]
        BY <2>2 DEF Posting, Passes
      <3>3. row[s][u].st = "pending" /\ row'[s][u].att = row[s][u].att
        BY <3>2
      <3>4. QED
        BY <3>1, <3>3, <2>0, <1>2 DEF Around, Attempts, RowBudget
    <2>3. QED
      BY <2>1, <2>2
  <1>8. QED
    BY <1>1, <1>5, <1>6, <1>7 DEF Attempts

\* Every step of a round but a post passes over a row, or ends the round.
LEMMA RoundPasses ==
  ASSUME Stays, Types, NEW w \in Workers, NEW r \in rounds[w],
         \/ MarkDelivered(w, r) \/ FailDelivery(w, r) \/ RoundDone(w, r)
         \/ MarkFails(w, r) \/ FailFails(w, r)
  PROVE  Passes(w, r)
  <1> USE DEF registry, session, outside
  <1> DEFINE q == [r EXCEPT !.todo = @ \ {r.now}, !.now = None, !.at = "post"]
             new == IF r.at = "mark"
                    THEN [st |-> "delivered", att |-> row[r.sub][r.now].att + 1, due |-> row[r.sub][r.now].due]
                    ELSE Failed(r, row[r.sub][r.now])
  <1>0. /\ r \in Rounds /\ r.sub \in Subs /\ r.todo \subseteq Updates
        /\ r.at # "post" => r.now \in r.todo /\ r.now \in Updates
        /\ \A u \in r.todo : row[r.sub][u].st \in {"pending", "gone"}
    BY RoundTypes DEF Types, Stays, StillOpen
  <1>1. q.sub = r.sub /\ q.todo = r.todo \ {r.now} /\ q.at = "post" /\ q.att = r.att
    BY <1>0 DEF Rounds
  <1>2. \/ rounds' = [rounds EXCEPT ![w] = (@ \ {r}) \cup {q}]
        \/ rounds' = [rounds EXCEPT ![w] = @ \ {r}]
    BY DEF MarkDelivered, FailDelivery, RoundDone, MarkFails, FailFails, NextRow, Become, EndRound
  <1> HIDE DEF q
  <1>3. /\ \A v \in Workers : \A p \in rounds'[v] :
             \/ p \in rounds[v] /\ ~(v = w /\ p = r)
             \/ /\ v = w /\ p.sub = r.sub /\ p.at = "post" /\ p.att = r.att
                /\ p.todo \subseteq r.todo \ {r.now}
        /\ \A v \in Workers : \A p \in rounds[v] : p \in rounds'[v] \/ (v = w /\ p = r)
    <2>1. \/ rounds'[w] = (rounds[w] \ {r}) \cup {q}
          \/ rounds'[w] = rounds[w] \ {r}
      BY <1>2 DEF Types, TypeOK
    <2>2. \A v \in Workers : v # w => rounds'[v] = rounds[v]
      BY <1>2 DEF Types, TypeOK
    <2>3. QED
      BY <2>1, <2>2, <1>1
  <1>4. tried' = tried
    BY DEF MarkDelivered, FailDelivery, RoundDone, MarkFails, FailFails
  <1>5. CASE RoundDone(w, r)
    BY <1>3, <1>4, <1>5 DEF Passes, RoundDone, InRound
  <1>6. CASE MarkFails(w, r) \/ FailFails(w, r)
    <2>1. row' = row /\ Spent("error")' = Spent("error") + 1
      BY <1>6, SpentOne, KindsDef DEF MarkFails, FailFails
    <2>2. QED
      BY <1>3, <1>4, <2>1 DEF Passes
  <1>7. CASE MarkDelivered(w, r) \/ FailDelivery(w, r)
    <2>1. /\ r.at \in {"mark", "fail"}
          /\ row' = [row EXCEPT ![r.sub][r.now] = IF Exists(r.sub, r.now) THEN new ELSE @]
      BY <1>7 DEF MarkDelivered, FailDelivery, SetRow, InRound
    <2>2. r.now \in r.todo /\ r.now \in Updates /\ row[r.sub][r.now] \in Rows
          /\ row[r.sub][r.now].st \in {"pending", "gone"}
      BY <2>1, <1>0 DEF Types, TypeOK
    <2>3. row[r.sub][r.now].st = "pending" =>
            \/ new.st \in {"delivered", "failed"}
            \/ new.st = "pending" /\ new.att = row[r.sub][r.now].att + 1 /\ r.att[r.now] + 1 < MaxAttempts
      <3>1. r.att[r.now] \in Nat /\ MaxAttempts \in Nat
        BY <2>2, Counts
      <3>2. QED
        BY <3>1, <2>1 DEF Failed, GiveUp
    <2> HIDE DEF new
    <2>4. /\ row'[r.sub][r.now] = IF Exists(r.sub, r.now) THEN new ELSE row[r.sub][r.now]
          /\ \A s \in Subs, u \in Updates : ~(s = r.sub /\ u = r.now) => row'[s][u] = row[s][u]
      <3> DEFINE v == IF Exists(r.sub, r.now) THEN new ELSE row[r.sub][r.now]
                 f == [row[r.sub] EXCEPT ![r.now] = v]
      <3>1. row \in [Subs -> [Updates -> Rows]] /\ r.sub \in Subs
        BY <1>0 DEF Types, TypeOK
      <3>2. row' = [row EXCEPT ![r.sub] = f]
        BY <2>1
      <3> HIDE DEF v
      <3>3. f[r.now] = v /\ \A u \in Updates : u # r.now => f[u] = row[r.sub][u]
        BY <3>1, <2>2
      <3> HIDE DEF f
      <3>4. row'[r.sub] = f /\ \A s \in Subs : s # r.sub => row'[s] = row[s]
        BY <3>1, <3>2
      <3>5. row'[r.sub][r.now] = v
        BY <3>3, <3>4
      <3>6. QED
        BY <3>3, <3>4, <3>5 DEF v
    <2>5. \/ row'[r.sub][r.now].st \notin {"none", "pending"}
          \/ /\ row[r.sub][r.now].st = "pending" /\ row'[r.sub][r.now].st = "pending" /\ r.at # "post"
             /\ r.att[r.now] + 1 < MaxAttempts /\ row'[r.sub][r.now].att = row[r.sub][r.now].att + 1
      <3>1. CASE row[r.sub][r.now].st = "gone"
        BY <3>1, <2>4 DEF Exists
      <3>2. CASE row[r.sub][r.now].st = "pending"
        BY <3>2, <2>1, <2>3, <2>4 DEF Exists
      <3>3. QED
        BY <2>2, <3>1, <3>2
    <2>6. \A s \in Subs, u \in Updates :
            \/ row'[s][u] = row[s][u] /\ (r.sub # s \/ r.now # u)
            \/ s = r.sub /\ u = r.now
      BY <2>4
    <2>7. QED
      BY <1>3, <1>4, <2>5, <2>6 DEF Passes
  <1>8. QED
    BY <1>5, <1>6, <1>7

\* A step outside the rounds either leaves every row its attempts, or is a claim.
LEMMA OtherRowsKeep ==
  ASSUME Stays, Types, Next,
         ~\E w \in Workers : ClaimDeliveries(w),
         ~\E w \in Workers : \E r \in rounds[w] : RoundStep(w, r) \/ MarkFails(w, r) \/ FailFails(w, r)
  PROVE  RowsKeep
  <1> USE DEF registry, session, worker, outside
  <1>0. [NoRow EXCEPT !.st = "gone"].st = "gone" /\ NoRow.st = "none"
    BY BlankRow
  <1>1. CASE UNCHANGED <<rounds, tried, row>>
    BY <1>1 DEF RowsKeep
  <1>2. ASSUME NEW s \in Subs, DeleteSubscription(s) PROVE RowsKeep
    <2>1. \A z \in Subs, u \in Updates :
            \/ row'[z][u] = row[z][u]
            \/ row[z][u].st = "none" /\ row'[z][u] = NoRow
            \/ row'[z][u] = [NoRow EXCEPT !.st = "gone"]
      BY <1>2 DEF DeleteSubscription, Types, TypeOK
    <2>2. QED
      BY <1>0, <1>2, <2>1 DEF DeleteSubscription, RowsKeep
  <1>3. ASSUME NEW s \in Subs, NEW u \in Updates, BackoffOver(s, u) PROVE RowsKeep
    <2>1. row[s][u] \in Rows /\ row' = [row EXCEPT ![s][u] = [row[s][u] EXCEPT !.due = TRUE]]
      BY <1>3 DEF BackoffOver, Types, TypeOK
    <2>2. /\ [row[s][u] EXCEPT !.due = TRUE].st = row[s][u].st
          /\ [row[s][u] EXCEPT !.due = TRUE].att = row[s][u].att
      BY <2>1, DueRow
    <2>3. \A z \in Subs, v \in Updates : row'[z][v].st = row[z][v].st /\ row'[z][v].att = row[z][v].att
      <3> DEFINE d == [row[s][u] EXCEPT !.due = TRUE]
      <3>1. row \in [Subs -> [Updates -> Rows]]
        BY DEF Types, TypeOK
      <3>2. row' = [row EXCEPT ![s] = [row[s] EXCEPT ![u] = d]]
        BY <2>1
      <3> HIDE DEF d
      <3>3. \A z \in Subs, v \in Updates : row'[z][v] = IF z = s /\ v = u THEN d ELSE row[z][v]
        BY <3>1, <3>2
      <3>4. QED
        BY <2>2, <3>3 DEF d
    <2>4. QED
      BY <1>3, <2>3 DEF BackoffOver, RowsKeep
  <1>4. ASSUME NEW s \in Subs, NEW u \in Updates, PurgeDelivery(s, u) PROVE RowsKeep
    <2>1. \A z \in Subs, v \in Updates :
            row'[z][v] = row[z][v] \/ row'[z][v] = [NoRow EXCEPT !.st = "gone"]
      BY <1>4 DEF PurgeDelivery, Types, TypeOK
    <2>2. QED
      BY <1>0, <1>4, <2>1 DEF PurgeDelivery, RowsKeep
  <1>5. ASSUME NEW w \in Workers, WriteOutbox(w) PROVE RowsKeep
    <2> DEFINE x == Head(outbox[w]).u
    <2>1. PICK ids : Enqueue(ids, x)
      BY <1>5 DEF WriteOutbox
    <2>2. outbox[w] \in Seq(Items) /\ outbox[w] # <<>>
      BY <1>5 DEF WriteOutbox, Types, TypeOK
    <2>3. 1 \in 1..Len(outbox[w]) /\ x = outbox[w][1].u
      BY <2>2
    <2>4. \A s \in Subs : row[s][x].st = "none"
      BY <2>3 DEF Stays, Waiting
    <2> HIDE DEF x
    <2>5. \A s \in Subs, u \in Updates :
            \/ row'[s][u] = row[s][u]
            \/ u = x /\ row'[s][u] = [st |-> "pending", att |-> 0, due |-> TRUE]
      BY <2>1 DEF Enqueue, Types, TypeOK
    <2>6. QED
      BY <1>5, <2>4, <2>5 DEF WriteOutbox, RowsKeep
  <1>6. CASE Subscriptions
    BY <1>1, <1>2, <1>6
       DEF Subscriptions, CreateSubscription, ChangeToken, LoadFilters, LoadFails, ApplySnapshot
  <1>7. CASE Queue
    BY <1>1, <1>5, <1>7 DEF Queue, UpdateArrives, WriteFails, FlushTake, AddDropped, AddDroppedFails
  <1>8. CASE Dispatch
    <2>1. ASSUME NEW w \in Workers, Tick(w) \/ ClaimFails(w) PROVE RowsKeep
      BY <1>1, <2>1 DEF Tick, ClaimFails
    <2>2. QED
      BY <1>3, <1>4, <1>8, <2>1 DEF Dispatch
  <1>9. CASE Move
    BY <1>9, NoMove, KindsDef, DeliveryAssumption DEF Move, Release, Crash, Acquire, Stays, Settled, Types
  <1>10. QED
    BY <1>6, <1>7, <1>8, <1>9 DEF Next

\* Every step keeps the budgets.
LEMMA AttemptsStep ==
  ASSUME Stays, Attempts, Types, [Next]_vars
  PROVE  Attempts'
  <1>0. Around
    BY DEF Around
  <1>1. CASE UNCHANGED vars
    BY <1>0, <1>1, RowsKeepAttempts DEF vars, RowsKeep
  <1>2. ASSUME NEW w \in Workers, ClaimDeliveries(w) PROVE Attempts'
    BY <1>0, <1>2, ClaimAttempts
  <1>3. ASSUME NEW w \in Workers, NEW r \in rounds[w],
               RoundStep(w, r) \/ MarkFails(w, r) \/ FailFails(w, r)
        PROVE  Attempts'
    <2>1. ASSUME NEW u \in Updates, NEW ok \in BOOLEAN, Post(w, r, u, ok) PROVE Attempts'
      BY <1>0, <2>1, PostAttempts
    <2>2. ASSUME \/ MarkDelivered(w, r) \/ FailDelivery(w, r) \/ RoundDone(w, r)
                 \/ MarkFails(w, r) \/ FailFails(w, r)
          PROVE  Attempts'
      BY <1>0, <2>2, RoundPasses, PassAttempts
    <2>3. QED
      BY <1>3, <2>1, <2>2 DEF RoundStep
  <1>4. QED
    BY <1>0, <1>1, <1>2, <1>3, OtherRowsKeep, RowsKeepAttempts

\* AttemptsBounded: while the session stays put a row is posted at most
\* maxDeliveryAttempts times, but for the outcomes the registry failed to record;
\* nothing is assumed of the receivers, the tokens or the queue (deliverOne,
\* runOutboxDispatcher, ClaimDeliveries, FailDelivery).
THEOREM AttemptsStayBounded ==
  ASSUME StaysPut
  PROVE  Spec => []AttemptsBounded
  <1>1. Init => Stays
    BY StaysInit
  <1>2. Init => Attempts
    <2> SUFFICES ASSUME Init PROVE Attempts
      OBVIOUS
    <2>1. /\ \A s \in Subs, u \in Updates : row[s][u].st = "none" /\ tried[s][u] = 0
          /\ \A w \in Workers : rounds[w] = {}
      BY DEF Init, NoRow
    <2>2. \A k \in Kinds : budget[k] = MaxFaults[k] /\ MaxFaults[k] \in Nat
      BY DeliveryAssumption DEF Init
    <2>3. Spent("error") = 0
      BY <2>2, KindsDef DEF Spent
    <2>4. InBudget /\ AttemptsBounded
      BY <2>1, <2>2, <2>3, DeliveryAssumption DEF InBudget, AttemptsBounded
    <2>5. QED
      BY <2>1, <2>4 DEF Attempts, Unposted, RoundBudget, RowBudget
  <1>3. TypeOK /\ TypeOK' /\ Stays /\ [Next]_vars => Stays'
    BY StaysStep DEF Types
  <1>4. TypeOK /\ TypeOK' /\ Stays /\ Attempts /\ [Next]_vars => Attempts'
    BY AttemptsStep DEF Types
  <1>5. Attempts => AttemptsBounded
    BY DEF Attempts
  <1>6. QED
    BY <1>1, <1>2, <1>3, <1>4, <1>5, TypeCorrect, PTL DEF Spec

-----------------------------------------------------------------------------
(* LossCounted, while the session stays put.                               *)

\* The subscriptions ever created.
Present == {s \in Subs : sub[s] # "absent"}

\* Snapshots, those being loaded and those queued with an update, name no
\* subscription before it is created.
SnapshotsPresent ==
    /\ snap \subseteq Present
    /\ \A x \in Subs \cup {Ticker} : load[x].subs \subseteq Present
    /\ \A w \in Workers : \A i \in 1..Len(outbox[w]) : outbox[w][i].subs \subseteq Present

\* A subscription that is not there yet has lost nothing.
NothingLostYet == \A s \in Subs \ Present : lost[s] = {}

\* A count being recorded belongs to the session held.
FlushHeld == \A w \in Workers : flush[w].n > 0 => flush[w].held

\* The inductive invariant behind LossCounted, together with Stays.
Losses == SnapshotsPresent /\ NothingLostYet /\ FlushHeld /\ LossCounted

\* The numbers LossCounted compares.
LEMMA LossNumbers ==
  ASSUME Stays, Types
  PROVE  /\ \A s \in Subs : /\ IsFiniteSet(lost[s]) /\ Cardinality(lost[s]) \in Nat
                            /\ charged[s] \in Nat /\ charged'[s] \in Nat
         /\ drop \in Nat /\ drop' \in Nat
         /\ \A w \in Workers : flush[w].n \in Nat /\ flush'[w].n \in Nat
         /\ holder \in Workers /\ None \notin Workers
  <1>1. \A s \in Subs : lost[s] \subseteq Updates
    BY DEF Types, TypeOK
  <1>2. \A s \in Subs : IsFiniteSet(lost[s]) /\ Cardinality(lost[s]) \in Nat
    BY <1>1, DeliveryAssumption, FS_Subset, FS_CardinalityType
  <1>3. QED
    BY <1>2, DeliveryAssumption DEF Types, TypeOK, Stays, Settled

\* One more update lost is one more at most.
LEMMA OneMoreLost ==
  ASSUME NEW S, IsFiniteSet(S), NEW x
  PROVE  Cardinality(S \cup {x}) <= Cardinality(S) + 1
  <1>1. Cardinality(S) \in Nat
    BY FS_CardinalityType
  <1>2. CASE x \in S
    <2>1. S \cup {x} = S
      BY <1>2
    <2>2. QED
      BY <1>1, <2>1
  <1>3. CASE x \notin S
    <2>1. Cardinality(S \cup {x}) = Cardinality(S) + 1
      BY <1>3, FS_AddElement
    <2>2. QED
      BY <1>1, <2>1
  <1>4. QED
    BY <1>2, <1>3

\* What does not disturb the count: nothing is lost, nothing recorded.
NoLoss ==
    /\ UNCHANGED <<charged, drop, flush, lost, holder>>
    /\ \A s \in Existing' : s \in Existing \/ sub[s] = "absent"
    /\ Present \subseteq Present'

\* Such a step keeps the count.
LEMMA NoLossCounted ==
  ASSUME Stays, Losses, Types, NoLoss
  PROVE  NothingLostYet' /\ FlushHeld' /\ LossCounted'
  <1>1. NothingLostYet' /\ FlushHeld'
    BY DEF Losses, NothingLostYet, FlushHeld, NoLoss, Present
  <1>2. LossCounted'
    <2> SUFFICES ASSUME NEW s \in Existing' PROVE Cardinality(lost[s]) <= Recording(s)
      BY DEF LossCounted, NoLoss, Recording
    <2>1. CASE s \in Existing
      BY <2>1 DEF Losses, LossCounted
    <2>2. CASE sub[s] = "absent"
      <3>1. s \in Subs /\ lost[s] = {}
        BY <2>2 DEF Losses, NothingLostYet, Present, Existing
      <3>2. Cardinality(lost[s]) = 0
        BY <3>1, FS_EmptySet
      <3>3. QED
        BY <3>1, <3>2, LossNumbers DEF Recording
    <2>3. QED
      BY <2>1, <2>2 DEF NoLoss
  <1>3. QED
    BY <1>1, <1>2

\* An update that is lost is counted at once, for whomever it was meant.
LEMMA LossIsCounted ==
  ASSUME Stays, Losses, Types, NEW x \in Updates, NEW ids \in SUBSET Present,
         lost' = [s \in Subs |-> IF s \in ids THEN lost[s] \cup {x} ELSE lost[s]],
         drop' = drop + 1,
         UNCHANGED <<sub, charged, flush, holder>>
  PROVE  NothingLostYet' /\ FlushHeld' /\ LossCounted'
  <1>1. NothingLostYet' /\ FlushHeld'
    BY DEF Losses, NothingLostYet, FlushHeld, Present
  <1>2. LossCounted'
    <2> SUFFICES ASSUME NEW s \in Existing PROVE Cardinality(lost'[s]) <= Recording(s)'
      BY DEF LossCounted, Existing
    <2>1. s \in Subs
      BY DEF Existing
    <2>2. Recording(s)' = Recording(s) + 1 /\ Recording(s) \in Nat
      BY <2>1, LossNumbers DEF Recording
    <2>3. Cardinality(lost[s]) <= Recording(s) /\ Cardinality(lost[s]) \in Nat /\ IsFiniteSet(lost[s])
      BY <2>1, LossNumbers DEF Losses, LossCounted
    <2>4. Cardinality(lost[s] \cup {x}) <= Cardinality(lost[s]) + 1
      BY <2>3, OneMoreLost
    <2>5. Cardinality(lost[s] \cup {x}) \in Nat
      BY <2>3, FS_AddElement, FS_CardinalityType
    <2>6. lost'[s] = lost[s] \/ lost'[s] = lost[s] \cup {x}
      BY <2>1
    <2>7. CASE lost'[s] = lost[s]
      BY <2>2, <2>3, <2>7
    <2>8. CASE lost'[s] = lost[s] \cup {x}
      <3> DEFINE m == Cardinality(lost[s])
                 n == Cardinality(lost[s] \cup {x})
      <3>1. Cardinality(lost'[s]) = n /\ n \in Nat /\ m \in Nat /\ n <= m + 1 /\ m <= Recording(s)
        BY <2>3, <2>4, <2>5, <2>8
      <3> HIDE DEF m, n
      <3>2. QED
        BY <2>2, <3>1
    <2>9. QED
      BY <2>6, <2>7, <2>8
  <1>3. QED
    BY <1>1, <1>2

\* The flusher moves the count on and loses none of it (flushDropped).
LEMMA FlushCounted ==
  ASSUME Stays, Losses, Types, NEW w \in Workers,
         FlushTake(w) \/ AddDropped(w) \/ AddDroppedFails(w)
  PROVE  NothingLostYet' /\ FlushHeld' /\ LossCounted'
  <1> USE DEF registry, session, outside
  <1>1. UNCHANGED <<sub, lost, holder>>
    BY DEF FlushTake, AddDropped, AddDroppedFails
  <1>2. /\ flush \in [Workers -> [n : Nat, held : BOOLEAN]]
        /\ NoFlush.n = 0
    BY DEF Types, TypeOK, NoFlush
  <1>3. FlushHeld'
    BY <1>2 DEF FlushTake, AddDropped, AddDroppedFails, Losses, FlushHeld
  <1>4. NothingLostYet'
    BY <1>1 DEF Losses, NothingLostYet, Present
  <1>5. LossCounted'
    <2> SUFFICES ASSUME NEW s \in Existing PROVE Recording(s)' >= Recording(s)
      <3>1. \A s \in Existing : s \in Subs
        BY DEF Existing
      <3>2. \A s \in Existing : Recording(s) \in Nat /\ Recording(s)' \in Nat
        BY <1>1, <3>1, LossNumbers DEF Recording
      <3>3. \A s \in Existing : Cardinality(lost[s]) \in Nat /\ Cardinality(lost[s]) <= Recording(s)
        BY <3>1, LossNumbers DEF Losses, LossCounted
      <3>4. QED
        BY <1>1, <3>2, <3>3 DEF LossCounted, Existing
    <2>0. /\ s \in Subs /\ charged[s] \in Nat /\ drop \in Nat /\ flush[holder].n \in Nat
          /\ flush[w].n \in Nat /\ holder \in Workers /\ holder # None
      BY LossNumbers DEF Existing
    <2>1. CASE FlushTake(w)
      <3>1. /\ holder = w /\ flush[w].n = 0 /\ drop' = 0 /\ charged' = charged
            /\ flush'[w] = [n |-> drop, held |-> TRUE]
        BY <2>1, <1>2 DEF FlushTake
      <3>2. flush'[holder].n = drop
        BY <3>1
      <3>3. QED
        BY <2>0, <3>1, <3>2, <1>1 DEF Recording
    <2>2. CASE AddDropped(w)
      <3>1. /\ drop' = drop /\ charged'[s] = charged[s] + flush[w].n /\ flush'[w] = NoFlush
            /\ \A v \in Workers : v # w => flush'[v] = flush[v]
        BY <2>0, <2>2, <1>2 DEF AddDropped
      <3>2. flush'[holder].n = IF holder = w THEN 0 ELSE flush[holder].n
        BY <2>0, <3>1, <1>2
      <3>3. QED
        BY <2>0, <3>1, <3>2, <1>1 DEF Recording
    <2>3. CASE AddDroppedFails(w)
      <3>1. /\ drop' = drop + flush[w].n /\ charged' = charged /\ flush'[w] = NoFlush
            /\ \A v \in Workers : v # w => flush'[v] = flush[v]
        BY <2>0, <2>3, <1>2 DEF AddDroppedFails, Losses, FlushHeld
      <3>2. flush'[holder].n = IF holder = w THEN 0 ELSE flush[holder].n
        BY <2>0, <3>1, <1>2
      <3>3. QED
        BY <2>0, <3>1, <3>2, <1>1 DEF Recording
    <2>4. QED
      BY <2>1, <2>2, <2>3
  <1>6. QED
    BY <1>3, <1>4, <1>5

\* Snapshots stay within the subscriptions created.
LEMMA SnapshotsStay ==
  ASSUME Stays, Losses, Types, [Next]_vars
  PROVE  SnapshotsPresent' /\ Present \subseteq Present'
  <1> USE DEF registry, session, worker, outside
  <1>0. ~Move
    BY NoMove, KindsDef, DeliveryAssumption DEF Move, Release, Crash, Acquire, Stays, Settled, Types
  <1>1. Present \subseteq Present'
    <2>1. CASE UNCHANGED sub
      BY <2>1 DEF Present
    <2>2. ASSUME NEW s \in Subs, CreateSubscription(s) \/ DeleteSubscription(s) \/ ChangeToken(s)
          PROVE  Present \subseteq Present'
      BY <2>2 DEF CreateSubscription, DeleteSubscription, ChangeToken, Present, Types, TypeOK
    <2>3. CASE Subscriptions
      BY <2>1, <2>2, <2>3 DEF Subscriptions, LoadFilters, LoadFails, ApplySnapshot
    <2>4. CASE Queue
      BY <2>1, <2>4 DEF Queue, UpdateArrives, WriteOutbox, WriteFails, FlushTake, AddDropped, AddDroppedFails
    <2>5. CASE Dispatch
      <3>1. ASSUME NEW w \in Workers, Tick(w) \/ ClaimDeliveries(w) \/ ClaimFails(w) PROVE UNCHANGED sub
        BY <3>1, TickFrame, ZenonT(30)
      <3>2. ASSUME NEW w \in Workers, NEW r \in rounds[w],
                   RoundStep(w, r) \/ MarkFails(w, r) \/ FailFails(w, r)
            PROVE  UNCHANGED sub
        BY <3>2 DEF RoundStep, Post, MarkDelivered, FailDelivery, RoundDone, MarkFails, FailFails
      <3>3. ASSUME NEW s \in Subs, NEW u \in Updates, BackoffOver(s, u) \/ PurgeDelivery(s, u)
            PROVE  UNCHANGED sub
        BY <3>3 DEF BackoffOver, PurgeDelivery
      <3>4. QED
        BY <2>1, <2>5, <3>1, <3>2, <3>3 DEF Dispatch
    <2>6. QED
      BY <1>0, <2>1, <2>3, <2>4, <2>5 DEF Next, vars
  <1>2. Existing \subseteq Present /\ \A fs : NewSnapshot(fs) \subseteq fs
    BY DEF Existing, Present, NewSnapshot
  <1>3. CASE UNCHANGED <<snap, load, outbox>>
    BY <1>1, <1>3 DEF SnapshotsPresent, Losses
  <1>4. ASSUME NEW s \in Subs, CreateSubscription(s) PROVE SnapshotsPresent'
    <2>1. \A x \in Subs \cup {Ticker} : load'[x].subs = load[x].subs
      BY <1>4 DEF CreateSubscription, Types, TypeOK, Loads
    <2>2. QED
      BY <1>1, <1>4, <2>1 DEF CreateSubscription, SnapshotsPresent, Losses
  <1>5. ASSUME NEW x \in Subs \cup {Ticker}, LoadFilters(x) \/ LoadFails(x) \/ ApplySnapshot(x)
        PROVE  SnapshotsPresent'
    <2>1. \A y \in Subs \cup {Ticker} : load'[y].subs \subseteq load[y].subs \/ load'[y].subs = Existing
      BY <1>5 DEF LoadFilters, LoadFails, ApplySnapshot, Types, TypeOK, NoLoad
    <2>2. snap' = snap \/ snap' \subseteq load[x].subs
      BY <1>2, <1>5 DEF LoadFilters, LoadFails, ApplySnapshot
    <2>3. outbox' = outbox
      BY <1>5 DEF LoadFilters, LoadFails, ApplySnapshot
    <2>4. QED
      BY <1>1, <1>2, <2>1, <2>2, <2>3 DEF SnapshotsPresent, Losses
  <1>6. ASSUME NEW u \in Updates, UpdateArrives(u) PROVE SnapshotsPresent'
    <2>1. UNCHANGED <<snap, load>> /\ holder \in Workers
      BY <1>6 DEF UpdateArrives, Stays, Settled
    <2>2. CASE outbox' = outbox
      BY <1>3, <2>1, <2>2
    <2>3. CASE UpdateQueued(u)
      <3> DEFINE it == [u |-> u, subs |-> snap]
      <3>1. /\ outbox'[holder] = Append(outbox[holder], it) /\ it.subs = snap
            /\ \A w \in Workers : w # holder => outbox'[w] = outbox[w]
        BY <2>1, <2>3 DEF UpdateQueued, Types, TypeOK
      <3> HIDE DEF it
      <3>2. outbox[holder] \in Seq(Items)
        BY <2>1 DEF Types, TypeOK
      <3>3. \A i \in 1..Len(outbox'[holder]) :
              (i \in 1..Len(outbox[holder]) /\ outbox'[holder][i] = outbox[holder][i]) \/ outbox'[holder][i] = it
        BY <3>1, <3>2
      <3>4. \A w \in Workers : \A i \in 1..Len(outbox'[w]) : outbox'[w][i].subs \subseteq Present
        BY <3>1, <3>3 DEF SnapshotsPresent, Losses
      <3>5. QED
        BY <1>1, <2>1, <3>4 DEF SnapshotsPresent, Losses
    <2>4. QED
      BY <1>6, <2>2, <2>3 DEF UpdateArrives, UpdateSkipped, UpdateDropped
  <1>7. ASSUME NEW w \in Workers, WriteOutbox(w) \/ WriteFails(w) PROVE SnapshotsPresent'
    <2>1. /\ outbox[w] # <<>> /\ outbox'[w] = Tail(outbox[w]) /\ UNCHANGED <<snap, load>>
          /\ \A v \in Workers : v # w => outbox'[v] = outbox[v]
      BY <1>7 DEF WriteOutbox, WriteFails, Types, TypeOK
    <2>2. outbox[w] \in Seq(Items)
      BY DEF Types, TypeOK
    <2>3. \A i \in 1..Len(outbox'[w]) : i + 1 \in 1..Len(outbox[w]) /\ outbox'[w][i] = outbox[w][i + 1]
      BY <2>1, <2>2
    <2>4. \A v \in Workers : \A i \in 1..Len(outbox'[v]) : outbox'[v][i].subs \subseteq Present
      <3>1. \A i \in 1..Len(outbox'[w]) : outbox'[w][i].subs \subseteq Present
        BY <2>3 DEF SnapshotsPresent, Losses
      <3>2. \A v \in Workers : v # w => \A i \in 1..Len(outbox'[v]) : outbox'[v][i].subs \subseteq Present
        BY <2>1 DEF SnapshotsPresent, Losses
      <3>3. QED
        BY <3>1, <3>2
    <2>5. QED
      BY <1>1, <2>1, <2>4 DEF SnapshotsPresent, Losses
  <1>8. CASE Subscriptions
    BY <1>1, <1>3, <1>4, <1>5, <1>8 DEF Subscriptions, DeleteSubscription, ChangeToken
  <1>9. CASE Queue
    BY <1>1, <1>3, <1>6, <1>7, <1>9 DEF Queue, FlushTake, AddDropped, AddDroppedFails
  <1>10. CASE Dispatch
    <2>1. ASSUME NEW w \in Workers, Tick(w) \/ ClaimDeliveries(w) \/ ClaimFails(w)
          PROVE  UNCHANGED <<snap, load, outbox>>
      BY <2>1, TickFrame, ZenonT(30)
    <2>2. ASSUME NEW w \in Workers, NEW r \in rounds[w],
                 RoundStep(w, r) \/ MarkFails(w, r) \/ FailFails(w, r)
          PROVE  UNCHANGED <<snap, load, outbox>>
      BY <2>2 DEF RoundStep, Post, MarkDelivered, FailDelivery, RoundDone, MarkFails, FailFails
    <2>3. ASSUME NEW s \in Subs, NEW u \in Updates, BackoffOver(s, u) \/ PurgeDelivery(s, u)
          PROVE  UNCHANGED <<snap, load, outbox>>
      BY <2>3 DEF BackoffOver, PurgeDelivery
    <2>4. QED
      BY <1>3, <1>10, <2>1, <2>2, <2>3 DEF Dispatch
  <1>11. QED
    BY <1>0, <1>1, <1>3, <1>8, <1>9, <1>10 DEF Next, vars

\* Every step keeps the count of losses.
LEMMA LossesStep ==
  ASSUME Stays, Losses, Types, [Next]_vars
  PROVE  Losses'
  <1> USE DEF registry, session, worker, outside
  <1>0. ~Move
    BY NoMove, KindsDef, DeliveryAssumption DEF Move, Release, Crash, Acquire, Stays, Settled, Types
  <1>1. SnapshotsPresent' /\ Present \subseteq Present'
    BY SnapshotsStay
  <1> DEFINE Counted == NothingLostYet' /\ FlushHeld' /\ LossCounted'
  <1>2. ASSUME NoLoss PROVE Counted
    BY <1>2, NoLossCounted
  <1>3. ASSUME UNCHANGED <<sub, charged, drop, flush, lost, holder>> PROVE Counted
    BY <1>1, <1>2, <1>3 DEF NoLoss, Existing
  <1>4. ASSUME NEW s \in Subs, CreateSubscription(s) \/ DeleteSubscription(s) \/ ChangeToken(s)
        PROVE  Counted
    <2>1. \A z \in Existing' : z \in Existing \/ sub[z] = "absent"
      BY <1>4 DEF CreateSubscription, DeleteSubscription, ChangeToken, Existing, Types, TypeOK
    <2>2. UNCHANGED <<charged, drop, flush, lost, holder>>
      BY <1>4 DEF CreateSubscription, DeleteSubscription, ChangeToken
    <2>3. QED
      BY <1>1, <1>2, <2>1, <2>2 DEF NoLoss
  <1>5. ASSUME Subscriptions PROVE Counted
    BY <1>3, <1>4, <1>5 DEF Subscriptions, LoadFilters, LoadFails, ApplySnapshot
  <1>6. ASSUME NEW u \in Updates, UpdateArrives(u) PROVE Counted
    <2>1. UNCHANGED <<sub, charged, flush, holder>>
      BY <1>6 DEF UpdateArrives
    <2>2. CASE UpdateSkipped(u) \/ UpdateQueued(u)
      BY <1>3, <2>1, <2>2 DEF UpdateSkipped, UpdateQueued
    <2>3. CASE UpdateDropped(u)
      <3>1. Route(snap, u) \subseteq Present
        BY DEF Route, Losses, SnapshotsPresent
      <3>2. QED
        BY <2>1, <2>3, <3>1, LossIsCounted DEF UpdateDropped
    <2>4. QED
      BY <1>6, <2>2, <2>3 DEF UpdateArrives
  <1>7. ASSUME NEW w \in Workers, WriteFails(w) PROVE Counted
    <2> DEFINE it  == Head(outbox[w])
               ids == Route(it.subs, it.u)
    <2>1. /\ outbox[w] # <<>> /\ outbox[w] \in Seq(Items)
          /\ lost' = [s \in Subs |-> IF s \in ids THEN lost[s] \cup {it.u} ELSE lost[s]]
          /\ drop' = IF holder = w THEN drop + 1 ELSE drop
          /\ UNCHANGED <<sub, charged, flush, holder>>
      BY <1>7 DEF WriteFails, Types, TypeOK
    <2>2. holder = w
      BY <2>1 DEF Stays, OwnerOnly, Settled
    <2>3. 1 \in 1..Len(outbox[w]) /\ it = outbox[w][1] /\ it \in Items
      BY <2>1
    <2>4. it.u \in Updates /\ it.subs \subseteq Present
      BY <2>3 DEF Items, Losses, SnapshotsPresent
    <2>5. ids \subseteq Present
      BY <2>4 DEF Route
    <2> HIDE DEF it, ids
    <2>6. QED
      BY <2>1, <2>2, <2>4, <2>5, LossIsCounted
  <1>8. ASSUME NEW w \in Workers, FlushTake(w) \/ AddDropped(w) \/ AddDroppedFails(w) PROVE Counted
    BY <1>8, FlushCounted
  <1>9. ASSUME Queue PROVE Counted
    BY <1>3, <1>6, <1>7, <1>8, <1>9 DEF Queue, WriteOutbox
  <1>10. ASSUME Dispatch PROVE Counted
    <2>1. ASSUME NEW w \in Workers, Tick(w) \/ ClaimDeliveries(w) \/ ClaimFails(w)
          PROVE  UNCHANGED <<sub, charged, drop, flush, lost, holder>>
      BY <2>1, TickFrame, ZenonT(30)
    <2>2. ASSUME NEW w \in Workers, NEW r \in rounds[w],
                 RoundStep(w, r) \/ MarkFails(w, r) \/ FailFails(w, r)
          PROVE  UNCHANGED <<sub, charged, drop, flush, lost, holder>>
      BY <2>2 DEF RoundStep, Post, MarkDelivered, FailDelivery, RoundDone, MarkFails, FailFails
    <2>3. ASSUME NEW s \in Subs, NEW u \in Updates, BackoffOver(s, u) \/ PurgeDelivery(s, u)
          PROVE  UNCHANGED <<sub, charged, drop, flush, lost, holder>>
      BY <2>3 DEF BackoffOver, PurgeDelivery
    <2>4. QED
      BY <1>3, <1>10, <2>1, <2>2, <2>3 DEF Dispatch
  <1>11. Counted
    BY <1>0, <1>3, <1>5, <1>9, <1>10 DEF Next, vars
  <1>12. QED
    BY <1>1, <1>11 DEF Losses

\* LossCounted: while the session stays put, every update lost to a full queue or a
\* failed insert is in the dropped count of each subscription it was meant for, or on
\* its way there, however often recording it fails (updateHandler, runOutboxWriter,
\* flushDropped).
THEOREM LossesCounted ==
  ASSUME StaysPut
  PROVE  Spec => []LossCounted
  <1>1. Init => Stays
    BY StaysInit
  <1>2. Init => Losses
    <2> SUFFICES ASSUME Init PROVE Losses
      OBVIOUS
    <2>1. Existing \subseteq Present /\ \A fs : NewSnapshot(fs) \subseteq fs
      BY DEF Existing, Present, NewSnapshot
    <2>2. SnapshotsPresent
      <3>1. snap \subseteq Present
        BY <2>1 DEF Init
      <3>2. \A x \in Subs \cup {Ticker} : load[x].subs = {}
        BY DEF Init, NoLoad
      <3>3. \A w \in Workers : outbox[w] = <<>>
        BY DEF Init
      <3>4. QED
        BY <3>1, <3>2, <3>3 DEF SnapshotsPresent
    <2>3. NothingLostYet /\ FlushHeld
      BY DEF Init, NothingLostYet, FlushHeld, NoFlush
    <2>4. LossCounted
      <3> SUFFICES ASSUME NEW s \in Existing PROVE Cardinality(lost[s]) <= Recording(s)
        BY DEF LossCounted
      <3>1. lost[s] = {} /\ charged[s] = 0 /\ drop = 0 /\ holder \in Workers /\ flush[holder].n = 0
        BY DEF Init, Existing, NoFlush
      <3>2. QED
        BY <3>1, FS_EmptySet DEF Recording
    <2>5. QED
      BY <2>2, <2>3, <2>4 DEF Losses
  <1>3. TypeOK /\ TypeOK' /\ Stays /\ [Next]_vars => Stays'
    BY StaysStep DEF Types
  <1>4. TypeOK /\ TypeOK' /\ Stays /\ Losses /\ [Next]_vars => Losses'
    BY LossesStep DEF Types
  <1>5. Losses => LossCounted
    BY DEF Losses
  <1>6. QED
    BY <1>1, <1>2, <1>3, <1>4, <1>5, TypeCorrect, PTL DEF Spec

-----------------------------------------------------------------------------
(* CopiesBounded, however often the session moves and its workers die.     *)

\* A round posts what it claimed, and what it claimed was queued.
Started ==
    \A w \in Workers : \A r \in rounds[w] :
       /\ r.at # "post" => r.now \in r.todo
       /\ \A u \in r.todo : row[r.sub][u].st # "none"

\* What was never queued was never accepted.
Unaccepted == \A s \in Subs, u \in Updates : row[s][u].st = "none" => got[s][u] = 0

\* An update is in one outbox at most, once, and has no row while it is there.
QueuedOnce ==
    \A w \in Workers : \A i \in 1..Len(outbox[w]) :
       /\ outbox[w][i].u \in arrived
       /\ \A s \in Subs : row[s][outbox[w][i].u].st = "none"
       /\ \A v \in Workers : \A j \in 1..Len(outbox[v]) :
             outbox[v][j].u = outbox[w][i].u => v = w /\ j = i

\* The workers about to record that s accepted u, and those that may still post it.
Marking(s, u) ==
    {w \in Workers : \E r \in rounds[w] : r.sub = s /\ r.now = u /\ r.at = "mark"}
Ahead(s, u) ==
    {w \in Workers : \E r \in rounds[w] : r.sub = s /\ u \in r.todo /\ ~(r.now = u /\ r.at = "mark")}

Slack == Spent("error") + Spent("crash")

Open(s, u) == row[s][u].st \in {"none", "pending"}

\* While a row is open, every copy accepted is about to be recorded or was lost to
\* a fault; once it is closed, only the workers that claimed it before may add one.
CopyBudget(s, u) ==
    IF Open(s, u)
    THEN got[s][u] <= Cardinality(Marking(s, u)) + Slack
    ELSE got[s][u] + Cardinality(Ahead(s, u)) <= Cardinality(Workers) + Slack

\* The inductive invariant behind CopiesBounded.
QueueOrder == Unseen /\ QueuedOnce
RoundOrder == OneRound /\ TickSees /\ Started
Copies ==
    InBudget /\ QueueOrder /\ RoundOrder /\ Unaccepted
    /\ \A s \in Subs, u \in Updates : CopyBudget(s, u)

\* A row that was queued once is never unqueued.
StaysQueued == \A s \in Subs, u \in Updates : row[s][u].st # "none" => row'[s][u].st # "none"

\* Only the outbox writer queues a row.
NothingQueued == \A s \in Subs, u \in Updates : row[s][u].st = "none" => row'[s][u].st = "none"

\* Steps that neither queue nor receive an update keep the order of the queues; a
\* crash empties one.
LEMMA QueueQuiet ==
  ASSUME TypeOK, QueueOrder, NothingQueued, UNCHANGED arrived,
         \A w \in Workers : outbox'[w] \in {outbox[w], <<>>}
  PROVE  QueueOrder'
  <1>1. Unseen'
    BY DEF QueueOrder, Unseen, NothingQueued
  <1>2. \A w \in Workers : \A i \in 1..Len(outbox'[w]) : i \in 1..Len(outbox[w]) /\ outbox'[w][i] = outbox[w][i]
    OBVIOUS
  <1>3. \A w \in Workers : \A i \in 1..Len(outbox[w]) : outbox[w][i].u \in Updates
    <2> SUFFICES ASSUME NEW w \in Workers, NEW i \in 1..Len(outbox[w]) PROVE outbox[w][i].u \in Updates
      OBVIOUS
    <2>1. outbox[w] \in Seq(Items)
      BY DEF TypeOK
    <2>2. outbox[w][i] \in Items
      BY <2>1
    <2>3. QED
      BY <2>2 DEF Items
  <1>4. QueuedOnce'
    BY <1>2, <1>3 DEF QueueOrder, QueuedOnce, NothingQueued
  <1>5. QED
    BY <1>1, <1>4 DEF QueueOrder

\* An arriving update joins one queue, which it was in before nowhere.
LEMMA QueueArrive ==
  ASSUME Types, QueueOrder, NEW x \in Updates, UpdateArrives(x)
  PROVE  QueueOrder'
  <1>1. /\ x \notin arrived /\ arrived' = arrived \cup {x} /\ holder \in Workers /\ row' = row
    BY DEF UpdateArrives, registry, Types, TypeOK
  <1>2. Unseen' /\ \A s \in Subs : row[s][x].st = "none"
    BY <1>1 DEF QueueOrder, Unseen
  <1>3. CASE outbox' = outbox
    BY <1>1, <1>2, <1>3 DEF QueueOrder, QueuedOnce
  <1>4. CASE UpdateQueued(x)
    <2> DEFINE it == [u |-> x, subs |-> snap]
               n  == Len(outbox[holder])
    <2>1. /\ outbox'[holder] = Append(outbox[holder], it) /\ it.u = x
          /\ \A w \in Workers : w # holder => outbox'[w] = outbox[w]
      BY <1>1, <1>4 DEF UpdateQueued, Types, TypeOK
    <2> HIDE DEF it
    <2>2. outbox[holder] \in Seq(Items) /\ n \in Nat
      BY <1>1 DEF Types, TypeOK
    <2>3. \A w \in Workers : \A i \in 1..Len(outbox'[w]) :
            \/ i \in 1..Len(outbox[w]) /\ outbox'[w][i] = outbox[w][i]
            \/ w = holder /\ i = n + 1 /\ outbox'[w][i] = it
      <3>1. \A i \in 1..Len(outbox'[holder]) :
              \/ i \in 1..n /\ outbox'[holder][i] = outbox[holder][i]
              \/ i = n + 1 /\ outbox'[holder][i] = it
        BY <2>1, <2>2
      <3>2. QED
        BY <2>1, <3>1
    <2> HIDE DEF n
    <2>4. \A w \in Workers : \A i \in 1..Len(outbox[w]) :
            /\ outbox[w][i].u \in arrived /\ outbox[w][i].u # x
            /\ \A s \in Subs : row[s][outbox[w][i].u].st = "none"
            /\ \A v \in Workers : \A j \in 1..Len(outbox[v]) :
                  outbox[v][j].u = outbox[w][i].u => v = w /\ j = i
      BY <1>1 DEF QueueOrder, QueuedOnce
    <2>5. \A w \in Workers : \A i \in 1..Len(outbox'[w]) :
            /\ outbox'[w][i].u \in arrived'
            /\ \A s \in Subs : row'[s][outbox'[w][i].u].st = "none"
      BY <1>1, <1>2, <2>1, <2>3, <2>4
    <2>6. ASSUME NEW w \in Workers, NEW i \in 1..Len(outbox'[w]),
                 NEW v \in Workers, NEW j \in 1..Len(outbox'[v]),
                 outbox'[v][j].u = outbox'[w][i].u
          PROVE  v = w /\ j = i
      <3>1. CASE i \in 1..Len(outbox[w]) /\ outbox'[w][i] = outbox[w][i]
        <4>1. outbox'[v][j].u # x
          BY <2>4, <2>6, <3>1
        <4>2. j \in 1..Len(outbox[v]) /\ outbox'[v][j] = outbox[v][j]
          BY <2>1, <2>3, <4>1
        <4>3. QED
          BY <2>4, <2>6, <3>1, <4>2
      <3>2. CASE w = holder /\ i = n + 1 /\ outbox'[w][i] = it
        <4>1. ~(j \in 1..Len(outbox[v]) /\ outbox'[v][j] = outbox[v][j])
          BY <2>1, <2>4, <2>6, <3>2
        <4>2. v = holder /\ j = n + 1
          BY <2>3, <4>1
        <4>3. QED
          BY <3>2, <4>2
      <3>3. QED
        BY <2>3, <3>1, <3>2
    <2>7. QED
      BY <1>2, <2>5, <2>6 DEF QueueOrder, QueuedOnce
  <1>5. QED
    BY <1>3, <1>4 DEF UpdateArrives, UpdateSkipped, UpdateDropped

\* The outbox writer takes the update it writes out of the only queue it is in.
LEMMA QueueWrite ==
  ASSUME Types, QueueOrder, NEW w \in Workers, WriteOutbox(w) \/ WriteFails(w)
  PROVE  /\ QueueOrder'
         /\ \A s \in Subs, u \in Updates :
              \/ row'[s][u] = row[s][u]
              \/ row[s][u].st = "none" /\ row'[s][u].st = "pending"
  <1> DEFINE x == Head(outbox[w]).u
             n == Len(outbox[w])
  <1>1. /\ outbox[w] # <<>> /\ outbox[w] \in Seq(Items) /\ outbox'[w] = Tail(outbox[w])
        /\ \A v \in Workers : v # w => outbox'[v] = outbox[v]
        /\ arrived' = arrived
    BY DEF WriteOutbox, WriteFails, outside, Types, TypeOK
  <1>2. 1 \in 1..n /\ outbox[w][1].u = x
    BY <1>1
  <1>3. \A v \in Workers : \A i \in 1..Len(outbox[v]) :
          /\ outbox[v][i].u \in arrived /\ outbox[v][i].u \in Updates
          /\ \A s \in Subs : row[s][outbox[v][i].u].st = "none"
          /\ \A z \in Workers : \A j \in 1..Len(outbox[z]) :
                outbox[z][j].u = outbox[v][i].u => z = v /\ j = i
    BY DEF QueueOrder, QueuedOnce, Types, TypeOK, Items
  <1>4. \A s \in Subs : row[s][x].st = "none"
    BY <1>2, <1>3
  <1>5. \A s \in Subs, u \in Updates : row'[s][u] = row[s][u] \/ (u = x /\ row'[s][u].st = "pending")
    <2>1. CASE WriteOutbox(w)
      <3>1. PICK ids : Enqueue(ids, x)
        BY <2>1 DEF WriteOutbox
      <3>2. QED
        BY <3>1 DEF Enqueue, Types, TypeOK
    <2>2. CASE WriteFails(w)
      BY <2>2 DEF WriteFails, registry
    <2>3. QED
      BY <2>1, <2>2
  <1>6. \A i \in 1..Len(outbox'[w]) :
          /\ i + 1 \in 1..n /\ i + 1 # 1 /\ outbox'[w][i] = outbox[w][i + 1] /\ i \in Nat
    BY <1>1
  <1> HIDE DEF x, n
  <1>7. Unseen'
    <2>1. x \in arrived
      BY <1>2, <1>3 DEF n
    <2>2. QED
      BY <1>1, <1>5, <2>1 DEF QueueOrder, Unseen
  <1>8. \A v \in Workers : \A i \in 1..Len(outbox'[v]) :
          \E k \in 1..Len(outbox[v]) :
             /\ k = (IF v = w THEN i + 1 ELSE i) /\ i \in Nat
             /\ outbox'[v][i] = outbox[v][k] /\ outbox[v][k].u # x
    <2> SUFFICES ASSUME NEW v \in Workers, NEW i \in 1..Len(outbox'[v])
                 PROVE  \E k \in 1..Len(outbox[v]) :
                          /\ k = (IF v = w THEN i + 1 ELSE i) /\ i \in Nat
                          /\ outbox'[v][i] = outbox[v][k] /\ outbox[v][k].u # x
      OBVIOUS
    <2>1. CASE v = w
      <3>1. i + 1 \in 1..Len(outbox[v]) /\ i + 1 # 1 /\ outbox'[v][i] = outbox[v][i + 1] /\ i \in Nat
        BY <2>1, <1>6 DEF n
      <3>2. outbox[v][i + 1].u # x
        BY <2>1, <3>1, <1>2, <1>3 DEF n
      <3>3. QED
        BY <2>1, <3>1, <3>2
    <2>2. CASE v # w
      <3>1. i \in 1..Len(outbox[v]) /\ outbox'[v][i] = outbox[v][i] /\ i \in Nat
        BY <2>2, <1>1
      <3>2. outbox[v][i].u # x
        BY <2>2, <3>1, <1>2, <1>3 DEF n
      <3>3. QED
        BY <2>2, <3>1, <3>2
    <2>3. QED
      BY <2>1, <2>2
  <1>9. QueuedOnce'
    <2> SUFFICES ASSUME NEW v \in Workers, NEW i \in 1..Len(outbox'[v])
                 PROVE  /\ outbox'[v][i].u \in arrived'
                        /\ \A s \in Subs : row'[s][outbox'[v][i].u].st = "none"
                        /\ \A z \in Workers : \A j \in 1..Len(outbox'[z]) :
                              outbox'[z][j].u = outbox'[v][i].u => z = v /\ j = i
      BY DEF QueuedOnce
    <2>1. PICK k \in 1..Len(outbox[v]) :
             /\ k = (IF v = w THEN i + 1 ELSE i) /\ i \in Nat
             /\ outbox'[v][i] = outbox[v][k] /\ outbox[v][k].u # x
      BY <1>8
    <2>2. /\ outbox[v][k].u \in arrived /\ outbox[v][k].u \in Updates
          /\ \A s \in Subs : row[s][outbox[v][k].u].st = "none"
      BY <1>3
    <2>3. \A s \in Subs : row'[s][outbox[v][k].u].st = "none"
      BY <1>5, <2>1, <2>2
    <2>4. ASSUME NEW z \in Workers, NEW j \in 1..Len(outbox'[z]), outbox'[z][j].u = outbox'[v][i].u
          PROVE  z = v /\ j = i
      <3>1. PICK l \in 1..Len(outbox[z]) :
               /\ l = (IF z = w THEN j + 1 ELSE j) /\ j \in Nat
               /\ outbox'[z][j] = outbox[z][l]
        BY <1>8
      <3>2. z = v /\ l = k
        BY <1>3, <2>1, <2>4, <3>1
      <3>3. QED
        BY <2>1, <3>1, <3>2
    <2>5. QED
      BY <1>1, <2>1, <2>2, <2>3, <2>4
  <1>10. QED
    BY <1>4, <1>5, <1>7, <1>9 DEF QueueOrder

\* Steps that touch no round keep the order of the rounds.
LEMMA RoundsQuiet ==
  ASSUME TypeOK, RoundOrder, StaysQueued, UNCHANGED <<rounds, inflight, busy>>
  PROVE  RoundOrder'
  <1>1. Started'
    <2> SUFFICES ASSUME NEW w \in Workers, NEW r \in rounds[w]
                 PROVE  /\ r.at # "post" => r.now \in r.todo
                        /\ \A u \in r.todo : row'[r.sub][u].st # "none"
      BY DEF Started
    <2>1. r.sub \in Subs /\ r.todo \subseteq Updates
      BY RoundTypes
    <2>2. QED
      BY <2>1 DEF RoundOrder, Started, StaysQueued
  <1>2. QED
    BY <1>1 DEF RoundOrder, OneRound, TickSees

\* So do the ticker, a claim that fails and a crash.
LEMMA RoundsTick ==
  ASSUME TypeOK, RoundOrder, NEW w \in Workers,
         Tick(w) \/ ClaimFails(w) \/ Crash(w)
  PROVE  RoundOrder'
  <1> USE DEF registry, session, outside
  <1>1. /\ row' = row
        /\ \A v \in Workers : /\ v # w => UNCHANGED <<rounds[v], inflight[v], busy[v]>>
                              /\ rounds'[v] \subseteq rounds[v]
        /\ rounds'[w] # {} => inflight'[w] = inflight[w]
    BY DEF Tick, ClaimFails, Crash, TypeOK
  <1>2. busy'[w].tick => inflight'[w] \subseteq busy'[w].subs
    <2>1. \/ busy'[w] = [tick |-> TRUE, subs |-> inflight[w]] /\ inflight' = inflight
          \/ busy'[w] = [tick |-> FALSE, subs |-> {}]
      BY DEF Tick, ClaimFails, Crash, TypeOK
    <2>2. QED
      BY <2>1
  <1>3. TickSees'
    BY <1>1, <1>2 DEF RoundOrder, TickSees
  <1>4. OneRound'
    BY <1>1 DEF RoundOrder, OneRound
  <1>5. Started'
    BY <1>1 DEF RoundOrder, Started
  <1>6. QED
    BY <1>3, <1>4, <1>5 DEF RoundOrder

\* A claim starts rounds for subscriptions that have none.
LEMMA RoundsClaim ==
  ASSUME TypeOK, RoundOrder, NEW w \in Workers, ClaimDeliveries(w)
  PROVE  RoundOrder'
  <1>1. PICK C \in SUBSET Subs :
           /\ rounds[w] \subseteq rounds'[w]
           /\ \A v \in Workers : v # w => rounds'[v] = rounds[v] /\ inflight'[v] = inflight[v]
           /\ \A r \in rounds'[w] : r \in rounds[w] \/ (Fresh(w, r) /\ r.sub \in C)
           /\ \A r, q \in rounds'[w] \ rounds[w] : r.sub = q.sub => r = q
           /\ inflight'[w] = inflight[w] \cup C
    BY ClaimFresh DEF RoundOrder
  <1>2. /\ row' = row /\ busy'[w] = [tick |-> FALSE, subs |-> {}]
        /\ \A v \in Workers : v # w => busy'[v] = busy[v]
    BY DEF ClaimDeliveries, registry, TypeOK
  <1>3. TickSees'
    <2>1. ~busy'[w].tick
      BY <1>2
    <2>2. QED
      BY <1>1, <1>2, <2>1 DEF RoundOrder, TickSees
  <1>4. OneRound'
    <2> SUFFICES ASSUME NEW v \in Workers, NEW r \in rounds'[v], NEW q \in rounds'[v]
                 PROVE  r.sub \in inflight'[v] /\ (q.sub = r.sub => q = r)
      BY DEF OneRound
    <2>1. CASE v # w
      BY <1>1, <2>1 DEF RoundOrder, OneRound
    <2>2. CASE v = w
      <3>1. \A p \in rounds[w] : p.sub \in inflight[w] /\ \A z \in rounds[w] : z.sub = p.sub => z = p
        BY DEF RoundOrder, OneRound
      <3>2. r.sub \in inflight'[v]
        BY <1>1, <2>2, <3>1
      <3>3. CASE r \in rounds[w] /\ q \in rounds[w]
        BY <3>1, <3>2, <3>3
      <3>4. CASE r \in rounds[w] /\ q \notin rounds[w]
        BY <1>1, <2>2, <3>1, <3>2, <3>4 DEF Fresh
      <3>5. CASE r \notin rounds[w] /\ q \in rounds[w]
        BY <1>1, <2>2, <3>1, <3>2, <3>5 DEF Fresh
      <3>6. CASE r \notin rounds[w] /\ q \notin rounds[w]
        BY <1>1, <2>2, <3>2, <3>6
      <3>7. QED
        BY <3>3, <3>4, <3>5, <3>6
    <2>3. QED
      BY <2>1, <2>2
  <1>5. Started'
    <2> SUFFICES ASSUME NEW v \in Workers, NEW r \in rounds'[v]
                 PROVE  /\ r.at # "post" => r.now \in r.todo
                        /\ \A u \in r.todo : row[r.sub][u].st # "none"
      BY <1>2 DEF Started
    <2>1. CASE r \in rounds[v]
      BY <2>1 DEF RoundOrder, Started
    <2>2. CASE v = w /\ Fresh(w, r)
      BY <2>2 DEF Fresh
    <2>3. QED
      BY <1>1, <2>1, <2>2
  <1>6. QED
    BY <1>3, <1>4, <1>5 DEF RoundOrder

\* Round r of w goes on as q, with no more to do, or ends with nothing in its place.
Moves(w, r, q) ==
    /\ q.sub = r.sub /\ q.todo \subseteq r.todo
    /\ q.at # "post" => q.now \in q.todo
    /\ rounds' = [rounds EXCEPT ![w] = (@ \ {r}) \cup {q}]
    /\ UNCHANGED inflight

\* A round that goes on or ends keeps the order of the rounds.
LEMMA RoundsMove ==
  ASSUME TypeOK, RoundOrder, StaysQueued, UNCHANGED busy, NEW w \in Workers, NEW r \in rounds[w],
         EndRound(w, r) \/ \E q : Moves(w, r, q)
  PROVE  RoundOrder'
  <1>1. \A p \in rounds[w] : p # r => p.sub # r.sub
    BY DEF RoundOrder, OneRound
  <1>2. \A v \in Workers : \A p \in rounds[v] :
          /\ p.sub \in Subs /\ p.todo \subseteq Updates
          /\ p.at # "post" => p.now \in p.todo
          /\ \A u \in p.todo : row'[p.sub][u].st # "none"
    <2> SUFFICES ASSUME NEW v \in Workers, NEW p \in rounds[v]
                 PROVE  /\ p.sub \in Subs /\ p.todo \subseteq Updates
                        /\ p.at # "post" => p.now \in p.todo
                        /\ \A u \in p.todo : row'[p.sub][u].st # "none"
      OBVIOUS
    <2>1. p.sub \in Subs /\ p.todo \subseteq Updates
      BY RoundTypes
    <2>2. QED
      BY <2>1 DEF RoundOrder, Started, StaysQueued
  <1>3. CASE EndRound(w, r)
    <2>1. /\ rounds'[w] = rounds[w] \ {r} /\ inflight'[w] = inflight[w] \ {r.sub}
          /\ \A v \in Workers : v # w => rounds'[v] = rounds[v] /\ inflight'[v] = inflight[v]
      BY <1>3 DEF EndRound, TypeOK
    <2>2. OneRound' /\ TickSees'
      BY <1>1, <2>1 DEF RoundOrder, OneRound, TickSees
    <2>3. Started'
      BY <1>2, <2>1 DEF Started
    <2>4. QED
      BY <2>2, <2>3 DEF RoundOrder
  <1>4. ASSUME NEW q, Moves(w, r, q) PROVE RoundOrder'
    <2>1. /\ rounds'[w] = (rounds[w] \ {r}) \cup {q} /\ inflight' = inflight
          /\ \A v \in Workers : v # w => rounds'[v] = rounds[v]
          /\ q.sub = r.sub
      BY <1>4 DEF Moves, TypeOK
    <2>2. r.sub \in inflight[w]
      BY DEF RoundOrder, OneRound
    <2>3. OneRound'
      BY <1>1, <2>1, <2>2 DEF RoundOrder, OneRound
    <2>4. TickSees'
      BY <2>1 DEF RoundOrder, TickSees
    <2>5. Started'
      <3> SUFFICES ASSUME NEW v \in Workers, NEW p \in rounds'[v]
                   PROVE  /\ p.at # "post" => p.now \in p.todo
                          /\ \A u \in p.todo : row'[p.sub][u].st # "none"
        BY DEF Started
      <3>1. CASE p \in rounds[v]
        BY <1>2, <3>1
      <3>2. CASE p = q
        BY <1>2, <1>4, <3>2 DEF Moves
      <3>3. QED
        BY <2>1, <3>1, <3>2
    <2>6. QED
      BY <2>3, <2>4, <2>5 DEF RoundOrder
  <1>5. QED
    BY <1>3, <1>4

-----------------------------------------------------------------------------
(* The copies.                                                             *)

\* A worker is about to record a copy or may still post one, not both.
LEMMA MarkingOrAhead ==
  ASSUME OneRound, NEW s \in Subs, NEW u \in Updates
  PROVE  /\ IsFiniteSet(Marking(s, u)) /\ Cardinality(Marking(s, u)) \in Nat
         /\ IsFiniteSet(Ahead(s, u)) /\ Cardinality(Ahead(s, u)) \in Nat
         /\ Cardinality(Workers) \in Nat
         /\ Cardinality(Marking(s, u)) + Cardinality(Ahead(s, u)) <= Cardinality(Workers)
  <1> DEFINE M == Marking(s, u)
             A == Ahead(s, u)
  <1>1. M \subseteq Workers /\ A \subseteq Workers /\ M \cap A = {}
    BY DEF OneRound, Marking, Ahead
  <1> HIDE DEF M, A
  <1>2. IsFiniteSet(Workers) /\ IsFiniteSet(M) /\ IsFiniteSet(A)
    BY <1>1, DeliveryAssumption, FS_Subset
  <1>3. Cardinality(M) \in Nat /\ Cardinality(A) \in Nat /\ Cardinality(Workers) \in Nat
    BY <1>2, FS_CardinalityType
  <1>4. IsFiniteSet(M \cup A) /\ Cardinality(M \cup A) = Cardinality(M) + Cardinality(A) - Cardinality(M \cap A)
    BY <1>2, FS_Union
  <1>5. Cardinality(M \cap A) = 0
    BY <1>1, FS_EmptySet
  <1>6. Cardinality(M \cup A) <= Cardinality(Workers)
    BY <1>1, <1>2, FS_Subset
  <1>7. QED
    BY <1>2, <1>3, <1>4, <1>5, <1>6 DEF M, A

\* The same after a step.
LEMMA MarkingOrAheadNext ==
  ASSUME NEW s \in Subs, NEW u \in Updates
  PROVE  /\ IsFiniteSet(Marking(s, u)') /\ Cardinality(Marking(s, u)') \in Nat
         /\ IsFiniteSet(Ahead(s, u)') /\ Cardinality(Ahead(s, u)') \in Nat
  <1>1. Marking(s, u)' \subseteq Workers /\ Ahead(s, u)' \subseteq Workers
    BY DEF Marking, Ahead
  <1>2. QED
    BY <1>1, DeliveryAssumption, FS_Subset, FS_CardinalityType

\* A copy budget survives a step in which nothing is accepted: a mark that goes
\* missing costs a fault, and a row that closes leaves room for those still ahead.
LEMMA CopyKept ==
  ASSUME OneRound, Types, NEW s \in Subs, NEW u \in Updates, CopyBudget(s, u),
         Slack \in Nat, Slack' \in Nat, Slack' >= Slack,
         got'[s][u] = got[s][u], NEW w,
         Open(s, u)' => /\ Open(s, u)
                        /\ \/ Marking(s, u) \subseteq Marking(s, u)'
                           \/ Marking(s, u) \subseteq Marking(s, u)' \cup {w} /\ Slack' >= Slack + 1,
         ~Open(s, u)' => Ahead(s, u)' \subseteq Ahead(s, u)
  PROVE  CopyBudget(s, u)'
  <1> DEFINE m == Cardinality(Marking(s, u))
             n == Cardinality(Marking(s, u)')
             a == Cardinality(Ahead(s, u))
             b == Cardinality(Ahead(s, u)')
             W == Cardinality(Workers)
  <1>1. m \in Nat /\ a \in Nat /\ W \in Nat /\ m + a <= W /\ n \in Nat /\ b \in Nat
    BY MarkingOrAhead, MarkingOrAheadNext
  <1>2. got[s][u] \in Nat
    BY DEF Types, TypeOK
  <1>3. Open(s, u)' => m <= n \/ (m <= n + 1 /\ Slack' >= Slack + 1)
    <2>1. CASE Marking(s, u) \subseteq Marking(s, u)'
      <3>1. m <= n
        BY <2>1, MarkingOrAheadNext, FS_Subset
      <3>2. QED
        BY <3>1
    <2>2. CASE Marking(s, u) \subseteq Marking(s, u)' \cup {w}
      <3>1. IsFiniteSet(Marking(s, u)') /\ IsFiniteSet(Marking(s, u)' \cup {w})
        BY MarkingOrAheadNext, FS_AddElement
      <3>2. m <= Cardinality(Marking(s, u)' \cup {w}) /\ Cardinality(Marking(s, u)' \cup {w}) <= n + 1
        BY <2>2, <3>1, FS_Subset, OneMoreLost
      <3>3. Cardinality(Marking(s, u)' \cup {w}) \in Nat
        BY <3>1, FS_CardinalityType
      <3>4. m <= n + 1
        BY <1>1, <3>2, <3>3
      <3>5. CASE Slack' >= Slack + 1
        BY <3>4, <3>5
      <3>6. QED
        BY <2>1, <3>5
    <2>3. QED
      BY <2>1, <2>2
  <1>4. ~Open(s, u)' => b <= a
    BY MarkingOrAhead, FS_Subset
  <1>5. Open(s, u) => got[s][u] <= m + Slack
    BY DEF CopyBudget
  <1>6. ~Open(s, u) => got[s][u] + a <= W + Slack
    BY DEF CopyBudget
  <1>7. CopyBudget(s, u)' <=> IF Open(s, u)' THEN got'[s][u] <= n + Slack' ELSE got'[s][u] + b <= W + Slack'
    BY DEF CopyBudget
  <1> HIDE DEF m, n, a, b, W
  <1>8. CASE Open(s, u)'
    BY <1>1, <1>2, <1>3, <1>5, <1>7, <1>8
  <1>9. CASE ~Open(s, u)'
    BY <1>1, <1>2, <1>4, <1>5, <1>6, <1>7, <1>9
  <1>10. QED
    BY <1>8, <1>9

\* It survives a copy being accepted: its worker was ahead and is now to record it.
LEMMA CopyMade ==
  ASSUME OneRound, Types, NEW s \in Subs, NEW u \in Updates, CopyBudget(s, u),
         Slack \in Nat, Slack' = Slack, row' = row,
         got'[s][u] = got[s][u] + 1, NEW w,
         w \in Ahead(s, u), w \notin Marking(s, u),
         Marking(s, u) \cup {w} \subseteq Marking(s, u)',
         Ahead(s, u)' \subseteq Ahead(s, u) \ {w}
  PROVE  CopyBudget(s, u)'
  <1> DEFINE m == Cardinality(Marking(s, u))
             n == Cardinality(Marking(s, u)')
             a == Cardinality(Ahead(s, u))
             b == Cardinality(Ahead(s, u)')
             W == Cardinality(Workers)
  <1>1. m \in Nat /\ a \in Nat /\ W \in Nat /\ n \in Nat /\ b \in Nat
    BY MarkingOrAhead, MarkingOrAheadNext
  <1>2. got[s][u] \in Nat
    BY DEF Types, TypeOK
  <1>3. m + 1 <= n
    <2>1. IsFiniteSet(Marking(s, u) \cup {w}) /\ Cardinality(Marking(s, u) \cup {w}) = m + 1
      BY MarkingOrAhead, FS_AddElement
    <2>2. QED
      BY <2>1, MarkingOrAheadNext, FS_Subset
  <1>4. b <= a - 1
    <2>1. IsFiniteSet(Ahead(s, u) \ {w}) /\ Cardinality(Ahead(s, u) \ {w}) = a - 1
      BY MarkingOrAhead, FS_RemoveElement
    <2>2. QED
      BY <2>1, FS_Subset
  <1>5. Open(s, u)' <=> Open(s, u)
    BY DEF Open
  <1>6. /\ Open(s, u) => got[s][u] <= m + Slack
        /\ ~Open(s, u) => got[s][u] + a <= W + Slack
    BY DEF CopyBudget
  <1>7. CopyBudget(s, u)' <=> IF Open(s, u)' THEN got'[s][u] <= n + Slack' ELSE got'[s][u] + b <= W + Slack'
    BY DEF CopyBudget
  <1> HIDE DEF m, n, a, b, W
  <1>8. QED
    BY <1>1, <1>2, <1>3, <1>4, <1>5, <1>6, <1>7

\* Around any step.
CopyStep == Copies /\ Types /\ [Next]_vars

\* The slack grows.
LEMMA SlackGrows ==
  ASSUME CopyStep
  PROVE  /\ InBudget'
         /\ Slack \in Nat /\ Slack' \in Nat /\ Slack' >= Slack
         /\ \A k \in {"error", "crash"} : Spend(k) => Slack' >= Slack + 1
  <1>1. \A k \in Kinds : Spent(k) \in Nat /\ Spent(k)' \in Nat /\ Spent(k)' >= Spent(k) /\ budget'[k] <= MaxFaults[k]
    BY SpentGrows DEF CopyStep, Copies
  <1>2. InBudget'
    BY <1>1 DEF InBudget
  <1>3. Slack \in Nat /\ Slack' \in Nat /\ Slack' >= Slack
    BY <1>1, KindsDef DEF Slack
  <1>4. Spend("error") => Slack' >= Slack + 1
    BY <1>1, SpentOne, KindsDef DEF Slack, CopyStep
  <1>5. Spend("crash") => Slack' >= Slack + 1
    BY <1>1, SpentOne, KindsDef DEF Slack, CopyStep
  <1>6. QED
    BY <1>2, <1>3, <1>4, <1>5

\* No row is unqueued and no closed row reopened.
RowsAdvance ==
    \A s \in Subs, u \in Updates :
       /\ row[s][u].st # "none" => row'[s][u].st # "none"
       /\ Open(s, u)' => Open(s, u)

\* A step without a round or a post keeps the copies; what is left is the queues.
LEMMA CopiesQuiet ==
  ASSUME CopyStep, RowsAdvance, UNCHANGED <<rounds, inflight, busy, got>>, QueueOrder'
  PROVE  Copies'
  <1>1. RoundOrder'
    BY RoundsQuiet DEF CopyStep, Types, Copies, RowsAdvance, StaysQueued
  <1>2. Unaccepted'
    BY DEF CopyStep, Copies, Unaccepted, RowsAdvance
  <1>3. ASSUME NEW s \in Subs, NEW u \in Updates PROVE CopyBudget(s, u)'
    <2>1. Marking(s, u) \subseteq Marking(s, u)' /\ Ahead(s, u)' \subseteq Ahead(s, u)
      BY DEF Marking, Ahead
    <2>2. Open(s, u)' => Open(s, u)
      BY DEF RowsAdvance
    <2>3. OneRound /\ CopyBudget(s, u) /\ Types /\ got'[s][u] = got[s][u]
      BY DEF CopyStep, Copies, RoundOrder
    <2>4. QED
      BY <2>1, <2>2, <2>3, SlackGrows, CopyKept
  <1>4. QED
    BY <1>1, <1>2, <1>3, SlackGrows DEF Copies

\* So it is where no row changes.
LEMMA SameRows ==
  ASSUME row' = row
  PROVE  RowsAdvance /\ NothingQueued
  BY DEF RowsAdvance, NothingQueued, Open

\* The steps outside the rounds: subscriptions, queues, backoffs, hand-overs.
LEMMA CopiesOther ==
  ASSUME CopyStep, Next,
         ~\E w \in Workers : Tick(w) \/ ClaimFails(w) \/ ClaimDeliveries(w) \/ Crash(w),
         ~\E w \in Workers : \E r \in rounds[w] : RoundStep(w, r) \/ MarkFails(w, r) \/ FailFails(w, r)
  PROVE  Copies'
  <1> USE DEF registry, session, worker, outside
  <1>0. /\ [NoRow EXCEPT !.st = "gone"].st = "gone" /\ NoRow.st = "none"
        /\ Types /\ TypeOK /\ QueueOrder
    BY BlankRow DEF CopyStep, Types, Copies
  <1>1. ASSUME RowsAdvance, NothingQueued, UNCHANGED <<rounds, inflight, busy, got, outbox, arrived>>
        PROVE  Copies'
    BY <1>0, <1>1, QueueQuiet, CopiesQuiet
  <1>2. ASSUME UNCHANGED <<row, rounds, inflight, busy, got, outbox, arrived>>
        PROVE  Copies'
    BY <1>1, <1>2, SameRows
  <1>3. ASSUME NEW s \in Subs, DeleteSubscription(s) PROVE Copies'
    <2>1. \A z \in Subs, u \in Updates :
            \/ row'[z][u] = row[z][u]
            \/ row[z][u].st = "none" /\ row'[z][u] = NoRow
            \/ row[z][u].st # "none" /\ row'[z][u] = [NoRow EXCEPT !.st = "gone"]
      BY <1>0, <1>3 DEF DeleteSubscription, TypeOK
    <2>2. RowsAdvance /\ NothingQueued
      BY <1>0, <2>1 DEF RowsAdvance, NothingQueued, Open
    <2>3. QED
      BY <1>1, <1>3, <2>2 DEF DeleteSubscription
  <1>4. ASSUME NEW s \in Subs, NEW u \in Updates, BackoffOver(s, u) PROVE Copies'
    <2>1. row[s][u] \in Rows /\ row' = [row EXCEPT ![s][u] = [row[s][u] EXCEPT !.due = TRUE]]
      BY <1>0, <1>4 DEF BackoffOver, TypeOK
    <2>2. [row[s][u] EXCEPT !.due = TRUE].st = row[s][u].st
      BY <2>1, DueRow
    <2>3. \A z \in Subs, v \in Updates : row'[z][v].st = row[z][v].st
      BY <1>0, <2>1, <2>2 DEF TypeOK
    <2>4. RowsAdvance /\ NothingQueued
      BY <2>3 DEF RowsAdvance, NothingQueued, Open
    <2>5. QED
      BY <1>1, <1>4, <2>4 DEF BackoffOver
  <1>5. ASSUME NEW s \in Subs, NEW u \in Updates, PurgeDelivery(s, u) PROVE Copies'
    <2>1. \A z \in Subs, v \in Updates :
            \/ row'[z][v] = row[z][v]
            \/ row[z][v].st # "none" /\ row'[z][v] = [NoRow EXCEPT !.st = "gone"]
      BY <1>0, <1>5 DEF PurgeDelivery, Exists, TypeOK
    <2>2. RowsAdvance /\ NothingQueued
      BY <1>0, <2>1 DEF RowsAdvance, NothingQueued, Open
    <2>3. QED
      BY <1>1, <1>5, <2>2 DEF PurgeDelivery
  <1>6. ASSUME NEW w \in Workers, WriteOutbox(w) \/ WriteFails(w) PROVE Copies'
    <2>1. QueueOrder' /\ \A s \in Subs, u \in Updates :
              \/ row'[s][u] = row[s][u]
              \/ row[s][u].st = "none" /\ row'[s][u].st = "pending"
      BY <1>0, <1>6, QueueWrite
    <2>2. RowsAdvance
      BY <2>1 DEF RowsAdvance, Open
    <2>3. UNCHANGED <<rounds, inflight, busy, got>>
      BY <1>6 DEF WriteOutbox, WriteFails
    <2>4. QED
      BY <2>1, <2>2, <2>3, CopiesQuiet
  <1>7. ASSUME NEW u \in Updates, UpdateArrives(u) PROVE Copies'
    <2>1. QueueOrder' /\ UNCHANGED <<row, rounds, inflight, busy, got>>
      BY <1>0, <1>7, QueueArrive DEF UpdateArrives
    <2>2. QED
      BY <2>1, SameRows, CopiesQuiet
  <1>8. CASE Subscriptions
    BY <1>2, <1>3, <1>8
       DEF Subscriptions, CreateSubscription, ChangeToken, LoadFilters, LoadFails, ApplySnapshot
  <1>9. CASE Queue
    BY <1>2, <1>6, <1>7, <1>9 DEF Queue, FlushTake, AddDropped, AddDroppedFails
  <1>10. CASE Dispatch
    BY <1>4, <1>5, <1>10 DEF Dispatch
  <1>11. CASE Move
    BY <1>2, <1>11 DEF Move, Release, Acquire
  <1>12. QED
    BY <1>8, <1>9, <1>10, <1>11 DEF Next

\* The dispatcher's ticks and a crash, which may lose one mark of its worker.
LEMMA CopiesTick ==
  ASSUME CopyStep, NEW w \in Workers, Tick(w) \/ ClaimFails(w) \/ Crash(w)
  PROVE  Copies'
  <1> USE DEF registry, session, outside
  <1>0. Types /\ TypeOK /\ QueueOrder /\ RoundOrder /\ OneRound
    BY DEF CopyStep, Types, Copies, RoundOrder
  <1>1. UNCHANGED <<row, arrived, got>>
    BY DEF Tick, ClaimFails, Crash
  <1>2. QueueOrder'
    <2>1. \A v \in Workers : outbox'[v] \in {outbox[v], <<>>}
      BY <1>0 DEF Tick, ClaimFails, Crash, TypeOK
    <2>2. QED
      BY <1>0, <1>1, <2>1, SameRows, QueueQuiet
  <1>3. RoundOrder'
    BY <1>0, RoundsTick
  <1>4. Unaccepted'
    BY <1>1 DEF CopyStep, Copies, Unaccepted
  <1>5. /\ \A v \in Workers : v # w => rounds'[v] = rounds[v]
        /\ rounds'[w] \subseteq rounds[w]
        /\ rounds' = rounds \/ Spend("crash")
    BY <1>0 DEF Tick, ClaimFails, Crash, TypeOK
  <1>6. ASSUME NEW s \in Subs, NEW u \in Updates PROVE CopyBudget(s, u)'
    <2>1. Ahead(s, u)' \subseteq Ahead(s, u)
      BY <1>5 DEF Ahead
    <2>2. Marking(s, u) \subseteq Marking(s, u)' \cup {w}
      BY <1>5 DEF Marking
    <2>3. rounds' = rounds => Marking(s, u) \subseteq Marking(s, u)'
      BY DEF Marking
    <2>4. Open(s, u)' => Open(s, u)
      BY <1>1 DEF Open
    <2>5. CopyBudget(s, u) /\ got'[s][u] = got[s][u]
      BY <1>1 DEF CopyStep, Copies
    <2>6. Spend("crash") => Slack' >= Slack + 1
      BY SlackGrows
    <2>7. QED
      BY <1>0, <1>5, <2>1, <2>2, <2>3, <2>4, <2>5, <2>6, SlackGrows, CopyKept
  <1>7. QED
    BY <1>2, <1>3, <1>4, <1>6, SlackGrows DEF Copies

\* A claim: only pending rows are claimed, so nobody gets ahead on a closed one.
LEMMA CopiesClaim ==
  ASSUME CopyStep, NEW w \in Workers, ClaimDeliveries(w)
  PROVE  Copies'
  <1>0. Types /\ TypeOK /\ QueueOrder /\ RoundOrder /\ OneRound /\ TickSees
    BY DEF CopyStep, Types, Copies, RoundOrder
  <1>1. UNCHANGED <<row, arrived, got, outbox>>
    BY DEF ClaimDeliveries, registry, outside
  <1>2. QueueOrder'
    BY <1>0, <1>1, SameRows, QueueQuiet
  <1>3. RoundOrder'
    BY <1>0, RoundsClaim
  <1>4. Unaccepted'
    BY <1>1 DEF CopyStep, Copies, Unaccepted
  <1>5. /\ \A v \in Workers : rounds[v] \subseteq rounds'[v]
        /\ \A v \in Workers : \A r \in rounds'[v] : r \in rounds[v] \/ Fresh(w, r)
    BY <1>0, ClaimFresh
  <1>6. ASSUME NEW s \in Subs, NEW u \in Updates PROVE CopyBudget(s, u)'
    <2>1. Marking(s, u) \subseteq Marking(s, u)'
      BY <1>5 DEF Marking
    <2>2. ~Open(s, u)' => Ahead(s, u)' \subseteq Ahead(s, u)
      BY <1>1, <1>5 DEF Ahead, Open, Fresh
    <2>3. Open(s, u)' => Open(s, u)
      BY <1>1 DEF Open
    <2>4. CopyBudget(s, u) /\ got'[s][u] = got[s][u]
      BY <1>1 DEF CopyStep, Copies
    <2>5. QED
      BY <1>0, <2>1, <2>2, <2>3, <2>4, SlackGrows, CopyKept
  <1>7. QED
    BY <1>2, <1>3, <1>4, <1>6, SlackGrows DEF Copies

\* A post: accepted, its worker leaves those ahead for those about to record.
LEMMA CopiesPost ==
  ASSUME CopyStep, NEW w \in Workers, NEW r \in rounds[w], NEW x \in Updates, NEW ok \in BOOLEAN,
         Post(w, r, x, ok)
  PROVE  Copies'
  <1> DEFINE q == [r EXCEPT !.now = x, !.at = IF ok THEN "mark" ELSE "fail"]
  <1>0. /\ Types /\ TypeOK /\ QueueOrder /\ RoundOrder /\ OneRound /\ Started
        /\ r \in Rounds /\ r.sub \in Subs /\ r.at = "post" /\ x \in r.todo
    BY RoundTypes DEF CopyStep, Types, Copies, RoundOrder, Post, InRound
  <1>1. q.sub = r.sub /\ q.now = x /\ q.todo = r.todo /\ q.at = IF ok THEN "mark" ELSE "fail"
    BY <1>0 DEF Rounds
  <1>2. /\ rounds' = [rounds EXCEPT ![w] = (@ \ {r}) \cup {q}]
        /\ UNCHANGED <<row, budget, inflight, busy, outbox, arrived>>
        /\ got' = [got EXCEPT ![r.sub][x] = IF ok THEN @ + 1 ELSE @]
    BY DEF Post, Become, registry
  <1> HIDE DEF q
  <1>3. RoundOrder'
    <2>1. Moves(w, r, q)
      BY <1>0, <1>1, <1>2 DEF Moves
    <2>2. StaysQueued
      BY <1>2 DEF StaysQueued
    <2>3. QED
      BY <1>0, <1>2, <2>1, <2>2, RoundsMove
  <1>4. QueueOrder'
    BY <1>0, <1>2, SameRows, QueueQuiet
  <1>5. \A s \in Subs, u \in Updates :
          got'[s][u] = IF s = r.sub /\ u = x /\ ok THEN got[s][u] + 1 ELSE got[s][u]
    BY <1>0, <1>2 DEF TypeOK
  <1>6. Unaccepted'
    <2>1. row[r.sub][x].st # "none"
      BY <1>0 DEF Started
    <2>2. QED
      BY <1>2, <1>5, <2>1 DEF CopyStep, Copies, Unaccepted
  <1>7. /\ rounds'[w] = (rounds[w] \ {r}) \cup {q}
        /\ \A v \in Workers : v # w => rounds'[v] = rounds[v]
        /\ \A p \in rounds[w] : p.sub = r.sub => p = r
    BY <1>0, <1>2 DEF TypeOK, OneRound
  <1>8. ASSUME NEW s \in Subs, NEW u \in Updates PROVE CopyBudget(s, u)'
    <2>0. /\ CopyBudget(s, u) /\ Slack' = Slack
          /\ Open(s, u)' <=> Open(s, u)
      BY <1>2 DEF CopyStep, Copies, Slack, Spent, Open
    <2>1. Marking(s, u) \subseteq Marking(s, u)'
      BY <1>0, <1>7 DEF Marking
    <2>2. Ahead(s, u)' \subseteq Ahead(s, u)
      <3> SUFFICES ASSUME NEW v \in Workers, NEW p \in rounds'[v],
                          p.sub = s, u \in p.todo, ~(p.now = u /\ p.at = "mark")
                   PROVE  v \in Ahead(s, u)
        BY DEF Ahead
      <3>1. CASE p \in rounds[v]
        BY <3>1 DEF Ahead
      <3>2. CASE p = q /\ v = w
        <4>1. r.sub = s /\ u \in r.todo /\ r.at # "mark"
          BY <1>0, <1>1, <3>2
        <4>2. QED
          BY <3>2, <4>1 DEF Ahead
      <3>3. QED
        BY <1>7, <3>1, <3>2
    <2>3. CASE s = r.sub /\ u = x /\ ok
      <3>1. w \in Ahead(s, u) /\ w \notin Marking(s, u)
        BY <1>0, <1>7, <2>3 DEF Ahead, Marking
      <3>2. w \in Marking(s, u)'
        BY <1>1, <1>7, <2>3 DEF Marking
      <3>3. w \notin Ahead(s, u)'
        BY <1>1, <1>7, <2>3 DEF Ahead
      <3>4. got'[s][u] = got[s][u] + 1
        BY <1>5, <2>3
      <3>5. QED
        BY <1>0, <1>2, <2>0, <2>1, <2>2, <3>1, <3>2, <3>3, <3>4, SlackGrows, CopyMade
    <2>4. CASE ~(s = r.sub /\ u = x /\ ok)
      <3>1. got'[s][u] = got[s][u]
        BY <1>5, <2>4
      <3>2. QED
        BY <1>0, <2>0, <2>1, <2>2, <3>1, SlackGrows, CopyKept
    <2>5. QED
      BY <2>3, <2>4
  <1>9. QED
    BY <1>3, <1>4, <1>6, <1>8, SlackGrows DEF Copies

\* The other steps of a round: recording closes the row, a mark that fails is
\* charged to the fault.
LEMMA CopiesPass ==
  ASSUME CopyStep, NEW w \in Workers, NEW r \in rounds[w],
         \/ MarkDelivered(w, r) \/ FailDelivery(w, r) \/ RoundDone(w, r)
         \/ MarkFails(w, r) \/ FailFails(w, r)
  PROVE  Copies'
  <1> USE DEF registry, session, outside
  <1> DEFINE q == [r EXCEPT !.todo = @ \ {r.now}, !.now = None, !.at = "post"]
             new == IF r.at = "mark"
                    THEN [st |-> "delivered", att |-> row[r.sub][r.now].att + 1, due |-> row[r.sub][r.now].due]
                    ELSE Failed(r, row[r.sub][r.now])
  <1>0. /\ Types /\ TypeOK /\ QueueOrder /\ RoundOrder /\ OneRound /\ Started
        /\ r \in Rounds /\ r.sub \in Subs /\ r.todo \subseteq Updates
    BY RoundTypes DEF CopyStep, Types, Copies, RoundOrder
  <1>1. /\ r.at # "post" => r.now \in r.todo /\ r.now \in Updates
        /\ \A u \in r.todo : row[r.sub][u].st # "none"
    BY <1>0 DEF Started
  <1>2. q.sub = r.sub /\ q.todo = r.todo \ {r.now} /\ q.at = "post"
    BY <1>0 DEF Rounds
  <1>3. \/ rounds' = [rounds EXCEPT ![w] = (@ \ {r}) \cup {q}] /\ UNCHANGED inflight
        \/ EndRound(w, r)
    BY DEF MarkDelivered, FailDelivery, RoundDone, MarkFails, FailFails, NextRow, Become
  <1>4. UNCHANGED <<busy, outbox, arrived, got>>
    BY DEF MarkDelivered, FailDelivery, RoundDone, MarkFails, FailFails
  <1> HIDE DEF q
  <1>5. RowsAdvance /\ NothingQueued /\ (MarkDelivered(w, r) => ~Open(r.sub, r.now)')
    <2>1. CASE RoundDone(w, r) \/ MarkFails(w, r) \/ FailFails(w, r)
      <3>1. row' = row
        BY <2>1 DEF RoundDone, MarkFails, FailFails
      <3>2. CASE ~MarkDelivered(w, r)
        BY <3>1, <3>2, SameRows
      <3>3. CASE MarkDelivered(w, r)
        <4>1. /\ r.at = "mark" /\ row[r.sub][r.now].st # "none" /\ r.now \in Updates
              /\ row' = [row EXCEPT ![r.sub][r.now] = IF Exists(r.sub, r.now) THEN new ELSE @]
          BY <1>1, <3>3 DEF MarkDelivered, SetRow, InRound
        <4>2. row'[r.sub][r.now] = IF Exists(r.sub, r.now) THEN new ELSE row[r.sub][r.now]
          BY <1>0, <4>1 DEF TypeOK
        <4>3. row'[r.sub][r.now].st \notin {"none", "pending"}
          BY <4>1, <4>2 DEF Exists
        <4>4. QED
          BY <3>1, <4>3, SameRows DEF Open
      <3>4. QED
        BY <3>2, <3>3
    <2>2. CASE MarkDelivered(w, r) \/ FailDelivery(w, r)
      <3>1. /\ r.at \in {"mark", "fail"}
            /\ MarkDelivered(w, r) => r.at = "mark"
            /\ row' = [row EXCEPT ![r.sub][r.now] = IF Exists(r.sub, r.now) THEN new ELSE @]
        BY <2>2 DEF MarkDelivered, FailDelivery, SetRow, InRound
      <3>2. r.now \in Updates /\ row[r.sub][r.now].st # "none"
        BY <1>1, <3>1
      <3>3. new.st \in {"delivered", "failed", row[r.sub][r.now].st} /\ (r.at = "mark" => new.st = "delivered")
        BY <3>1 DEF Failed
      <3> HIDE DEF new
      <3>4. /\ row'[r.sub][r.now] = IF Exists(r.sub, r.now) THEN new ELSE row[r.sub][r.now]
            /\ \A s \in Subs, u \in Updates : ~(s = r.sub /\ u = r.now) => row'[s][u] = row[s][u]
        BY <1>0, <3>1, <3>2 DEF TypeOK
      <3>5. /\ row'[r.sub][r.now].st # "none"
            /\ Open(r.sub, r.now)' => Open(r.sub, r.now)
            /\ r.at = "mark" => ~Open(r.sub, r.now)'
        BY <3>2, <3>3, <3>4 DEF Exists, Open
      <3>6. RowsAdvance /\ NothingQueued
        BY <3>2, <3>4, <3>5 DEF RowsAdvance, NothingQueued, Open
      <3>7. QED
        BY <3>1, <3>5, <3>6
    <2>3. QED
      BY <2>1, <2>2
  <1>6. QueueOrder'
    BY <1>0, <1>4, <1>5, QueueQuiet
  <1>7. RoundOrder'
    <2>1. EndRound(w, r) \/ \E z : Moves(w, r, z)
      BY <1>2, <1>3 DEF Moves
    <2>2. StaysQueued
      BY <1>5 DEF RowsAdvance, StaysQueued
    <2>3. QED
      BY <1>0, <1>4, <2>1, <2>2, RoundsMove
  <1>8. Unaccepted'
    BY <1>4, <1>5 DEF CopyStep, Copies, Unaccepted, RowsAdvance
  <1>9. /\ \A v \in Workers : \A p \in rounds'[v] : p \in rounds[v] \/ (v = w /\ p = q)
        /\ \A v \in Workers : \A p \in rounds[v] : p \in rounds'[v] \/ (v = w /\ p = r)
    <2>1. rounds'[w] = (rounds[w] \ {r}) \cup {q} \/ rounds'[w] = rounds[w] \ {r}
      BY <1>0, <1>3 DEF EndRound, TypeOK
    <2>2. \A v \in Workers : v # w => rounds'[v] = rounds[v]
      BY <1>0, <1>3 DEF EndRound, TypeOK
    <2>3. QED
      BY <2>1, <2>2
  <1>10. r.at = "mark" => MarkDelivered(w, r) \/ Spend("error")
    BY DEF MarkFails, FailDelivery, FailFails, RoundDone, InRound
  <1>11. ASSUME NEW s \in Subs, NEW u \in Updates PROVE CopyBudget(s, u)'
    <2>0. CopyBudget(s, u) /\ got'[s][u] = got[s][u] /\ (Open(s, u)' => Open(s, u))
      BY <1>4, <1>5 DEF CopyStep, Copies, RowsAdvance
    <2>1. Ahead(s, u)' \subseteq Ahead(s, u)
      <3> SUFFICES ASSUME NEW v \in Workers, NEW p \in rounds'[v],
                          p.sub = s, u \in p.todo, ~(p.now = u /\ p.at = "mark")
                   PROVE  v \in Ahead(s, u)
        BY DEF Ahead
      <3>1. CASE p \in rounds[v]
        BY <3>1 DEF Ahead
      <3>2. CASE p = q /\ v = w
        <4>1. r.sub = s /\ u \in r.todo /\ r.now # u
          BY <1>2, <3>2
        <4>2. QED
          BY <3>2, <4>1 DEF Ahead
      <3>3. QED
        BY <1>9, <3>1, <3>2
    <2>2. Marking(s, u) \subseteq Marking(s, u)' \cup {w}
      BY <1>9 DEF Marking
    <2>3. CASE s = r.sub /\ u = r.now /\ r.at = "mark"
      <3>1. CASE MarkDelivered(w, r)
        <4>1. ~Open(s, u)'
          BY <1>5, <2>3, <3>1
        <4>2. QED
          BY <1>0, <2>0, <2>1, <4>1, SlackGrows, CopyKept
      <3>2. CASE Spend("error")
        <4>1. Slack' >= Slack + 1
          BY <3>2, SlackGrows
        <4>2. QED
          BY <1>0, <2>0, <2>1, <2>2, <4>1, SlackGrows, CopyKept
      <3>3. QED
        BY <1>10, <2>3, <3>1, <3>2
    <2>4. CASE ~(s = r.sub /\ u = r.now /\ r.at = "mark")
      <3>1. Marking(s, u) \subseteq Marking(s, u)'
        BY <1>9, <2>4 DEF Marking
      <3>2. QED
        BY <1>0, <2>0, <2>1, <3>1, SlackGrows, CopyKept
    <2>5. QED
      BY <2>3, <2>4
  <1>12. QED
    BY <1>6, <1>7, <1>8, <1>11, SlackGrows DEF Copies

\* Every step keeps the copies within their budget.
LEMMA CopiesNext ==
  ASSUME Copies, Types, [Next]_vars
  PROVE  Copies'
  <1>0. CopyStep
    BY DEF CopyStep
  <1>1. CASE UNCHANGED vars
    <2>1. UNCHANGED <<row, rounds, inflight, busy, got, outbox, arrived>>
      BY <1>1 DEF vars
    <2>2. QueueOrder'
      BY <2>1, SameRows, QueueQuiet DEF Copies, Types
    <2>3. QED
      BY <1>0, <2>1, <2>2, SameRows, CopiesQuiet
  <1>2. ASSUME NEW w \in Workers, Tick(w) \/ ClaimFails(w) \/ ClaimDeliveries(w) \/ Crash(w)
        PROVE  Copies'
    BY <1>0, <1>2, CopiesTick, CopiesClaim
  <1>3. ASSUME NEW w \in Workers, NEW r \in rounds[w],
               RoundStep(w, r) \/ MarkFails(w, r) \/ FailFails(w, r)
        PROVE  Copies'
    <2>1. ASSUME NEW u \in Updates, NEW ok \in BOOLEAN, Post(w, r, u, ok) PROVE Copies'
      BY <1>0, <2>1, CopiesPost
    <2>2. ASSUME \/ MarkDelivered(w, r) \/ FailDelivery(w, r) \/ RoundDone(w, r)
                 \/ MarkFails(w, r) \/ FailFails(w, r)
          PROVE  Copies'
      BY <1>0, <2>2, CopiesPass
    <2>3. QED
      BY <1>3, <2>1, <2>2 DEF RoundStep
  <1>4. QED
    BY <1>0, <1>1, <1>2, <1>3, CopiesOther

\* CopiesBounded: whatever hand-overs, crashes, failed writes and revocations happen,
\* a receiver accepts a delivery at most once from each worker, but for the copies
\* whose record a fault swallowed (deliverOne, MarkDelivered, ClaimDeliveries, the
\* busy set and the status filter of the claim).
THEOREM CopiesStayBounded == Spec => []CopiesBounded
  <1>1. Init => Copies
    <2> SUFFICES ASSUME Init PROVE Copies
      OBVIOUS
    <2>1. /\ \A s \in Subs, u \in Updates : row[s][u].st = "none" /\ got[s][u] = 0
          /\ \A w \in Workers : rounds[w] = {} /\ outbox[w] = <<>> /\ ~busy[w].tick
      BY DEF Init, NoRow
    <2>2. \A k \in Kinds : budget[k] = MaxFaults[k] /\ MaxFaults[k] \in Nat
      BY DeliveryAssumption DEF Init
    <2>3. Slack = 0
      BY <2>2, KindsDef DEF Slack, Spent
    <2>4. InBudget
      BY <2>2 DEF InBudget
    <2>5. QueueOrder /\ RoundOrder /\ Unaccepted
      BY <2>1 DEF QueueOrder, Unseen, QueuedOnce, RoundOrder, OneRound, TickSees, Started, Unaccepted
    <2>6. ASSUME NEW s \in Subs, NEW u \in Updates PROVE CopyBudget(s, u)
      <3>1. Cardinality(Marking(s, u)) \in Nat
        BY <2>5, MarkingOrAhead DEF RoundOrder
      <3>2. QED
        BY <2>1, <2>3, <3>1 DEF CopyBudget, Open
    <2>7. QED
      BY <2>4, <2>5, <2>6 DEF Copies
  <1>2. TypeOK /\ TypeOK' /\ Copies /\ [Next]_vars => Copies'
    BY CopiesNext DEF Types
  <1>3. TypeOK /\ Copies => CopiesBounded
    <2> SUFFICES ASSUME TypeOK, Copies, NEW s \in Subs, NEW u \in Updates
                 PROVE  got[s][u] <= Cardinality(Workers) + Spent("error") + Spent("crash")
      BY DEF CopiesBounded
    <2>1. /\ Spent("error") \in Nat /\ Spent("crash") \in Nat
      <3>1. budget \in [Kinds -> Nat] /\ MaxFaults \in [Kinds -> Nat]
        BY DeliveryAssumption DEF TypeOK
      <3>2. QED
        BY <3>1, KindsDef DEF Spent, Copies, InBudget
    <2>2. /\ Cardinality(Marking(s, u)) \in Nat /\ Cardinality(Ahead(s, u)) \in Nat
          /\ Cardinality(Workers) \in Nat
          /\ Cardinality(Marking(s, u)) + Cardinality(Ahead(s, u)) <= Cardinality(Workers)
      BY MarkingOrAhead DEF Copies, RoundOrder
    <2>3. CopyBudget(s, u) /\ got[s][u] \in Nat
      BY DEF Copies, TypeOK
    <2>4. QED
      BY <2>1, <2>2, <2>3 DEF CopyBudget, Slack
  <1>4. QED
    BY <1>1, <1>2, <1>3, TypeCorrect, PTL DEF Spec

=============================================================================
