--------------------------- MODULE DeliveryProofs ---------------------------
(***************************************************************************)
(* TypeOK, VerdictsEarned and PreCheckCovers of Delivery for every set of  *)
(* workers, subscriptions and updates, every filter and all faults, and    *)
(* the proof that Delivery implements DeliveryContract.                    *)
(***************************************************************************)
EXTENDS Delivery, FiniteSetTheorems, TLAPS

\* The part of TypeOK the ledger below needs.
RowTypes ==
    /\ row \in [Subs -> [Updates -> Rows]]
    /\ tried \in [Subs -> [Updates -> Nat]]
    /\ got \in [Subs -> [Updates -> Nat]]
    /\ rounds \in [Workers -> SUBSET Rounds]

\* The posts whose outcome the registry does not know yet.
Unrecorded(s, u) ==
    {p \in Workers \X UNION {rounds[w] : w \in Workers} :
       p[2] \in rounds[p[1]] /\ p[2].sub = s /\ p[2].now = u /\ p[2].at # "post"}

\* The attempts a row counts and the posts still to be recorded never exceed the
\* posts made: what lets two workers judge one row without judging it early.
Ledger ==
    \A s \in Subs, u \in Updates :
       /\ IsFiniteSet(Unrecorded(s, u))
       /\ row[s][u].att + Cardinality(Unrecorded(s, u)) <= tried[s][u]

\* What a round has in memory is covered by posts that happened.
Honest(r) ==
    /\ \A u \in Updates : r.att[u] <= tried[r.sub][u]
    /\ r.at # "post" => r.now \in Updates
    /\ r.at = "fail" => r.att[r.now] + 1 <= tried[r.sub][r.now]
    /\ r.at = "mark" => got[r.sub][r.now] > 0

HonestRounds == \A w \in Workers : \A r \in rounds[w] : Honest(r)

\* The inductive invariant behind VerdictsEarned.
Earned == RowTypes /\ Ledger /\ HonestRounds /\ VerdictsEarned

\* Membership in Unrecorded.
LEMMA UnrecordedDef ==
  ASSUME NEW s, NEW u
  PROVE  /\ \A w, r : <<w, r>> \in Unrecorded(s, u) <=>
                      w \in Workers /\ r \in rounds[w] /\ r.sub = s /\ r.now = u /\ r.at # "post"
         /\ \A p \in Unrecorded(s, u) : p = <<p[1], p[2]>>
  BY DEF Unrecorded

\* Membership in Unrecorded after a step.
LEMMA UnrecordedDefPrime ==
  ASSUME NEW s, NEW u
  PROVE  /\ \A w, r : <<w, r>> \in Unrecorded(s, u)' <=>
                      w \in Workers /\ r \in rounds'[w] /\ r.sub = s /\ r.now = u /\ r.at # "post"
         /\ \A p \in Unrecorded(s, u)' : p = <<p[1], p[2]>>
  BY DEF Unrecorded

\* A row counts its attempts.
LEMMA AttemptsNat ==
  ASSUME NEW old \in Rows
  PROVE  old.att \in Nat
  BY DEF Rows

\* MarkDelivered and a FailDelivery that gives up write a row.
LEMMA JudgedRow ==
  ASSUME NEW old \in Rows, NEW st \in {"delivered", "failed"}
  PROVE  [st |-> st, att |-> old.att + 1, due |-> old.due] \in Rows
  BY DEF Rows

\* A FailDelivery that reschedules writes a row.
LEMMA RetriedRow ==
  ASSUME NEW old \in Rows
  PROVE  [st |-> old.st, att |-> old.att + 1, due |-> FALSE] \in Rows
  <1>1. old.st \in {"none", "pending", "delivered", "failed", "gone"} /\ old.att + 1 \in Nat
    BY DEF Rows
  <1>2. QED
    BY <1>1 DEF Rows

\* A row whose backoff is over is the same row, due.
LEMMA DueRow ==
  ASSUME NEW old \in Rows
  PROVE  /\ [old EXCEPT !.due = TRUE] \in Rows
         /\ [old EXCEPT !.due = TRUE].st = old.st
         /\ [old EXCEPT !.due = TRUE].att = old.att
  BY DEF Rows

\* A row that is not there, never or no longer, has no attempts.
LEMMA BlankRow ==
  /\ NoRow \in Rows /\ NoRow.st = "none" /\ NoRow.att = 0
  /\ [NoRow EXCEPT !.st = "gone"] \in Rows
  /\ [NoRow EXCEPT !.st = "gone"].st = "gone" /\ [NoRow EXCEPT !.st = "gone"].att = 0
  BY DEF Rows, NoRow

\* A round claimed for some updates is a round.
LEMMA StartRoundType ==
  ASSUME RowTypes, NEW s \in Subs, NEW us \in SUBSET Updates
  PROVE  StartRound(s, us) \in Rounds
  BY DEF StartRound, Rounds, RowTypes, Rows

\* The ledger survives a step that makes no post and records none.
LEMMA Shrinks ==
  ASSUME Ledger, NEW s \in Subs, NEW u \in Updates, RowTypes,
         Unrecorded(s, u)' \subseteq Unrecorded(s, u),
         row'[s][u].att \in Nat, tried'[s][u] = tried[s][u], row'[s][u].att <= row[s][u].att
  PROVE  /\ IsFiniteSet(Unrecorded(s, u)')
         /\ row'[s][u].att + Cardinality(Unrecorded(s, u)') <= tried'[s][u]
  <1>1. IsFiniteSet(Unrecorded(s, u)) /\ row[s][u].att + Cardinality(Unrecorded(s, u)) <= tried[s][u]
    BY DEF Ledger
  <1>2. IsFiniteSet(Unrecorded(s, u)') /\ Cardinality(Unrecorded(s, u)') <= Cardinality(Unrecorded(s, u))
    BY <1>1, FS_Subset
  <1>3. Cardinality(Unrecorded(s, u)') \in Nat /\ Cardinality(Unrecorded(s, u)) \in Nat
    BY <1>1, <1>2, FS_CardinalityType
  <1>4. row[s][u].att \in Nat /\ tried[s][u] \in Nat
    BY DEF RowTypes, Rows
  <1>5. QED
    BY <1>1, <1>2, <1>3, <1>4

\* The ledger survives a step that counts one attempt for one post.
LEMMA Recorded ==
  ASSUME Ledger, NEW s \in Subs, NEW u \in Updates, RowTypes, NEW x \in Unrecorded(s, u),
         Unrecorded(s, u)' \subseteq Unrecorded(s, u) \ {x},
         row'[s][u].att \in Nat, tried'[s][u] = tried[s][u], row'[s][u].att <= row[s][u].att + 1
  PROVE  /\ IsFiniteSet(Unrecorded(s, u)')
         /\ row'[s][u].att + Cardinality(Unrecorded(s, u)') <= tried'[s][u]
  <1>1. IsFiniteSet(Unrecorded(s, u)) /\ row[s][u].att + Cardinality(Unrecorded(s, u)) <= tried[s][u]
    BY DEF Ledger
  <1>2. /\ IsFiniteSet(Unrecorded(s, u) \ {x})
        /\ Cardinality(Unrecorded(s, u) \ {x}) = Cardinality(Unrecorded(s, u)) - 1
    BY <1>1, FS_RemoveElement
  <1>3. IsFiniteSet(Unrecorded(s, u)') /\ Cardinality(Unrecorded(s, u)') <= Cardinality(Unrecorded(s, u) \ {x})
    BY <1>2, FS_Subset
  <1>4. Cardinality(Unrecorded(s, u)') \in Nat /\ Cardinality(Unrecorded(s, u)) \in Nat
    BY <1>1, <1>3, FS_CardinalityType
  <1>5. row[s][u].att \in Nat /\ tried[s][u] \in Nat
    BY DEF RowTypes, Rows
  <1>6. QED
    BY <1>1, <1>2, <1>3, <1>4, <1>5

\* The ledger survives a post.
LEMMA Posted ==
  ASSUME Ledger, NEW s \in Subs, NEW u \in Updates, RowTypes, NEW x,
         Unrecorded(s, u)' \subseteq Unrecorded(s, u) \cup {x},
         row'[s][u] = row[s][u], tried'[s][u] = tried[s][u] + 1
  PROVE  /\ IsFiniteSet(Unrecorded(s, u)')
         /\ row'[s][u].att + Cardinality(Unrecorded(s, u)') <= tried'[s][u]
  <1>1. IsFiniteSet(Unrecorded(s, u)) /\ row[s][u].att + Cardinality(Unrecorded(s, u)) <= tried[s][u]
    BY DEF Ledger
  <1>2. /\ IsFiniteSet(Unrecorded(s, u) \cup {x})
        /\ Cardinality(Unrecorded(s, u)) \in Nat
        /\ Cardinality(Unrecorded(s, u) \cup {x}) <= Cardinality(Unrecorded(s, u)) + 1
    <2> DEFINE U == Unrecorded(s, u)
    <2>1. Cardinality(U) \in Nat
      BY <1>1, FS_CardinalityType
    <2>2. CASE x \in U
      <3>1. U \cup {x} = U
        BY <2>2
      <3>2. QED
        BY <1>1, <2>1, <3>1
    <2>3. CASE x \notin U
      <3>1. IsFiniteSet(U \cup {x}) /\ Cardinality(U \cup {x}) = Cardinality(U) + 1
        BY <1>1, <2>3, FS_AddElement
      <3>2. QED
        BY <2>1, <3>1
    <2>4. QED
      BY <2>2, <2>3
  <1>3. IsFiniteSet(Unrecorded(s, u)') /\ Cardinality(Unrecorded(s, u)') <= Cardinality(Unrecorded(s, u) \cup {x})
    BY <1>2, FS_Subset
  <1>4. Cardinality(Unrecorded(s, u)') \in Nat /\ Cardinality(Unrecorded(s, u) \cup {x}) \in Nat
    BY <1>2, <1>3, FS_CardinalityType
  <1>5. row[s][u].att \in Nat /\ tried[s][u] \in Nat
    BY DEF RowTypes, Rows
  <1>6. QED
    BY <1>1, <1>2, <1>3, <1>4, <1>5

\* Steps that touch neither rounds nor receivers, and judge no row.
Quiet ==
    /\ UNCHANGED <<rounds, tried, got>>
    /\ row' \in [Subs -> [Updates -> Rows]]
    /\ \A s \in Subs, u \in Updates :
         /\ row'[s][u].att <= row[s][u].att
         /\ row'[s][u].st \in {"delivered", "failed"} => row'[s][u].st = row[s][u].st

\* Quiet steps keep the invariant.
LEMMA QuietStep ==
  ASSUME Earned, Quiet
  PROVE  Earned'
  <1>1. RowTypes'
    BY DEF Earned, RowTypes, Quiet
  <1>2. Ledger'
    <2> SUFFICES ASSUME NEW s \in Subs, NEW u \in Updates
                 PROVE  /\ IsFiniteSet(Unrecorded(s, u)')
                        /\ row'[s][u].att + Cardinality(Unrecorded(s, u)') <= tried'[s][u]
      BY DEF Ledger
    <2>1. Unrecorded(s, u)' \subseteq Unrecorded(s, u)
      BY DEF Unrecorded, Quiet
    <2>2. row'[s][u].att \in Nat
      BY <1>1 DEF RowTypes, Rows
    <2>3. row'[s][u].att <= row[s][u].att /\ tried'[s][u] = tried[s][u]
      BY DEF Quiet
    <2>4. QED
      BY <2>1, <2>2, <2>3, Shrinks DEF Earned
  <1>3. HonestRounds'
    BY DEF Earned, HonestRounds, Honest, Quiet
  <1>4. VerdictsEarned'
    BY DEF Earned, VerdictsEarned, Quiet
  <1>5. QED
    BY <1>1, <1>2, <1>3, <1>4 DEF Earned

\* Steps that only start or end rounds, or pass over a row.
Skips ==
    /\ UNCHANGED <<row, tried, got>>
    /\ rounds' \in [Workers -> SUBSET Rounds]
    /\ \A w \in Workers : \A r \in rounds'[w] :
         \/ r \in rounds[w]
         \/ r.at = "post" /\ \A u \in Updates : r.att[u] <= tried[r.sub][u]

\* Such steps keep the invariant.
LEMMA SkipStep ==
  ASSUME Earned, Skips
  PROVE  Earned'
  <1>1. RowTypes'
    BY DEF Earned, RowTypes, Skips
  <1>2. Ledger'
    <2> SUFFICES ASSUME NEW s \in Subs, NEW u \in Updates
                 PROVE  /\ IsFiniteSet(Unrecorded(s, u)')
                        /\ row'[s][u].att + Cardinality(Unrecorded(s, u)') <= tried'[s][u]
      BY DEF Ledger
    <2>1. Unrecorded(s, u)' \subseteq Unrecorded(s, u)
      BY UnrecordedDef, UnrecordedDefPrime DEF Skips
    <2>2. row'[s][u].att \in Nat /\ row'[s][u].att <= row[s][u].att /\ tried'[s][u] = tried[s][u]
      BY <1>1 DEF RowTypes, Rows, Skips
    <2>3. QED
      BY <2>1, <2>2, Shrinks DEF Earned
  <1>3. HonestRounds'
    BY DEF Earned, HonestRounds, Honest, Skips
  <1>4. VerdictsEarned'
    BY DEF Earned, VerdictsEarned, Skips
  <1>5. QED
    BY <1>1, <1>2, <1>3, <1>4 DEF Earned

\* A post keeps the invariant, whatever the receiver answers.
LEMMA PostStep ==
  ASSUME Earned, NEW w \in Workers, NEW r \in rounds[w], NEW x \in Updates, NEW ok \in BOOLEAN,
         Post(w, r, x, ok)
  PROVE  Earned'
  <1> DEFINE q == [r EXCEPT !.now = x, !.at = IF ok THEN "mark" ELSE "fail"]
  <1>0. r \in Rounds /\ r.sub \in Subs /\ r.at = "post" /\ Honest(r)
    BY DEF Earned, RowTypes, Rounds, Post, InRound, HonestRounds
  <1>1. /\ q \in Rounds /\ q.sub = r.sub /\ q.now = x /\ q.att = r.att
        /\ q.at = IF ok THEN "mark" ELSE "fail"
    BY <1>0 DEF Rounds
  <1>2. /\ rounds' = [rounds EXCEPT ![w] = (@ \ {r}) \cup {q}]
        /\ row' = row
        /\ tried' = [tried EXCEPT ![r.sub][x] = @ + 1]
        /\ got' = [got EXCEPT ![r.sub][x] = IF ok THEN @ + 1 ELSE @]
    BY DEF Post, Become, registry
  <1> HIDE DEF q
  <1>3. RowTypes'
    BY <1>0, <1>1, <1>2 DEF Earned, RowTypes
  <1>4. \A s \in Subs, u \in Updates : tried'[s][u] >= tried[s][u] /\ got'[s][u] >= got[s][u]
    BY <1>0, <1>2 DEF Earned, RowTypes
  <1>5. \A v \in Workers : \A p \in rounds'[v] : p \in rounds[v] \/ (v = w /\ p = q)
    BY <1>2 DEF Earned, RowTypes
  <1>6. Ledger'
    <2> SUFFICES ASSUME NEW s \in Subs, NEW u \in Updates
                 PROVE  /\ IsFiniteSet(Unrecorded(s, u)')
                        /\ row'[s][u].att + Cardinality(Unrecorded(s, u)') <= tried'[s][u]
      BY DEF Ledger
    <2>1. row'[s][u].att \in Nat /\ row'[s][u] = row[s][u] /\ row'[s][u].att <= row[s][u].att
      BY <1>2, <1>3 DEF RowTypes, Rows
    <2>2. CASE s = r.sub /\ u = x
      <3>1. Unrecorded(s, u)' \subseteq Unrecorded(s, u) \cup {<<w, q>>}
        BY <1>5, UnrecordedDef, UnrecordedDefPrime
      <3>2. tried'[s][u] = tried[s][u] + 1
        BY <1>0, <1>2, <2>2 DEF Earned, RowTypes
      <3>3. QED
        BY <3>1, <3>2, <2>1, Posted DEF Earned
    <2>3. CASE ~(s = r.sub /\ u = x)
      <3>1. Unrecorded(s, u)' \subseteq Unrecorded(s, u)
        BY <1>1, <1>5, <2>3, UnrecordedDef, UnrecordedDefPrime
      <3>2. tried'[s][u] = tried[s][u]
        BY <1>0, <1>2, <2>3 DEF Earned, RowTypes
      <3>3. QED
        BY <3>1, <3>2, <2>1, Shrinks DEF Earned
    <2>4. QED
      BY <2>2, <2>3
  <1>7. HonestRounds'
    <2> SUFFICES ASSUME NEW v \in Workers, NEW p \in rounds'[v] PROVE Honest(p)'
      BY DEF HonestRounds
    <2>0. p \in Rounds
      BY <1>3 DEF RowTypes
    <2>1. CASE p \in rounds[v]
      <3>1. Honest(p)
        BY <2>1 DEF Earned, HonestRounds
      <3>2. QED
        BY <2>0, <3>1, <1>3, <1>4 DEF Honest, Earned, RowTypes, Rounds
    <2>2. CASE p = q
      <3>1. \A u \in Updates : q.att[u] <= tried[q.sub][u]
        BY <1>0, <1>1 DEF Honest
      <3>2. tried'[q.sub][x] = tried[q.sub][x] + 1
        BY <1>0, <1>1, <1>2 DEF Earned, RowTypes
      <3>3. ok => got'[q.sub][x] > 0
        BY <1>0, <1>1, <1>2 DEF Earned, RowTypes
      <3>4. QED
        BY <2>2, <3>1, <3>2, <3>3, <1>0, <1>1, <1>3, <1>4 DEF Honest, Earned, RowTypes, Rounds
    <2>3. QED
      BY <2>1, <2>2, <1>5
  <1>8. VerdictsEarned'
    BY <1>2, <1>3, <1>4, DeliveryAssumption DEF Earned, VerdictsEarned, RowTypes
  <1>9. QED
    BY <1>3, <1>6, <1>7, <1>8 DEF Earned

\* Recording the outcome of a post (MarkDelivered, FailDelivery) keeps it.
LEMMA RecordStep ==
  ASSUME Earned, NEW w \in Workers, NEW r \in rounds[w],
         MarkDelivered(w, r) \/ FailDelivery(w, r)
  PROVE  Earned'
  <1> DEFINE x == r.now
             q == [r EXCEPT !.todo = @ \ {r.now}, !.now = None, !.at = "post"]
             new == IF r.at = "mark" THEN [st |-> "delivered", att |-> row[r.sub][x].att + 1, due |-> row[r.sub][x].due]
                    ELSE Failed(r, row[r.sub][x])
  <1>0. r \in Rounds /\ r.sub \in Subs /\ r.at \in {"mark", "fail"} /\ Honest(r) /\ x \in Updates
    BY DEF Earned, RowTypes, Rounds, MarkDelivered, FailDelivery, InRound, HonestRounds, Honest
  <1>1. q \in Rounds /\ q.at = "post" /\ q.sub = r.sub /\ q.att = r.att
    BY <1>0 DEF Rounds
  <1>2. /\ \A v \in Workers : \A p \in rounds'[v] : (p \in rounds[v] /\ ~(v = w /\ p = r)) \/ p = q
        /\ rounds' \in [Workers -> SUBSET Rounds]
    BY <1>0, <1>1 DEF MarkDelivered, FailDelivery, NextRow, Become, EndRound, Earned, RowTypes
  <1>3. /\ row' = [row EXCEPT ![r.sub][x] = IF Exists(r.sub, x) THEN new ELSE @]
        /\ tried' = tried /\ got' = got
    BY <1>0 DEF MarkDelivered, FailDelivery, SetRow, outside, InRound
  <1>4. /\ new \in Rows
        /\ new.att = row[r.sub][x].att + 1
        /\ new.st = "delivered" => r.at = "mark" \/ row[r.sub][x].st = "delivered"
        /\ new.st = "failed" => (r.at = "fail" /\ GiveUp(r)) \/ row[r.sub][x].st = "failed"
    <2>1. row[r.sub][x] \in Rows
      BY <1>0 DEF Earned, RowTypes
    <2>2. CASE r.at = "mark"
      BY <2>1, <2>2, JudgedRow
    <2>3. CASE r.at = "fail" /\ GiveUp(r)
      BY <2>1, <2>3, JudgedRow DEF Failed
    <2>4. CASE r.at = "fail" /\ ~GiveUp(r)
      BY <2>1, <2>4, RetriedRow DEF Failed
    <2>5. QED
      BY <1>0, <2>2, <2>3, <2>4
  <1> HIDE DEF q, new
  <1>5. RowTypes'
    BY <1>0, <1>2, <1>3, <1>4 DEF Earned, RowTypes
  <1>6. Ledger'
    <2> SUFFICES ASSUME NEW s \in Subs, NEW u \in Updates
                 PROVE  /\ IsFiniteSet(Unrecorded(s, u)')
                        /\ row'[s][u].att + Cardinality(Unrecorded(s, u)') <= tried'[s][u]
      BY DEF Ledger
    <2>1. row'[s][u].att \in Nat /\ tried'[s][u] = tried[s][u] /\ row[s][u].att \in Nat
      BY <1>3, <1>5 DEF RowTypes, Rows, Earned
    <2>2. CASE s = r.sub /\ u = x
      <3>1. <<w, r>> \in Unrecorded(s, u)
        BY <2>2, <1>0, UnrecordedDef
      <3>2. Unrecorded(s, u)' \subseteq Unrecorded(s, u) \ {<<w, r>>}
        BY <1>1, <1>2, UnrecordedDef, UnrecordedDefPrime
      <3>3. row'[s][u].att <= row[s][u].att + 1
        BY <2>1, <2>2, <1>0, <1>3, <1>4 DEF Earned, RowTypes
      <3>4. QED
        BY <3>1, <3>2, <3>3, <2>1, Recorded DEF Earned
    <2>3. CASE ~(s = r.sub /\ u = x)
      <3>1. Unrecorded(s, u)' \subseteq Unrecorded(s, u)
        BY <1>1, <1>2, UnrecordedDef, UnrecordedDefPrime
      <3>2. row'[s][u] = row[s][u]
        BY <2>3, <1>0, <1>3 DEF Earned, RowTypes
      <3>3. QED
        BY <3>1, <3>2, <2>1, Shrinks DEF Earned
    <2>4. QED
      BY <2>2, <2>3
  <1>7. HonestRounds'
    <2> SUFFICES ASSUME NEW v \in Workers, NEW p \in rounds'[v] PROVE Honest(p)'
      BY DEF HonestRounds
    <2>1. CASE p \in rounds[v]
      BY <2>1, <1>3 DEF Earned, HonestRounds, Honest
    <2>2. CASE p = q
      BY <2>2, <1>0, <1>1, <1>3 DEF Honest
    <2>3. QED
      BY <2>1, <2>2, <1>2
  <1>8. VerdictsEarned'
    <2> SUFFICES ASSUME NEW s \in Subs, NEW u \in Updates
                 PROVE  /\ row'[s][u].st = "delivered" => got'[s][u] > 0
                        /\ row'[s][u].st = "failed" => tried'[s][u] >= MaxAttempts
      BY DEF VerdictsEarned
    <2>1. CASE row'[s][u] = row[s][u]
      BY <2>1, <1>3 DEF Earned, VerdictsEarned
    <2>2. CASE s = r.sub /\ u = x /\ row'[s][u] = new
      <3>1. r.at = "mark" => got[s][u] > 0
        BY <2>2, <1>0 DEF Honest
      <3>2. r.at = "fail" /\ GiveUp(r) => tried[s][u] >= MaxAttempts
        BY <2>2, <1>0, DeliveryAssumption DEF Honest, GiveUp, Earned, RowTypes, Rounds
      <3>3. QED
        BY <2>2, <3>1, <3>2, <1>3, <1>4 DEF Earned, VerdictsEarned
    <2>3. QED
      BY <2>1, <2>2, <1>0, <1>3 DEF Earned, RowTypes
  <1>9. QED
    BY <1>5, <1>6, <1>7, <1>8 DEF Earned

\* Every step keeps the invariant.
LEMMA EarnedStep ==
  ASSUME Earned, [Next]_vars
  PROVE  Earned'
  <1> USE DEF registry, session, worker, outside
  <1>1. CASE UNCHANGED <<row, rounds, tried, got>>
    <2>1. Quiet
      BY <1>1 DEF Quiet, Earned, RowTypes, Rows
    <2>2. QED
      BY <2>1, QuietStep
  <1>2. ASSUME NEW s \in Subs, DeleteSubscription(s) PROVE Earned'
    <2>1. \A z \in Subs, u \in Updates : row[z][u] \in Rows
      BY DEF Earned, RowTypes
    <2>2. \A z \in Subs, u \in Updates : row'[z][u] \in {row[z][u], NoRow, [NoRow EXCEPT !.st = "gone"]}
      BY <1>2 DEF DeleteSubscription, Earned, RowTypes
    <2>3. row' \in [Subs -> [Updates -> Rows]]
      BY <1>2, <2>1 DEF DeleteSubscription, NoRow, Earned, RowTypes, Rows
    <2>4. UNCHANGED <<rounds, tried, got>>
      BY <1>2 DEF DeleteSubscription
    <2>5. Quiet
      <3> SUFFICES ASSUME NEW z \in Subs, NEW u \in Updates
                   PROVE  /\ row'[z][u].att <= row[z][u].att
                          /\ row'[z][u].st \in {"delivered", "failed"} => row'[z][u].st = row[z][u].st
        BY <2>3, <2>4 DEF Quiet
      <3>1. row[z][u].att \in Nat
        BY <2>1, AttemptsNat
      <3>2. CASE row'[z][u] = row[z][u]
        BY <3>1, <3>2
      <3>3. CASE row'[z][u] = NoRow
        BY <3>1, <3>3, BlankRow
      <3>4. CASE row'[z][u] = [NoRow EXCEPT !.st = "gone"]
        BY <3>1, <3>4, BlankRow
      <3>5. QED
        BY <3>2, <3>3, <3>4, <2>2
    <2>6. QED
      BY <2>5, QuietStep
  <1>3. ASSUME NEW w \in Workers, WriteOutbox(w) PROVE Earned'
    <2>1. PICK ids, u : Enqueue(ids, u)
      BY <1>3 DEF WriteOutbox
    <2>2. \A z \in Subs, v \in Updates : row[z][v] \in Rows
      BY DEF Earned, RowTypes
    <2>3. /\ row' \in [Subs -> [Updates -> Rows]]
          /\ \A z \in Subs, v \in Updates :
               row'[z][v] \in {row[z][v], [st |-> "pending", att |-> 0, due |-> TRUE]}
      BY <2>1 DEF Enqueue, Earned, RowTypes, Rows
    <2>4. UNCHANGED <<rounds, tried, got>>
      BY <1>3 DEF WriteOutbox
    <2>5. Quiet
      BY <2>2, <2>3, <2>4 DEF Quiet, Rows
    <2>6. QED
      BY <2>5, QuietStep
  <1>4. ASSUME NEW s \in Subs, NEW u \in Updates, BackoffOver(s, u) \/ PurgeDelivery(s, u) PROVE Earned'
    <2>1. \A z \in Subs, v \in Updates : row[z][v] \in Rows
      BY DEF Earned, RowTypes
    <2>2. PICK new \in Rows :
            /\ row' = [row EXCEPT ![s][u] = new]
            /\ new.att <= row[s][u].att
            /\ new.st \in {"pending", "gone"}
      <3>1. CASE BackoffOver(s, u)
        <4>1. row' = [row EXCEPT ![s][u] = [row[s][u] EXCEPT !.due = TRUE]]
          BY <3>1 DEF BackoffOver
        <4>2. row[s][u].st = "pending"
          BY <3>1 DEF BackoffOver
        <4>3. [row[s][u] EXCEPT !.due = TRUE].att <= row[s][u].att
          BY <2>1, DueRow, AttemptsNat
        <4>4. QED
          BY <4>1, <4>2, <4>3, <2>1, DueRow
      <3>2. CASE PurgeDelivery(s, u)
        <4>1. row' = [row EXCEPT ![s][u] = [NoRow EXCEPT !.st = "gone"]]
          BY <3>2 DEF PurgeDelivery
        <4>2. [NoRow EXCEPT !.st = "gone"].att <= row[s][u].att
          BY <2>1, BlankRow, AttemptsNat
        <4>3. QED
          BY <4>1, <4>2, BlankRow
      <3>3. QED
        BY <1>4, <3>1, <3>2
    <2>3. UNCHANGED <<rounds, tried, got>>
      BY <1>4 DEF BackoffOver, PurgeDelivery
    <2>4. Quiet
      BY <2>1, <2>2, <2>3 DEF Quiet, Earned, RowTypes, Rows
    <2>5. QED
      BY <2>4, QuietStep
  <1>5. ASSUME NEW w \in Workers, ClaimDeliveries(w) PROVE Earned'
    <2>1. PICK C \in SUBSET Claimable(w) : \E share \in [C -> SUBSET Updates] :
            rounds' = [rounds EXCEPT ![w] = @ \cup {StartRound(s, share[s]) : s \in C}]
      BY <1>5 DEF ClaimDeliveries
    <2>2. PICK share \in [C -> SUBSET Updates] :
            rounds' = [rounds EXCEPT ![w] = @ \cup {StartRound(s, share[s]) : s \in C}]
      BY <2>1
    <2>3. \A s \in C : /\ StartRound(s, share[s]) \in Rounds
                       /\ StartRound(s, share[s]).at = "post"
                       /\ \A u \in Updates : StartRound(s, share[s]).att[u] <= tried[StartRound(s, share[s]).sub][u]
      <3> SUFFICES ASSUME NEW s \in C
                   PROVE  /\ StartRound(s, share[s]) \in Rounds
                          /\ StartRound(s, share[s]).at = "post"
                          /\ \A u \in Updates : StartRound(s, share[s]).att[u] <= tried[StartRound(s, share[s]).sub][u]
        OBVIOUS
      <3>0. s \in Subs /\ share[s] \in SUBSET Updates
        BY DEF Claimable
      <3>1. StartRound(s, share[s]) \in Rounds
        BY <3>0, StartRoundType DEF Earned
      <3>2. ASSUME NEW u \in Updates PROVE row[s][u].att <= tried[s][u]
        <4>1. /\ Cardinality(Unrecorded(s, u)) \in Nat
              /\ row[s][u].att + Cardinality(Unrecorded(s, u)) <= tried[s][u]
          BY <3>0, FS_CardinalityType DEF Earned, Ledger
        <4>2. row[s][u].att \in Nat /\ tried[s][u] \in Nat
          BY <3>0 DEF Earned, RowTypes, Rows
        <4>3. QED
          BY <4>1, <4>2
      <3>3. QED
        BY <3>1, <3>2 DEF StartRound
    <2>4. Skips
      <3>1. UNCHANGED <<row, tried, got>>
        BY <1>5 DEF ClaimDeliveries
      <3>2. rounds' \in [Workers -> SUBSET Rounds]
        BY <2>2, <2>3 DEF Earned, RowTypes
      <3>3. \A v \in Workers : \A p \in rounds'[v] :
              p \in rounds[v] \/ \E s \in C : p = StartRound(s, share[s])
        BY <2>2 DEF Earned, RowTypes
      <3>4. QED
        BY <3>1, <3>2, <3>3, <2>3 DEF Skips
    <2>5. QED
      BY <2>4, SkipStep
  <1>6. ASSUME NEW w \in Workers, NEW r \in rounds[w], MarkFails(w, r) \/ FailFails(w, r) \/ RoundDone(w, r)
        PROVE Earned'
    <2>1. r \in Rounds /\ \A u \in Updates : r.att[u] <= tried[r.sub][u]
      BY DEF Earned, RowTypes, HonestRounds, Honest
    <2> DEFINE q == [r EXCEPT !.todo = @ \ {r.now}, !.now = None, !.at = "post"]
    <2>2. q \in Rounds /\ q.at = "post" /\ q.att = r.att /\ q.sub = r.sub
      BY <2>1 DEF Rounds
    <2>3. /\ \/ rounds' = [rounds EXCEPT ![w] = (@ \ {r}) \cup {q}]
             \/ rounds' = [rounds EXCEPT ![w] = @ \ {r}]
          /\ UNCHANGED <<row, tried, got>>
      BY <1>6 DEF MarkFails, FailFails, RoundDone, NextRow, Become, EndRound
    <2> HIDE DEF q
    <2>4. /\ rounds' \in [Workers -> SUBSET Rounds]
          /\ \A v \in Workers : \A p \in rounds'[v] : p \in rounds[v] \/ p = q
      BY <2>2, <2>3 DEF Earned, RowTypes
    <2>5. Skips
      BY <2>1, <2>2, <2>3, <2>4 DEF Skips
    <2>6. QED
      BY <2>5, SkipStep
  <1>7. ASSUME NEW w \in Workers, Crash(w) PROVE Earned'
    <2>1. Skips
      BY <1>7 DEF Skips, Crash, Earned, RowTypes
    <2>2. QED
      BY <2>1, SkipStep
  <1>8. ASSUME Subscriptions PROVE Earned'
    BY <1>1, <1>2, <1>8
       DEF Subscriptions, CreateSubscription, ChangeToken, LoadFilters, LoadFails, ApplySnapshot
  <1>9. ASSUME Queue PROVE Earned'
    BY <1>1, <1>3, <1>9 DEF Queue, UpdateArrives, WriteFails, FlushTake, AddDropped, AddDroppedFails
  <1>10. ASSUME Dispatch PROVE Earned'
    BY <1>1, <1>4, <1>5, <1>6, <1>10, PostStep, RecordStep DEF Dispatch, RoundStep, Tick, ClaimFails
  <1>11. ASSUME Move PROVE Earned'
    BY <1>1, <1>7, <1>11 DEF Move, Release, Acquire
  <1>12. QED
    BY <1>1, <1>8, <1>9, <1>10, <1>11 DEF Next, vars

\* It holds at the start.
LEMMA EarnedInit ==
  ASSUME Init
  PROVE  Earned
  <1>1. RowTypes
    BY DEF Init, RowTypes, NoRow, Rows
  <1>2. \A w \in Workers : rounds[w] = {}
    BY DEF Init
  <1>3. ASSUME NEW s \in Subs, NEW u \in Updates PROVE Unrecorded(s, u) = {}
    BY <1>2, UnrecordedDef
  <1>4. Ledger
    <2>1. ASSUME NEW s \in Subs, NEW u \in Updates PROVE row[s][u].att = 0 /\ tried[s][u] = 0
      BY DEF Init, NoRow
    <2>2. QED
      BY <1>3, <2>1, FS_EmptySet DEF Ledger
  <1>5. HonestRounds
    BY <1>2 DEF HonestRounds
  <1>6. VerdictsEarned
    BY DEF VerdictsEarned, Init, NoRow
  <1>7. QED
    BY <1>1, <1>4, <1>5, <1>6 DEF Earned

\* The other variables have their types.
OtherTypes ==
    /\ sub \in [Subs -> {"absent", "on", "off", "deleted"}]
    /\ charged \in [Subs -> Nat]
    /\ owner \in Workers \cup {None}
    /\ holder \in Workers \cup {None}
    /\ snap \subseteq Subs
    /\ drop \in Nat
    /\ load \in [Subs \cup {Ticker} -> Loads]
    /\ outbox \in [Workers -> Seq(Items)]
    /\ \A w \in Workers : Len(outbox[w]) <= OutboxCap
    /\ flush \in [Workers -> [n : Nat, held : BOOLEAN]]
    /\ busy \in [Workers -> [tick : BOOLEAN, subs : SUBSET Subs]]
    /\ inflight \in [Workers -> SUBSET Subs]
    /\ arrived \subseteq Updates
    /\ lost \in [Subs -> SUBSET Updates]
    /\ budget \in [Kinds -> Nat]

\* Spending a fault keeps the budget a budget.
LEMMA SpendType ==
  ASSUME budget \in [Kinds -> Nat], NEW k \in Kinds, Spend(k)
  PROVE  budget' \in [Kinds -> Nat]
  BY DEF Spend

\* The kinds of faults.
LEMMA KindsDef == "handover" \in Kinds /\ "crash" \in Kinds /\ "error" \in Kinds
                  /\ "revoke" \in Kinds /\ "delete" \in Kinds
  BY DEF Kinds

\* A snapshot has no subscription that was not loaded (newSnapshot).
LEMMA SnapshotType == \A fs : NewSnapshot(fs) \subseteq fs
  BY DEF NewSnapshot

\* Every step keeps the other variables in their types.
LEMMA OtherStep ==
  ASSUME OtherTypes, Earned, [Next]_vars
  PROVE  OtherTypes'
  <1> USE KindsDef, SpendType DEF registry, session, worker, outside
  <1>0. Existing \subseteq Subs
    BY DEF Existing
  <1>1. ASSUME NEW s \in Subs, CreateSubscription(s) PROVE OtherTypes'
    <2>1. sub' \in [Subs -> {"absent", "on", "off", "deleted"}]
      BY <1>1 DEF OtherTypes, CreateSubscription
    <2>2. load' \in [Subs \cup {Ticker} -> Loads]
      <3> DEFINE new == [load[s] EXCEPT !.at = IF holder # None THEN "begin" ELSE @]
      <3>1. load[s] \in Loads
        BY DEF OtherTypes
      <3>2. new \in Loads
        BY <3>1 DEF Loads
      <3>3. load' = [load EXCEPT ![s] = new]
        BY <1>1 DEF CreateSubscription
      <3> HIDE DEF new
      <3>4. QED
        BY <3>2, <3>3 DEF OtherTypes
    <2>3. QED
      BY <1>1, <2>1, <2>2 DEF OtherTypes, CreateSubscription
  <1>2. ASSUME NEW s \in Subs, DeleteSubscription(s) \/ ChangeToken(s) PROVE OtherTypes'
    <2>1. sub' \in [Subs -> {"absent", "on", "off", "deleted"}]
      BY <1>2 DEF OtherTypes, DeleteSubscription, ChangeToken
    <2>2. budget' \in [Kinds -> Nat]
      BY <1>2 DEF OtherTypes, DeleteSubscription, ChangeToken
    <2>3. QED
      BY <1>2, <2>1, <2>2 DEF OtherTypes, DeleteSubscription, ChangeToken
  <1>3. ASSUME NEW a \in Subs \cup {Ticker}, LoadFilters(a) \/ LoadFails(a) \/ ApplySnapshot(a) PROVE OtherTypes'
    <2>1. load' \in [Subs \cup {Ticker} -> Loads]
      BY <1>3, <1>0 DEF OtherTypes, LoadFilters, LoadFails, ApplySnapshot, Loads, NoLoad
    <2>2. snap' \subseteq Subs
      BY <1>3, SnapshotType DEF OtherTypes, LoadFilters, LoadFails, ApplySnapshot, Loads
    <2>3. budget' \in [Kinds -> Nat]
      BY <1>3 DEF OtherTypes, LoadFilters, LoadFails, ApplySnapshot
    <2>4. QED
      BY <1>3, <2>1, <2>2, <2>3 DEF OtherTypes, LoadFilters, LoadFails, ApplySnapshot
  <1>4. ASSUME NEW u \in Updates, UpdateArrives(u) PROVE OtherTypes'
    <2>1. holder \in Workers /\ [u |-> u, subs |-> snap] \in Items
      BY <1>4 DEF UpdateArrives, OtherTypes, Items
    <2>2. outbox' \in [Workers -> Seq(Items)] /\ \A w \in Workers : Len(outbox'[w]) <= OutboxCap
      <3>1. CASE UpdateQueued(u)
        BY <2>1, <3>1, DeliveryAssumption DEF UpdateQueued, OtherTypes
      <3>2. CASE UNCHANGED outbox
        BY <3>2 DEF OtherTypes
      <3>3. QED
        BY <1>4, <3>1, <3>2 DEF UpdateArrives, UpdateSkipped, UpdateDropped
    <2>3. drop' \in Nat /\ lost' \in [Subs -> SUBSET Updates] /\ arrived' \subseteq Updates
      <3>1. arrived' \subseteq Updates
        BY <1>4 DEF UpdateArrives, OtherTypes
      <3>2. CASE UpdateDropped(u)
        <4>1. drop' \in Nat
          BY <3>2 DEF UpdateDropped, OtherTypes
        <4>2. lost' \in [Subs -> SUBSET Updates]
          BY <3>2 DEF UpdateDropped, OtherTypes
        <4>3. QED
          BY <3>1, <4>1, <4>2
      <3>3. CASE UNCHANGED <<drop, lost>>
        BY <3>1, <3>3 DEF OtherTypes
      <3>4. QED
        BY <1>4, <3>2, <3>3 DEF UpdateArrives, UpdateSkipped, UpdateQueued
    <2>4. QED
      BY <1>4, <2>2, <2>3 DEF UpdateArrives, OtherTypes
  <1>5. ASSUME NEW w \in Workers, WriteOutbox(w) \/ WriteFails(w) PROVE OtherTypes'
    <2>1. /\ outbox[w] \in Seq(Items) /\ outbox[w] # <<>> /\ Len(outbox[w]) <= OutboxCap
          /\ outbox' = [outbox EXCEPT ![w] = Tail(@)]
      BY <1>5 DEF WriteOutbox, WriteFails, OtherTypes
    <2>2. Tail(outbox[w]) \in Seq(Items) /\ Len(Tail(outbox[w])) <= OutboxCap /\ Head(outbox[w]).u \in Updates
      <3>1. Tail(outbox[w]) \in Seq(Items) /\ Len(Tail(outbox[w])) = Len(outbox[w]) - 1
            /\ Len(outbox[w]) \in Nat /\ Head(outbox[w]) \in Items
        BY <2>1
      <3>2. Head(outbox[w]).u \in Updates
        BY <3>1 DEF Items
      <3>3. QED
        BY <2>1, <3>1, <3>2, DeliveryAssumption
    <2>3. outbox' \in [Workers -> Seq(Items)] /\ \A v \in Workers : Len(outbox'[v]) <= OutboxCap
      BY <2>1, <2>2 DEF OtherTypes
    <2>4. drop' \in Nat /\ lost' \in [Subs -> SUBSET Updates]
      <3>1. CASE WriteFails(w)
        <4>1. drop' \in Nat
          BY <3>1 DEF WriteFails, OtherTypes
        <4>2. PICK ids : lost' = [s \in Subs |->
                IF s \in ids THEN lost[s] \cup {Head(outbox[w]).u} ELSE lost[s]]
          BY <3>1 DEF WriteFails
        <4>3. QED
          BY <2>2, <4>1, <4>2 DEF OtherTypes
      <3>2. CASE WriteOutbox(w)
        BY <3>2 DEF WriteOutbox, OtherTypes
      <3>3. QED
        BY <1>5, <3>1, <3>2
    <2>5. budget' \in [Kinds -> Nat]
      BY <1>5 DEF WriteOutbox, WriteFails, OtherTypes
    <2>6. QED
      BY <1>5, <2>3, <2>4, <2>5 DEF WriteOutbox, WriteFails, OtherTypes
  <1>6. ASSUME NEW w \in Workers, FlushTake(w) \/ AddDropped(w) \/ AddDroppedFails(w) PROVE OtherTypes'
    <2>1. flush[w].n \in Nat
      BY DEF OtherTypes
    <2>2. flush' \in [Workers -> [n : Nat, held : BOOLEAN]]
      <3>1. NoFlush \in [n : Nat, held : BOOLEAN] /\ [n |-> drop, held |-> TRUE] \in [n : Nat, held : BOOLEAN]
        BY DEF NoFlush, OtherTypes
      <3>2. \E f \in [n : Nat, held : BOOLEAN] : flush' = [flush EXCEPT ![w] = f]
        BY <1>6, <3>1 DEF FlushTake, AddDropped, AddDroppedFails
      <3>3. QED
        BY <3>2 DEF OtherTypes
    <2>3. drop' \in Nat
      BY <1>6, <2>1 DEF FlushTake, AddDropped, AddDroppedFails, OtherTypes
    <2>4. charged' \in [Subs -> Nat]
      BY <1>6, <2>1 DEF FlushTake, AddDropped, AddDroppedFails, OtherTypes
    <2>5. budget' \in [Kinds -> Nat]
      BY <1>6 DEF FlushTake, AddDropped, AddDroppedFails, OtherTypes
    <2>6. QED
      BY <1>6, <2>2, <2>3, <2>4, <2>5 DEF FlushTake, AddDropped, AddDroppedFails, OtherTypes
  <1>7. ASSUME NEW w \in Workers, Tick(w) \/ ClaimDeliveries(w) \/ ClaimFails(w) PROVE OtherTypes'
    <2>1. busy' \in [Workers -> [tick : BOOLEAN, subs : SUBSET Subs]]
      <3>1. /\ [tick |-> FALSE, subs |-> {}] \in [tick : BOOLEAN, subs : SUBSET Subs]
            /\ [tick |-> TRUE, subs |-> inflight[w]] \in [tick : BOOLEAN, subs : SUBSET Subs]
        BY DEF OtherTypes
      <3>2. \E b \in [tick : BOOLEAN, subs : SUBSET Subs] : busy' = [busy EXCEPT ![w] = b]
        BY <1>7, <3>1 DEF Tick, ClaimDeliveries, ClaimFails
      <3>3. QED
        BY <3>2 DEF OtherTypes
    <2>2. inflight' \in [Workers -> SUBSET Subs]
      <3>1. CASE ClaimDeliveries(w)
        <4>1. PICK C \in SUBSET Claimable(w) : inflight' = [inflight EXCEPT ![w] = @ \cup C]
          BY <3>1 DEF ClaimDeliveries
        <4>2. C \subseteq Subs
          BY DEF Claimable
        <4>3. QED
          BY <4>1, <4>2 DEF OtherTypes
      <3>2. CASE Tick(w) \/ ClaimFails(w)
        BY <3>2 DEF Tick, ClaimFails, OtherTypes
      <3>3. QED
        BY <1>7, <3>1, <3>2
    <2>3. budget' \in [Kinds -> Nat]
      <3>1. UNCHANGED budget \/ Spend("error")
        BY <1>7, Zenon DEF Tick, ClaimDeliveries, ClaimFails
      <3>2. QED
        BY <3>1, KindsDef, SpendType DEF OtherTypes
    <2>4. QED
      BY <1>7, <2>1, <2>2, <2>3 DEF Tick, ClaimDeliveries, ClaimFails, OtherTypes
  <1>8. ASSUME NEW w \in Workers, NEW r \in rounds[w], RoundStep(w, r) \/ MarkFails(w, r) \/ FailFails(w, r)
        PROVE OtherTypes'
    <2>1. inflight' \in [Workers -> SUBSET Subs]
      <3>1. inflight' = inflight \/ inflight' = [inflight EXCEPT ![w] = @ \ {r.sub}]
        BY <1>8, Zenon
           DEF RoundStep, Post, MarkDelivered, MarkFails, FailDelivery, FailFails, RoundDone, EndRound
      <3>2. inflight \in [Workers -> SUBSET Subs]
        BY DEF OtherTypes
      <3>3. QED
        BY <3>1, <3>2
    <2>2. budget' \in [Kinds -> Nat]
      <3>1. UNCHANGED budget \/ Spend("error")
        BY <1>8, Zenon DEF RoundStep, Post, MarkDelivered, MarkFails, FailDelivery, FailFails, RoundDone
      <3>2. QED
        BY <3>1, KindsDef, SpendType DEF OtherTypes
    <2>3. QED
      BY <1>8, <2>1, <2>2, Zenon
         DEF RoundStep, Post, MarkDelivered, MarkFails, FailDelivery, FailFails, RoundDone, OtherTypes
  <1>9. ASSUME NEW s \in Subs, NEW u \in Updates, BackoffOver(s, u) \/ PurgeDelivery(s, u) PROVE OtherTypes'
    BY <1>9 DEF BackoffOver, PurgeDelivery, OtherTypes
  <1>10. DropLive => /\ holder' \in Workers \cup {None} /\ snap' \subseteq Subs /\ drop' \in Nat
                     /\ load' \in [Subs \cup {Ticker} -> Loads]
    BY DEF DropLive, Loads, NoLoad
  <1>11. ASSUME NEW w \in Workers, Release(w) PROVE OtherTypes'
    <2>1. flush' \in [Workers -> [n : Nat, held : BOOLEAN]]
      BY <1>11 DEF Release, OtherTypes
    <2>2. budget' \in [Kinds -> Nat]
      BY <1>11 DEF Release, OtherTypes
    <2>3. QED
      BY <1>10, <1>11, <2>1, <2>2 DEF Release, OtherTypes
  <1>12. ASSUME NEW w \in Workers, Crash(w) PROVE OtherTypes'
    <2>1. outbox' \in [Workers -> Seq(Items)] /\ \A v \in Workers : Len(outbox'[v]) <= OutboxCap
      <3>1. <<>> \in Seq(Items) /\ Len(<<>>) = 0
        OBVIOUS
      <3>2. outbox' = [outbox EXCEPT ![w] = <<>>]
        BY <1>12 DEF Crash
      <3>3. outbox \in [Workers -> Seq(Items)] /\ \A v \in Workers : Len(outbox[v]) <= OutboxCap
        BY DEF OtherTypes
      <3>4. QED
        BY <3>1, <3>2, <3>3, DeliveryAssumption
    <2>2. flush' \in [Workers -> [n : Nat, held : BOOLEAN]]
      BY <1>12 DEF Crash, OtherTypes, NoFlush
    <2>3. busy' \in [Workers -> [tick : BOOLEAN, subs : SUBSET Subs]] /\ inflight' \in [Workers -> SUBSET Subs]
      BY <1>12 DEF Crash, OtherTypes
    <2>4. budget' \in [Kinds -> Nat]
      BY <1>12 DEF Crash, OtherTypes
    <2>5. QED
      BY <1>10, <1>12, <2>1, <2>2, <2>3, <2>4 DEF Crash, OtherTypes
  <1>13. ASSUME NEW w \in Workers, Acquire(w) PROVE OtherTypes'
    <2>1. snap' \subseteq Subs
      BY <1>13, <1>0, SnapshotType DEF Acquire
    <2>2. budget' \in [Kinds -> Nat]
      BY <1>13 DEF Acquire, OtherTypes
    <2>3. QED
      BY <1>13, <2>1, <2>2 DEF Acquire, OtherTypes
  <1>14. CASE UNCHANGED vars
    BY <1>14 DEF OtherTypes, vars
  <1>15. QED
    BY <1>1, <1>2, <1>3, <1>4, <1>5, <1>6, <1>7, <1>8, <1>9, <1>11, <1>12, <1>13, <1>14
       DEF Next, Subscriptions, Queue, Dispatch, Move

\* Every reachable state is well typed, and the outbox of a worker never exceeds its
\* capacity (TypeOK).
THEOREM TypeCorrect == Spec => []TypeOK
  <1>1. Init => OtherTypes
    BY DeliveryAssumption, SnapshotType DEF Init, OtherTypes, Existing, Loads, NoLoad, NoFlush
  <1>2. OtherTypes /\ Earned /\ [Next]_vars => OtherTypes'
    BY OtherStep
  <1>3. Init => Earned
    BY EarnedInit
  <1>4. Earned /\ [Next]_vars => Earned'
    BY EarnedStep
  <1>5. OtherTypes /\ Earned => TypeOK
    BY DEF OtherTypes, Earned, RowTypes, TypeOK
  <1>6. QED
    BY <1>1, <1>2, <1>3, <1>4, <1>5, PTL DEF Spec

\* VerdictsEarned: whatever hand-overs, crashes and failed statements let several
\* workers judge one row, it is delivered only after a 2xx and failed only after
\* maxDeliveryAttempts posts (deliverOne, MarkDelivered, FailDelivery).
THEOREM EarnedVerdicts == Spec => []VerdictsEarned
  <1>1. Init => Earned
    BY EarnedInit
  <1>2. Earned /\ [Next]_vars => Earned'
    BY EarnedStep
  <1>3. Earned => VerdictsEarned
    BY DEF Earned
  <1>4. QED
    BY <1>1, <1>2, <1>3, PTL DEF Spec

\* PreCheckCovers: for every set of filters and every update, what the pre-check of the
\* receiver goroutine skips no subscription takes (wants, route).
THEOREM PreCheckSafe == Spec => []PreCheckCovers
  <1>1. PreCheckCovers
    BY DEF PreCheckCovers, Route, Wants, TypeMatches
  <1>2. QED
    BY <1>1, PTL

-----------------------------------------------------------------------------
(* While its session stays put, Delivery implements DeliveryContract. *)

\* The session is never handed over and its worker never dies.
StaysPut == MaxFaults["handover"] = 0 /\ MaxFaults["crash"] = 0

\* So its holder stays its owner.
Settled ==
    /\ holder = owner /\ owner \in Workers
    /\ budget["handover"] = 0 /\ budget["crash"] = 0

\* Only the owner has anything to do.
OwnerOnly == \A w \in Workers : w # owner => rounds[w] = {} /\ outbox[w] = <<>>

\* A subscription has one round, and is in flight while it has (inflight).
OneRound ==
    \A w \in Workers : \A r \in rounds[w] :
       r.sub \in inflight[w] /\ \A q \in rounds[w] : q.sub = r.sub => q = r

\* A tick in progress knows of every subscription in flight.
TickSees == \A w \in Workers : busy[w].tick => inflight[w] \subseteq busy[w].subs

\* What a round still has to do has no verdict yet.
StillOpen ==
    \A w \in Workers : \A r \in rounds[w] :
       /\ r.at # "post" => r.now \in r.todo
       /\ \A u \in r.todo : row[r.sub][u].st \in {"pending", "gone"}

\* An update that has not arrived has no row.
Unseen == \A u \in Updates \ arrived : \A s \in Subs : row[s][u].st = "none"

\* A queued update is queued once and has no row yet.
Waiting ==
    \A w \in Workers : \A i \in 1..Len(outbox[w]) :
       /\ outbox[w][i].u \in arrived
       /\ \A s \in Subs : row[s][outbox[w][i].u].st = "none"
       /\ \A j \in 1..Len(outbox[w]) : outbox[w][j].u = outbox[w][i].u => j = i

\* The inductive invariant behind the refinement.
Stays == Settled /\ OwnerOnly /\ OneRound /\ TickSees /\ StillOpen /\ Unseen /\ Waiting


\* Type correctness around a step.
Types == TypeOK /\ TypeOK'

\* The parts of a round.
LEMMA RoundTypes ==
  ASSUME TypeOK, NEW w \in Workers, NEW r \in rounds[w]
  PROVE  r \in Rounds /\ r.sub \in Subs /\ r.todo \subseteq Updates
  <1>1. r \in Rounds
    BY DEF TypeOK
  <1>2. QED
    BY <1>1 DEF Rounds

\* No hand-over and no crash is left in the budget, whatever other fault is spent.
LEMMA NoMove ==
  ASSUME Settled, TypeOK, NEW k \in Kinds, Spend(k)
  PROVE  /\ k # "handover" /\ k # "crash"
         /\ budget'["handover"] = 0 /\ budget'["crash"] = 0
  BY DEF Settled, Spend, TypeOK, Kinds

\* Steps of the registry and of the live session; a row may only be removed.
RowsOnly ==
    /\ UNCHANGED <<rounds, inflight, busy, outbox, arrived, holder, owner>>
    /\ budget'["handover"] = 0 /\ budget'["crash"] = 0
    /\ \A s \in Subs, u \in Updates :
         row'[s][u].st = row[s][u].st \/ (row[s][u].st # "none" /\ row'[s][u].st = "gone")

\* Such steps keep the invariant.
LEMMA RowsOnlyStays ==
  ASSUME Stays, Types, RowsOnly
  PROVE  Stays'
  <1>1. Settled' /\ OwnerOnly' /\ OneRound' /\ TickSees'
    BY DEF Stays, Settled, OwnerOnly, OneRound, TickSees, RowsOnly
  <1>2. StillOpen'
    <2> SUFFICES ASSUME NEW w \in Workers, NEW r \in rounds[w]
                 PROVE  /\ r.at # "post" => r.now \in r.todo
                        /\ \A u \in r.todo : row'[r.sub][u].st \in {"pending", "gone"}
      BY DEF StillOpen, RowsOnly
    <2>1. r.sub \in Subs /\ r.todo \subseteq Updates
      BY RoundTypes DEF Types
    <2>2. QED
      BY <2>1 DEF Stays, StillOpen, RowsOnly
  <1>3. Unseen'
    BY DEF Stays, Unseen, RowsOnly
  <1>4. Waiting'
    <2> SUFFICES ASSUME NEW w \in Workers, NEW i \in 1..Len(outbox[w]), NEW s \in Subs
                 PROVE  row'[s][outbox[w][i].u].st = "none"
      BY DEF Stays, Waiting, RowsOnly
    <2>1. outbox[w][i].u \in Updates /\ row[s][outbox[w][i].u].st = "none"
      BY DEF Stays, Waiting, Types, TypeOK
    <2>2. QED
      BY <2>1 DEF RowsOnly
  <1>5. QED
    BY <1>1, <1>2, <1>3, <1>4 DEF Stays

\* The arrival of an update (updateHandler) keeps it.
LEMMA ArriveStays ==
  ASSUME Stays, Types, NEW x \in Updates, UpdateArrives(x)
  PROVE  Stays'
  <1>1. /\ x \notin arrived /\ arrived' = arrived \cup {x} /\ holder \in Workers /\ holder = owner
        /\ UNCHANGED <<row, rounds, inflight, busy, holder, owner, budget>>
    BY DEF UpdateArrives, Stays, Settled, registry
  <1>2. Settled' /\ OneRound' /\ TickSees' /\ StillOpen' /\ Unseen'
    BY <1>1 DEF Stays, Settled, OneRound, TickSees, StillOpen, Unseen
  <1>3. CASE outbox' = outbox
    BY <1>1, <1>2, <1>3 DEF Stays, OwnerOnly, Waiting
  <1>4. CASE UpdateQueued(x)
    <2> DEFINE it == [u |-> x, subs |-> snap]
    <2>1. outbox' = [outbox EXCEPT ![holder] = Append(@, it)] /\ it.u = x /\ it \in Items
      BY <1>4 DEF UpdateQueued, Items, Types, TypeOK
    <2> HIDE DEF it
    <2>2. outbox[holder] \in Seq(Items)
      BY <1>1 DEF Types, TypeOK
    <2>3. OwnerOnly'
      BY <1>1, <2>1 DEF Stays, OwnerOnly, Types, TypeOK
    <2>4. Waiting'
      <3> SUFFICES ASSUME NEW w \in Workers PROVE
             \A i \in 1..Len(outbox'[w]) :
               /\ outbox'[w][i].u \in arrived'
               /\ \A s \in Subs : row'[s][outbox'[w][i].u].st = "none"
               /\ \A j \in 1..Len(outbox'[w]) : outbox'[w][j].u = outbox'[w][i].u => j = i
        BY DEF Waiting
      <3>1. CASE w # holder
        <4>1. outbox'[w] = outbox[w]
          BY <2>1, <3>1 DEF Types, TypeOK
        <4>2. QED
          BY <4>1, <1>1 DEF Stays, Waiting
      <3>2. CASE w = holder
        <4> DEFINE n == Len(outbox[w])
        <4>1. outbox'[w] = Append(outbox[w], it)
          BY <2>1, <3>2 DEF Types, TypeOK
        <4>2. /\ n \in Nat /\ Len(outbox'[w]) = n + 1 /\ outbox'[w][n + 1] = it
              /\ \A i \in 1..n : outbox'[w][i] = outbox[w][i]
          BY <4>1, <2>1, <2>2, <3>2
        <4>3. \A s \in Subs : row'[s][x].st = "none"
          BY <1>1 DEF Stays, Unseen
        <4>4. \A i \in 1..n : /\ outbox[w][i].u \in arrived
                             /\ outbox[w][i].u # x
                             /\ \A s \in Subs : row[s][outbox[w][i].u].st = "none"
          BY <1>1 DEF Stays, Waiting
        <4>5. \A i, j \in 1..n : outbox[w][j].u = outbox[w][i].u => j = i
          BY DEF Stays, Waiting
        <4> HIDE DEF n
        <4>6. \A i \in 1..(n + 1) : i \in 1..n \/ i = n + 1
          BY <4>2
        <4>7. \A i \in 1..(n + 1) : /\ outbox'[w][i].u \in arrived'
                                   /\ \A s \in Subs : row'[s][outbox'[w][i].u].st = "none"
          BY <4>2, <4>3, <4>4, <4>6, <1>1, <2>1
        <4>8. \A i, j \in 1..(n + 1) : outbox'[w][j].u = outbox'[w][i].u => j = i
          <5> SUFFICES ASSUME NEW i \in 1..(n + 1), NEW j \in 1..(n + 1), outbox'[w][j].u = outbox'[w][i].u
                       PROVE  j = i
            OBVIOUS
          <5>1. CASE i \in 1..n /\ j \in 1..n
            <6>1. outbox'[w][i] = outbox[w][i] /\ outbox'[w][j] = outbox[w][j]
              BY <5>1, <4>2
            <6>2. outbox[w][j].u = outbox[w][i].u
              BY <6>1
            <6>3. QED
              BY <5>1, <6>2, <4>5
          <5>2. CASE i = n + 1 /\ j \in 1..n
            BY <5>2, <4>2, <4>4, <2>1
          <5>3. CASE i \in 1..n /\ j = n + 1
            BY <5>3, <4>2, <4>4, <2>1
          <5>4. QED
            BY <5>1, <5>2, <5>3, <4>6
        <4>9. QED
          BY <4>2, <4>7, <4>8
      <3>3. QED
        BY <3>1, <3>2
    <2>5. QED
      BY <1>2, <2>3, <2>4 DEF Stays
  <1>5. QED
    BY <1>3, <1>4 DEF UpdateArrives, UpdateSkipped, UpdateDropped

\* The outbox writer keeps it, and only creates pending rows.
LEMMA WriteStays ==
  ASSUME Stays, Types, NEW w \in Workers, WriteOutbox(w) \/ WriteFails(w)
  PROVE  /\ Stays'
         /\ \A s \in Subs, u \in Updates :
              \/ row'[s][u].st = row[s][u].st
              \/ row[s][u].st = "none" /\ row'[s][u].st = "pending"
  <1> DEFINE x == Head(outbox[w]).u
             n == Len(outbox[w])
  <1>1. /\ outbox[w] # <<>> /\ outbox' = [outbox EXCEPT ![w] = Tail(@)]
        /\ UNCHANGED <<rounds, inflight, busy, arrived, holder, owner>>
    BY DEF WriteOutbox, WriteFails, session, registry, outside
  <1>2. /\ outbox[w] \in Seq(Items) /\ n \in Nat \ {0} /\ outbox[w][1].u = x /\ x \in Updates
        /\ Tail(outbox[w]) \in Seq(Items) /\ Len(Tail(outbox[w])) = n - 1
        /\ \A i \in 1..(n - 1) : Tail(outbox[w])[i] = outbox[w][i + 1]
    <2>1. outbox[w] \in Seq(Items)
      BY DEF Types, TypeOK
    <2>2. Head(outbox[w]) \in Items
      BY <1>1, <2>1
    <2>3. QED
      BY <1>1, <2>1, <2>2 DEF Items
  <1>3. x \in arrived /\ (\A s \in Subs : row[s][x].st = "none") /\ \A j \in 1..n : outbox[w][j].u = x => j = 1
    BY <1>2 DEF Stays, Waiting
  <1>4. \A s \in Subs, u \in Updates : row'[s][u] = row[s][u] \/ (u = x /\ row'[s][u].st = "pending")
    <2>1. CASE WriteOutbox(w)
      <3>1. PICK ids : Enqueue(ids, x)
        BY <2>1 DEF WriteOutbox
      <3>2. QED
        BY <3>1 DEF Enqueue, Types, TypeOK
    <2>2. CASE WriteFails(w)
      BY <2>2 DEF WriteFails, registry
    <2>3. QED
      BY <2>1, <2>2
  <1>5. budget'["handover"] = 0 /\ budget'["crash"] = 0
    BY NoMove, KindsDef DEF WriteOutbox, WriteFails, Stays, Settled, Types
  <1>6. Settled' /\ OneRound' /\ TickSees'
    BY <1>1, <1>5 DEF Stays, Settled, OneRound, TickSees
  <1>7. OwnerOnly'
    BY <1>1 DEF Stays, OwnerOnly, Types, TypeOK
  <1>8. StillOpen'
    <2> SUFFICES ASSUME NEW v \in Workers, NEW r \in rounds[v]
                 PROVE  /\ r.at # "post" => r.now \in r.todo
                        /\ \A u \in r.todo : row'[r.sub][u].st \in {"pending", "gone"}
      BY <1>1 DEF StillOpen
    <2>1. r.sub \in Subs /\ r.todo \subseteq Updates
      BY RoundTypes DEF Types
    <2>2. QED
      BY <2>1, <1>4 DEF Stays, StillOpen
  <1>9. Unseen'
    BY <1>1, <1>3, <1>4 DEF Stays, Unseen
  <1>10. Waiting'
    <2> SUFFICES ASSUME NEW v \in Workers PROVE
             \A i \in 1..Len(outbox'[v]) :
               /\ outbox'[v][i].u \in arrived'
               /\ \A s \in Subs : row'[s][outbox'[v][i].u].st = "none"
               /\ \A j \in 1..Len(outbox'[v]) : outbox'[v][j].u = outbox'[v][i].u => j = i
      BY DEF Waiting
    <2>0. v # w => outbox[v] = <<>>
      BY <1>1 DEF Stays, OwnerOnly
    <2>1. CASE v # w
      <3>1. outbox'[v] = <<>>
        BY <1>1, <2>0, <2>1 DEF Types, TypeOK
      <3>2. QED
        BY <3>1
    <2>2. CASE v = w
      <3>1. /\ outbox'[v] = Tail(outbox[w])
            /\ Len(outbox'[v]) = n - 1
        BY <1>1, <1>2, <2>2 DEF Types, TypeOK
      <3>2. \A i \in 1..(n - 1) : /\ i + 1 \in 1..n /\ i + 1 # 1
                                 /\ outbox'[v][i] = outbox[w][i + 1]
        BY <1>2, <3>1
      <3>3. \A i \in 1..n : /\ outbox[w][i].u \in arrived /\ outbox[w][i].u \in Updates
                            /\ \A s \in Subs : row[s][outbox[w][i].u].st = "none"
                            /\ \A j \in 1..n : outbox[w][j].u = outbox[w][i].u => j = i
        BY DEF Stays, Waiting, Types, TypeOK
      <3> HIDE DEF n, x
      <3> SUFFICES ASSUME NEW i \in 1..(n - 1) PROVE
               /\ outbox'[v][i].u \in arrived'
               /\ \A s \in Subs : row'[s][outbox'[v][i].u].st = "none"
               /\ \A j \in 1..(n - 1) : outbox'[v][j].u = outbox'[v][i].u => j = i
        BY <3>1
      <3>4. outbox'[v][i].u # x
        BY <3>2, <1>3
      <3>5. \A j \in 1..(n - 1) : outbox'[v][j].u = outbox'[v][i].u => j = i
        <4> SUFFICES ASSUME NEW j \in 1..(n - 1), outbox'[v][j].u = outbox'[v][i].u PROVE j = i
          OBVIOUS
        <4>1. j + 1 = i + 1
          BY <3>2, <3>3
        <4>2. QED
          BY <4>1, <1>2
      <3>6. outbox'[v][i].u \in arrived' /\ outbox'[v][i].u \in Updates
        <4>1. i + 1 \in 1..n /\ outbox'[v][i] = outbox[w][i + 1]
          BY <3>2
        <4>2. outbox[w][i + 1].u \in arrived /\ outbox[w][i + 1].u \in Updates
          BY <4>1, <3>3
        <4>3. QED
          BY <4>1, <4>2, <1>1
      <3>7. \A s \in Subs : row[s][outbox'[v][i].u].st = "none"
        BY <3>2, <3>3
      <3>8. \A s \in Subs : row'[s][outbox'[v][i].u].st = "none"
        BY <3>4, <3>6, <3>7, <1>4
      <3>9. QED
        BY <3>5, <3>6, <3>8
    <2>3. QED
      BY <2>1, <2>2
  <1>11. QED
    BY <1>3, <1>4, <1>6, <1>7, <1>8, <1>9, <1>10 DEF Stays


\* A tick that looks, and a claim that fails, keep it.
LEMMA TickStays ==
  ASSUME Stays, Types, NEW w \in Workers, Tick(w) \/ ClaimFails(w)
  PROVE  Stays'
  <1>1. UNCHANGED <<row, rounds, inflight, outbox, arrived, holder, owner>>
    BY DEF Tick, ClaimFails, registry, session, outside
  <1>2. budget'["handover"] = 0 /\ budget'["crash"] = 0
    BY NoMove, KindsDef DEF Tick, ClaimFails, Stays, Settled, Types
  <1>3. TickSees'
    <2>1. \/ busy' = [busy EXCEPT ![w] = [tick |-> TRUE, subs |-> inflight[w]]]
          \/ busy' = [busy EXCEPT ![w] = [tick |-> FALSE, subs |-> {}]]
      BY DEF Tick, ClaimFails
    <2>2. ASSUME NEW v \in Workers, v # w PROVE busy'[v] = busy[v]
      BY <2>1, <2>2 DEF Types, TypeOK
    <2>3. busy'[w] \in {[tick |-> TRUE, subs |-> inflight[w]], [tick |-> FALSE, subs |-> {}]}
      BY <2>1 DEF Types, TypeOK
    <2>4. busy'[w].tick => inflight[w] \subseteq busy'[w].subs
      BY <2>3
    <2>5. QED
      BY <1>1, <2>2, <2>4 DEF TickSees, Stays
  <1>4. QED
    BY <1>1, <1>2, <1>3 DEF Stays, Settled, OwnerOnly, OneRound, StillOpen, Unseen, Waiting

\* ClaimDeliveries keeps it: what is claimed is pending and not in flight.
LEMMA ClaimStays ==
  ASSUME Stays, Types, NEW w \in Workers, ClaimDeliveries(w)
  PROVE  Stays'
  <1>1. PICK C \in SUBSET Claimable(w) :
          /\ \E share \in [C -> SUBSET Updates] :
               /\ \A s \in C : share[s] \in Shares(w, s)
               /\ rounds' = [rounds EXCEPT ![w] = @ \cup {StartRound(s, share[s]) : s \in C}]
          /\ inflight' = [inflight EXCEPT ![w] = @ \cup C]
    BY DEF ClaimDeliveries
  <1>2. PICK share \in [C -> SUBSET Updates] :
          /\ \A s \in C : share[s] \in Shares(w, s)
          /\ rounds' = [rounds EXCEPT ![w] = @ \cup {StartRound(s, share[s]) : s \in C}]
    BY <1>1
  <1>3. /\ busy[w].tick /\ busy' = [busy EXCEPT ![w] = [tick |-> FALSE, subs |-> {}]]
        /\ UNCHANGED <<row, outbox, arrived, holder, owner, budget>>
    BY DEF ClaimDeliveries, registry, session, outside
  <1>4. \A s \in C : /\ owner = w /\ s \notin inflight[w]
                     /\ \A u \in share[s] : row[s][u].st = "pending"
    <2> SUFFICES ASSUME NEW s \in C
                 PROVE  /\ owner = w /\ s \notin inflight[w]
                        /\ \A u \in share[s] : row[s][u].st = "pending"
      OBVIOUS
    <2>1. Due(w, s) # {} /\ share[s] \subseteq Due(w, s)
      BY <1>2 DEF Claimable, Shares
    <2>2. owner = w /\ s \notin busy[w].subs /\ \A u \in Due(w, s) : row[s][u].st = "pending"
      BY <2>1 DEF Due
    <2>3. QED
      BY <2>1, <2>2, <1>3 DEF Stays, TickSees
  <1>5. \A s \in C : /\ StartRound(s, share[s]).sub = s
                     /\ StartRound(s, share[s]).todo = share[s]
                     /\ StartRound(s, share[s]).at = "post"
    BY DEF StartRound
  <1>6. \A v \in Workers : \A r \in rounds'[v] :
          r \in rounds[v] \/ (v = w /\ \E s \in C : r = StartRound(s, share[s]))
    BY <1>2 DEF Types, TypeOK
  <1>7. /\ inflight'[w] = inflight[w] \cup C
        /\ \A v \in Workers : v # w => inflight'[v] = inflight[v]
        /\ \A v \in Workers : v # w => rounds'[v] = rounds[v]
    BY <1>1, <1>2 DEF Types, TypeOK
  <1>8. Settled' /\ Unseen' /\ Waiting'
    BY <1>3 DEF Stays, Settled, Unseen, Waiting
  <1>9. OwnerOnly'
    BY <1>3, <1>4, <1>6 DEF Stays, OwnerOnly
  <1>10. TickSees'
    BY <1>3, <1>7 DEF Stays, TickSees, Types, TypeOK
  <1>11. OneRound'
    <2> SUFFICES ASSUME NEW v \in Workers, NEW r \in rounds'[v], NEW q \in rounds'[v]
                 PROVE  r.sub \in inflight'[v] /\ (q.sub = r.sub => q = r)
      BY DEF OneRound
    <2>1. CASE v # w
      BY <2>1, <1>7 DEF Stays, OneRound
    <2>2. CASE v = w
      <3>1. \A p \in rounds[w] : p.sub \in inflight[w] /\ \A z \in rounds[w] : z.sub = p.sub => z = p
        BY DEF Stays, OneRound
      <3>2. r \in rounds[w] \/ \E s \in C : r = StartRound(s, share[s])
        BY <1>6, <2>2
      <3>3. q \in rounds[w] \/ \E s \in C : q = StartRound(s, share[s])
        BY <1>6, <2>2
      <3>4. r.sub \in inflight'[v]
        BY <3>1, <3>2, <1>5, <1>7, <2>2
      <3>5. q.sub = r.sub => q = r
        BY <3>1, <3>2, <3>3, <1>4, <1>5
      <3>6. QED
        BY <3>4, <3>5
    <2>3. QED
      BY <2>1, <2>2
  <1>12. StillOpen'
    <2> SUFFICES ASSUME NEW v \in Workers, NEW r \in rounds'[v]
                 PROVE  /\ r.at # "post" => r.now \in r.todo
                        /\ \A u \in r.todo : row[r.sub][u].st \in {"pending", "gone"}
      BY <1>3 DEF StillOpen
    <2>1. CASE r \in rounds[v]
      BY <2>1 DEF Stays, StillOpen
    <2>2. CASE \E s \in C : r = StartRound(s, share[s])
      BY <2>2, <1>4, <1>5
    <2>3. QED
      BY <2>1, <2>2, <1>6
  <1>13. QED
    BY <1>8, <1>9, <1>10, <1>11, <1>12 DEF Stays

\* A round goes on as q, which has no more to do than r; it judges only rows it is
\* done with.
GoesOn(w, r, q) ==
    /\ q.sub = r.sub /\ q.todo \subseteq r.todo
    /\ q.at # "post" => q.now \in q.todo
    /\ rounds' = [rounds EXCEPT ![w] = (@ \ {r}) \cup {q}]
    /\ UNCHANGED inflight
    /\ \A s \in Subs, u \in Updates :
         row'[s][u].st = row[s][u].st
         \/ (s = r.sub /\ u \in r.todo \ q.todo /\ row[s][u].st # "none" /\ row'[s][u].st # "none")

\* A round ends; it judges only rows of its own subscription.
Ends(w, r) ==
    /\ rounds' = [rounds EXCEPT ![w] = @ \ {r}]
    /\ inflight' = [inflight EXCEPT ![w] = @ \ {r.sub}]
    /\ \A s \in Subs, u \in Updates :
         row'[s][u].st = row[s][u].st
         \/ (s = r.sub /\ row[s][u].st # "none" /\ row'[s][u].st # "none")

\* A round that goes on or ends keeps the invariant.
LEMMA RoundStays ==
  ASSUME Stays, Types, NEW w \in Workers, NEW r \in rounds[w],
         Ends(w, r) \/ \E q : GoesOn(w, r, q),
         UNCHANGED <<busy, outbox, arrived, holder, owner>>,
         budget'["handover"] = 0, budget'["crash"] = 0
  PROVE  Stays'
  <1>1. Settled' 
    BY DEF Stays, Settled
  <1>2. owner = w
    BY DEF Stays, OwnerOnly
  <1>3. OwnerOnly'
    BY <1>2 DEF Stays, OwnerOnly, Ends, GoesOn, Types, TypeOK
  <1>4. \A s \in Subs, u \in Updates : row[s][u].st = "none" => row'[s][u].st = "none"
    BY DEF Ends, GoesOn
  <1>5. Unseen'
    BY <1>4 DEF Stays, Unseen
  <1>6. Waiting'
    <2> SUFFICES ASSUME NEW v \in Workers, NEW i \in 1..Len(outbox[v]), NEW s \in Subs
                 PROVE  row'[s][outbox[v][i].u].st = "none"
      BY DEF Stays, Waiting
    <2>1. outbox[v][i].u \in Updates /\ row[s][outbox[v][i].u].st = "none"
      BY DEF Stays, Waiting, Types, TypeOK
    <2>2. QED
      BY <2>1, <1>4
  <1>7. TickSees'
    <2>1. \A v \in Workers : inflight'[v] \subseteq inflight[v]
      <3>1. inflight' = inflight \/ inflight' = [inflight EXCEPT ![w] = @ \ {r.sub}]
        BY DEF Ends, GoesOn
      <3>2. inflight \in [Workers -> SUBSET Subs]
        BY DEF Types, TypeOK
      <3>3. QED
        BY <3>1, <3>2
    <2>2. QED
      BY <2>1 DEF Stays, TickSees
  <1>8. \A p \in rounds[w] : p # r => p.sub # r.sub /\ p.sub \in inflight[w]
    BY DEF Stays, OneRound
  <1>9. CASE Ends(w, r)
    <2>1. /\ rounds'[w] = rounds[w] \ {r} /\ inflight'[w] = inflight[w] \ {r.sub}
          /\ \A v \in Workers : v # w => rounds'[v] = rounds[v] /\ inflight'[v] = inflight[v]
      BY <1>9 DEF Ends, Types, TypeOK
    <2>2. OneRound'
      BY <2>1, <1>8 DEF Stays, OneRound
    <2>3. StillOpen'
      <3> SUFFICES ASSUME NEW v \in Workers, NEW p \in rounds'[v]
                   PROVE  /\ p.at # "post" => p.now \in p.todo
                          /\ \A u \in p.todo : row'[p.sub][u].st \in {"pending", "gone"}
        BY DEF StillOpen
      <3>1. p \in rounds[v] /\ p.sub # r.sub
        BY <2>1, <1>2, <1>8 DEF Stays, OwnerOnly
      <3>2. p.sub \in Subs /\ p.todo \subseteq Updates
        BY <3>1, RoundTypes DEF Types
      <3>3. QED
        BY <3>1, <3>2, <1>9 DEF Stays, StillOpen, Ends
    <2>4. QED
      BY <1>1, <1>3, <1>5, <1>6, <1>7, <2>2, <2>3 DEF Stays
  <1>10. ASSUME NEW q, GoesOn(w, r, q) PROVE Stays'
    <2>1. /\ rounds'[w] = (rounds[w] \ {r}) \cup {q} /\ inflight' = inflight
          /\ \A v \in Workers : v # w => rounds'[v] = rounds[v]
          /\ q.sub = r.sub
      BY <1>10 DEF GoesOn, Types, TypeOK
    <2>2. r.sub \in inflight[w]
      BY DEF Stays, OneRound
    <2>3. OneRound'
      BY <2>1, <2>2, <1>8 DEF Stays, OneRound
    <2>4. StillOpen'
      <3> SUFFICES ASSUME NEW v \in Workers, NEW p \in rounds'[v]
                   PROVE  /\ p.at # "post" => p.now \in p.todo
                          /\ \A u \in p.todo : row'[p.sub][u].st \in {"pending", "gone"}
        BY DEF StillOpen
      <3>1. CASE p = q
        <4>1. r.sub \in Subs /\ r.todo \subseteq Updates
          BY RoundTypes DEF Types
        <4>2. \A u \in r.todo : row[r.sub][u].st \in {"pending", "gone"}
          BY DEF Stays, StillOpen
        <4>3. QED
          BY <3>1, <4>1, <4>2, <1>10 DEF GoesOn
      <3>2. CASE p # q
        <4>1. p \in rounds[v] /\ p.sub # r.sub
          BY <3>2, <2>1, <1>2, <1>8 DEF Stays, OwnerOnly
        <4>2. p.sub \in Subs /\ p.todo \subseteq Updates
          BY <4>1, RoundTypes DEF Types
        <4>3. QED
          BY <4>1, <4>2, <1>10 DEF Stays, StillOpen, GoesOn
      <3>3. QED
        BY <3>1, <3>2
    <2>5. QED
      BY <1>1, <1>3, <1>5, <1>6, <1>7, <2>3, <2>4 DEF Stays
  <1>11. QED
    BY <1>9, <1>10


\* Each step of a round keeps it and judges at most one row, a pending one.
LEMMA RoundStepStays ==
  ASSUME Stays, Types, NEW w \in Workers, NEW r \in rounds[w],
         RoundStep(w, r) \/ MarkFails(w, r) \/ FailFails(w, r)
  PROVE  /\ Stays'
         /\ \A s \in Subs, u \in Updates :
              \/ row'[s][u].st = row[s][u].st
              \/ row[s][u].st = "pending" /\ row'[s][u].st \in {"delivered", "failed"}
  <1> USE DEF registry, session, outside
  <1>0. /\ UNCHANGED <<busy, outbox, arrived, holder, owner>>
        /\ budget'["handover"] = 0 /\ budget'["crash"] = 0
    <2>1. UNCHANGED <<busy, outbox, arrived, holder, owner>>
      BY Zenon DEF RoundStep, Post, MarkDelivered, MarkFails, FailDelivery, FailFails, RoundDone
    <2>2. UNCHANGED budget \/ Spend("error")
      BY Zenon DEF RoundStep, Post, MarkDelivered, MarkFails, FailDelivery, FailFails, RoundDone
    <2>3. budget \in [Kinds -> Nat] /\ budget["handover"] = 0 /\ budget["crash"] = 0
      BY DEF Stays, Settled, Types, TypeOK
    <2>4. QED
      BY <2>1, <2>2, <2>3, KindsDef DEF Spend
  <1>1. /\ r \in Rounds /\ r.sub \in Subs /\ r.todo \subseteq Updates
        /\ r.at # "post" => r.now \in r.todo
        /\ \A u \in r.todo : row[r.sub][u].st \in {"pending", "gone"}
    BY RoundTypes DEF Types, Stays, StillOpen
  <1>2. ASSUME NEW x \in Updates, NEW ok \in BOOLEAN, Post(w, r, x, ok)
        PROVE  (\E q : GoesOn(w, r, q)) /\ row' = row
    <2> DEFINE q == [r EXCEPT !.now = x, !.at = IF ok THEN "mark" ELSE "fail"]
    <2>1. q.sub = r.sub /\ q.todo = r.todo /\ q.now = x
      BY <1>1 DEF Rounds
    <2>2. /\ rounds' = [rounds EXCEPT ![w] = (@ \ {r}) \cup {q}]
          /\ UNCHANGED <<inflight, row>> /\ x \in r.todo
      BY <1>2 DEF Post, Become
    <2> HIDE DEF q
    <2>3. GoesOn(w, r, q)
      BY <2>1, <2>2 DEF GoesOn
    <2>4. QED
      BY <2>2, <2>3
  <1> DEFINE p == [r EXCEPT !.todo = @ \ {r.now}, !.now = None, !.at = "post"]
  <1>3. p.sub = r.sub /\ p.todo = r.todo \ {r.now} /\ p.at = "post"
    BY <1>1 DEF Rounds
  <1>4. ASSUME r.at \in {"mark", "fail"}, NEW new \in Rows,
               new.st \in {"delivered", "failed", row[r.sub][r.now].st},
               SetRow(r.sub, r.now, new)
        PROVE  \A s \in Subs, u \in Updates :
                 \/ row'[s][u].st = row[s][u].st
                 \/ /\ s = r.sub /\ u = r.now /\ u \in r.todo
                    /\ row[s][u].st = "pending" /\ row'[s][u].st \in {"delivered", "failed"}
    <2>1. r.now \in r.todo /\ r.now \in Updates
      BY <1>1, <1>4
    <2>2. \A s \in Subs, u \in Updates :
            row'[s][u] = row[s][u] \/ (s = r.sub /\ u = r.now /\ Exists(s, u) /\ row'[s][u] = new)
      <3>1. row \in [Subs -> [Updates -> Rows]]
        BY DEF Types, TypeOK
      <3>2. QED
        BY <1>4, <1>1, <2>1, <3>1, Zenon DEF SetRow
    <2>3. row[r.sub][r.now].st \in {"pending", "gone"}
      BY <1>1, <2>1
    <2>4. QED
      BY <2>1, <2>2, <2>3, <1>4 DEF Exists
  <1>5. CASE MarkDelivered(w, r)
    <2> DEFINE new == [st |-> "delivered", att |-> row[r.sub][r.now].att + 1, due |-> row[r.sub][r.now].due]
    <2>1. r.at = "mark" /\ SetRow(r.sub, r.now, new) /\ UNCHANGED inflight
          /\ rounds' = [rounds EXCEPT ![w] = (@ \ {r}) \cup {p}]
      BY <1>5 DEF MarkDelivered, NextRow, Become, InRound
    <2>2. row[r.sub][r.now] \in Rows
      BY <1>1, <2>1 DEF Types, TypeOK
    <2>3. new \in Rows /\ new.st = "delivered"
      BY <2>2, JudgedRow
    <2> HIDE DEF new, p
    <2>4. \A s \in Subs, u \in Updates :
             \/ row'[s][u].st = row[s][u].st
             \/ /\ s = r.sub /\ u = r.now /\ u \in r.todo
                /\ row[s][u].st = "pending" /\ row'[s][u].st \in {"delivered", "failed"}
      BY <2>1, <2>3, <1>4
    <2>5. GoesOn(w, r, p)
      BY <2>1, <2>4, <1>3 DEF GoesOn
    <2>6. QED
      BY <2>4, <2>5, <1>0, RoundStays
  <1>6. CASE FailDelivery(w, r)
    <2> DEFINE new == Failed(r, row[r.sub][r.now])
    <2>1. r.at = "fail" /\ SetRow(r.sub, r.now, new)
          /\ rounds' = [rounds EXCEPT ![w] = @ \ {r}]
          /\ inflight' = [inflight EXCEPT ![w] = @ \ {r.sub}]
      BY <1>6 DEF FailDelivery, EndRound, InRound
    <2>2. row[r.sub][r.now] \in Rows
      BY <1>1, <2>1 DEF Types, TypeOK
    <2>3. new \in Rows /\ new.st \in {"failed", row[r.sub][r.now].st}
      <3>1. CASE GiveUp(r)
        BY <3>1, <2>2, JudgedRow DEF Failed
      <3>2. CASE ~GiveUp(r)
        BY <3>2, <2>2, RetriedRow DEF Failed
      <3>3. QED
        BY <3>1, <3>2
    <2> HIDE DEF new
    <2>4. \A s \in Subs, u \in Updates :
             \/ row'[s][u].st = row[s][u].st
             \/ /\ s = r.sub /\ u = r.now /\ u \in r.todo
                /\ row[s][u].st = "pending" /\ row'[s][u].st \in {"delivered", "failed"}
      BY <2>1, <2>3, <1>4
    <2>5. Ends(w, r)
      BY <2>1, <2>4 DEF Ends
    <2>6. QED
      BY <2>4, <2>5, <1>0, RoundStays
  <1>7. CASE MarkFails(w, r)
    <2>1. /\ rounds' = [rounds EXCEPT ![w] = (@ \ {r}) \cup {p}]
          /\ UNCHANGED <<inflight, row>>
      BY <1>7 DEF MarkFails, NextRow, Become
    <2> HIDE DEF p
    <2>2. GoesOn(w, r, p)
      BY <2>1, <1>3 DEF GoesOn
    <2>3. QED
      BY <2>1, <2>2, <1>0, RoundStays
  <1>8. CASE FailFails(w, r) \/ RoundDone(w, r)
    <2>1. Ends(w, r) /\ row' = row
      BY <1>8 DEF FailFails, RoundDone, EndRound, Ends
    <2>2. QED
      BY <2>1, <1>0, RoundStays
  <1>9. QED
    BY <1>0, <1>2, <1>5, <1>6, <1>7, <1>8, RoundStays DEF RoundStep

\* The statuses move as the contract says.
StatusMoves ==
    \A s \in Subs, u \in Updates :
       \/ row'[s][u].st = row[s][u].st
       \/ row[s][u].st = "none" /\ row'[s][u].st = "pending"
       \/ row[s][u].st = "pending" /\ row'[s][u].st \in {"delivered", "failed"}
       \/ row[s][u].st # "none" /\ row'[s][u].st = "gone"

\* Every step keeps the invariant and moves the statuses as the contract says.
LEMMA StaysStep ==
  ASSUME Stays, Types, [Next]_vars
  PROVE  Stays' /\ StatusMoves
  <1> USE DEF registry, session, worker, outside
  <1>1. CASE RowsOnly
    BY <1>1, RowsOnlyStays DEF StatusMoves, RowsOnly
  <1>2. ASSUME UNCHANGED <<row, rounds, inflight, busy, outbox, arrived, holder, owner>>,
               UNCHANGED budget \/ Spend("error") \/ Spend("revoke")
        PROVE  RowsOnly
    BY <1>2, NoMove, KindsDef DEF RowsOnly, Stays, Settled, Types
  <1>3. ASSUME NEW s \in Subs, DeleteSubscription(s) PROVE RowsOnly
    <2>1. budget'["handover"] = 0 /\ budget'["crash"] = 0
      BY <1>3, NoMove, KindsDef DEF DeleteSubscription, Stays, Types
    <2>2. NoRow.st = "none" /\ [NoRow EXCEPT !.st = "gone"].st = "gone"
      BY BlankRow
    <2>3. \A z \in Subs, u \in Updates :
            \/ row'[z][u] = row[z][u]
            \/ row[z][u].st = "none" /\ row'[z][u] = NoRow
            \/ row[z][u].st # "none" /\ row'[z][u] = [NoRow EXCEPT !.st = "gone"]
      BY <1>3 DEF DeleteSubscription, Types, TypeOK
    <2>4. QED
      BY <1>3, <2>1, <2>2, <2>3 DEF DeleteSubscription, RowsOnly
  <1>4. ASSUME NEW s \in Subs, NEW u \in Updates, BackoffOver(s, u) PROVE RowsOnly
    <2>1. row[s][u] \in Rows /\ row' = [row EXCEPT ![s][u] = [row[s][u] EXCEPT !.due = TRUE]]
      BY <1>4 DEF BackoffOver, Types, TypeOK
    <2>2. [row[s][u] EXCEPT !.due = TRUE].st = row[s][u].st
      BY <2>1, DueRow
    <2>3. \A z \in Subs, v \in Updates : row'[z][v].st = row[z][v].st
      BY <2>1, <2>2 DEF Types, TypeOK
    <2>4. QED
      BY <1>4, <2>3 DEF BackoffOver, RowsOnly, Stays, Settled
  <1>5. ASSUME NEW s \in Subs, NEW u \in Updates, PurgeDelivery(s, u) PROVE RowsOnly
    <2>1. row' = [row EXCEPT ![s][u] = [NoRow EXCEPT !.st = "gone"]] /\ row[s][u].st # "none"
      BY <1>5 DEF PurgeDelivery, Exists
    <2>2. [NoRow EXCEPT !.st = "gone"].st = "gone"
      BY BlankRow
    <2>3. \A z \in Subs, v \in Updates :
            row'[z][v] = row[z][v] \/ (z = s /\ v = u /\ row'[z][v] = [NoRow EXCEPT !.st = "gone"])
      BY <2>1 DEF Types, TypeOK
    <2>4. QED
      BY <1>5, <2>1, <2>2, <2>3 DEF PurgeDelivery, RowsOnly, Stays, Settled
  <1>6. ASSUME UNCHANGED row PROVE StatusMoves
    BY <1>6 DEF StatusMoves
  <1>7. ASSUME Subscriptions PROVE Stays' /\ StatusMoves
    BY <1>1, <1>2, <1>3, <1>7
       DEF Subscriptions, CreateSubscription, ChangeToken, LoadFilters, LoadFails, ApplySnapshot
  <1>8. ASSUME NEW u \in Updates, UpdateArrives(u) PROVE Stays' /\ StatusMoves
    BY <1>6, <1>8, ArriveStays DEF UpdateArrives
  <1>9. ASSUME NEW w \in Workers, FlushTake(w) \/ AddDropped(w) \/ AddDroppedFails(w)
        PROVE  Stays' /\ StatusMoves
    BY <1>1, <1>2, <1>9 DEF FlushTake, AddDropped, AddDroppedFails
  <1>10. ASSUME NEW w \in Workers, WriteOutbox(w) \/ WriteFails(w) PROVE Stays' /\ StatusMoves
    BY <1>10, WriteStays DEF StatusMoves
  <1>11. ASSUME Queue PROVE Stays' /\ StatusMoves
    BY <1>8, <1>9, <1>10, <1>11 DEF Queue
  <1>12. ASSUME NEW w \in Workers, Tick(w) \/ ClaimFails(w) \/ ClaimDeliveries(w) PROVE Stays' /\ StatusMoves
    BY <1>6, <1>12, TickStays, ClaimStays DEF Tick, ClaimFails, ClaimDeliveries
  <1>13. ASSUME NEW w \in Workers, NEW r \in rounds[w],
                RoundStep(w, r) \/ MarkFails(w, r) \/ FailFails(w, r)
         PROVE  Stays' /\ StatusMoves
    BY <1>13, RoundStepStays DEF StatusMoves
  <1>14. ASSUME Dispatch PROVE Stays' /\ StatusMoves
    BY <1>1, <1>4, <1>5, <1>12, <1>13, <1>14 DEF Dispatch
  <1>15. ~Move
    BY NoMove, KindsDef, DeliveryAssumption DEF Move, Release, Crash, Acquire, Stays, Settled, Types
  <1>16. CASE UNCHANGED vars
    BY <1>1, <1>2, <1>16 DEF vars
  <1>17. QED
    BY <1>7, <1>11, <1>14, <1>15, <1>16 DEF Next

\* The invariant holds at the start.
LEMMA StaysInit ==
  ASSUME StaysPut, Init
  PROVE  Stays
  <1>1. Settled
    BY DEF Settled, Init, StaysPut
  <1>2. \A s \in Subs, u \in Updates : row[s][u].st = "none"
    BY DEF Init, NoRow
  <1>3. \A w \in Workers : rounds[w] = {} /\ outbox[w] = <<>> /\ ~busy[w].tick
    BY DEF Init
  <1>4. QED
    BY <1>1, <1>2, <1>3 DEF Stays, OwnerOnly, OneRound, TickSees, StillOpen, Unseen, Waiting

\* KeepsContract: a delivery is queued once, ends once, and its verdict is never
\* revised, if the session neither moves nor loses its worker (EnqueueDeliveries,
\* MarkDelivered, FailDelivery, PurgeDeliveries, the cascade).  Run flip shows what a
\* hand-over does to it.
THEOREM ContractKept ==
  ASSUME StaysPut
  PROVE  Spec => KeepsContract
  <1>1. Init => Contract!Init
    BY DEF Init, NoRow, Contract!Init
  <1>2. TypeOK /\ TypeOK' /\ Stays /\ [Next]_vars => Stays' /\ StatusMoves
    BY StaysStep DEF Types
  <1>3. TypeOK' /\ StatusMoves => Contract!Next
    BY DEF StatusMoves, Contract!Next, Contract!Moves, TypeOK, Rows
  <1>4. Init => Stays
    BY StaysInit
  <1>5. QED
    BY <1>1, <1>2, <1>3, <1>4, TypeCorrect, PTL DEF Spec, KeepsContract, Contract!Spec

=============================================================================
