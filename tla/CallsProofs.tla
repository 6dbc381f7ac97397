---------------------------- MODULE CallsProofs ----------------------------
(***************************************************************************)
(* Proofs about Calls and Quota: for every set of methods, groups, rules,  *)
(* windows and waits, and any number of concurrent calls.                  *)
(***************************************************************************)
EXTENDS Calls, TLAPS

-----------------------------------------------------------------------------
(* The policy.                                                             *)

\* The rules Applicable leaves in force are those the operator's table ranks highest:
\* of the rules that bear on a call and cover the same calls in the same window, the
\* token's, else the session's own, else the default.
THEOREM InForceIsRuling ==
    ASSUME NEW rules, NEW session, NEW kd, NEW token
    PROVE  InForce(rules, session, kd, token) = Ruling(rules, session, kd, token)
<1> DEFINE def  == Defaults(rules, kd)
           own  == OwnRules(rules, session)
           mine == TokenRules(rules, token)
<1>1. \A l \in rules : Bears(l, session, kd, token) <=> l \in def \cup own \cup mine
  BY DEF Bears, Defaults, OwnRules, TokenRules
<1>2. def \cup own \cup mine \subseteq rules
  BY DEF Defaults, OwnRules, TokenRules
<1>3. /\ \A l \in def : Rank(l) = 1
      /\ \A l \in own : Rank(l) = 2
      /\ \A l \in mine : Rank(l) = 3
  BY DEF Rank, Defaults, OwnRules, TokenRules
<1>4. \A l : l \in InForce(rules, session, kd, token) <=>
                \/ l \in def /\ Signature(l) \notin Signatures(own \cup mine)
                \/ l \in own /\ Signature(l) \notin Signatures(mine)
                \/ l \in mine
  <2> DEFINE A == Applicable(rules, session, kd, token)
             D(l) == [limit |-> l, replaced |-> Signature(l) \in Signatures(own \cup mine)]
             O(l) == [limit |-> l, replaced |-> Signature(l) \in Signatures(mine)]
             M(l) == [limit |-> l, replaced |-> FALSE]
  <2>1. A = {D(l) : l \in def} \cup {O(l) : l \in own} \cup {M(l) : l \in mine}
    BY DEF Applicable
  <2>2. \A l : /\ D(l).limit = l /\ (~D(l).replaced <=> Signature(l) \notin Signatures(own \cup mine))
              /\ O(l).limit = l /\ (~O(l).replaced <=> Signature(l) \notin Signatures(mine))
              /\ M(l).limit = l /\ ~M(l).replaced
    OBVIOUS
  <2> HIDE DEF A, D, O, M, def, own, mine
  <2>3. \A l : l \in InForce(rules, session, kd, token) <=>
                  \E a \in A : ~a.replaced /\ l = a.limit
    BY DEF InForce, A
  <2> TAKE l
  <2>4. ASSUME NEW a \in A, ~a.replaced, l = a.limit
        PROVE  \/ l \in def /\ Signature(l) \notin Signatures(own \cup mine)
               \/ l \in own /\ Signature(l) \notin Signatures(mine)
               \/ l \in mine
    <3>1. CASE \E k \in def : a = D(k)
      BY <3>1, <2>2, <2>4
    <3>2. CASE \E k \in own : a = O(k)
      BY <3>2, <2>2, <2>4
    <3>3. CASE \E k \in mine : a = M(k)
      BY <3>3, <2>2, <2>4
    <3>4. QED
      BY <2>1, <3>1, <3>2, <3>3
  <2>5. l \in def /\ Signature(l) \notin Signatures(own \cup mine)
           => D(l) \in A /\ ~D(l).replaced /\ l = D(l).limit
    BY <2>1, <2>2
  <2>6. l \in own /\ Signature(l) \notin Signatures(mine)
           => O(l) \in A /\ ~O(l).replaced /\ l = O(l).limit
    BY <2>1, <2>2
  <2>7. l \in mine => M(l) \in A /\ ~M(l).replaced /\ l = M(l).limit
    BY <2>1, <2>2
  <2>8. QED
    BY <2>3, <2>4, <2>5, <2>6, <2>7
<1>5. \A l : l \in Ruling(rules, session, kd, token) <=>
                /\ l \in def \cup own \cup mine
                /\ ~\E o \in def \cup own \cup mine :
                       Signature(o) = Signature(l) /\ Rank(o) > Rank(l)
  BY <1>1, <1>2 DEF Ruling
<1> HIDE DEF def, own, mine
<1>6. ASSUME NEW l \in def
      PROVE  (~\E o \in def \cup own \cup mine : Signature(o) = Signature(l) /\ Rank(o) > Rank(l))
                <=> Signature(l) \notin Signatures(own \cup mine)
  BY <1>3 DEF Signatures
<1>7. ASSUME NEW l \in own
      PROVE  (~\E o \in def \cup own \cup mine : Signature(o) = Signature(l) /\ Rank(o) > Rank(l))
                <=> Signature(l) \notin Signatures(mine)
  BY <1>3 DEF Signatures
<1>8. ASSUME NEW l \in mine
      PROVE  ~\E o \in def \cup own \cup mine : Signature(o) = Signature(l) /\ Rank(o) > Rank(l)
  BY <1>3
<1>9. \A l : l \in InForce(rules, session, kd, token) <=> l \in Ruling(rules, session, kd, token)
  <2> TAKE l
  <2>1. l \in def => l \notin own /\ l \notin mine
    BY <1>3
  <2>2. l \in own => l \notin mine
    BY <1>3
  <2>3. QED
    BY <1>4, <1>5, <1>6, <1>7, <1>8, <2>1, <2>2
<1>10. QED
  BY <1>9 DEF InForce, Ruling

-----------------------------------------------------------------------------
(* Types.                                                                  *)

\* A call that has begun is a record of CallSet.
LEMMA Begun ==
    ASSUME TypeOK, NEW c \in Callers, call[c].at # "none"
    PROVE  /\ call[c] \in CallSet
           /\ call[c].in \in Inputs /\ call[c].leg \in {"resolve", "main"}
           /\ call[c].at \in Steps
           /\ call[c].uses \in SUBSET UseSet /\ call[c].paid \in SUBSET UseSet
           /\ call[c].slot \in Nat /\ call[c].tried \in BOOLEAN
<1>1. call[c] # NoCall
  BY DEF NoCall
<1>2. call[c] \in CallSet
  BY <1>1 DEF TypeOK
<1>3. QED
  BY <1>2 DEF CallSet

\* The registry, the rules and the step of one call change to values of their types.
LEMMA SpendType ==
    ASSUME NEW k \in Acts, budget \in [Acts -> Nat], Spend(k)
    PROVE  budget' \in [Acts -> Nat]
  BY DEF Spend

\* A call that goes to another step stays a call.
LEMMA AtType ==
    ASSUME TypeOK, NEW c \in Callers, call[c].at # "none", NEW step \in Steps, At(c, step)
    PROVE  /\ call' \in [Callers -> CallSet \cup {NoCall}]
           /\ \A d \in Callers \ {c} : call'[d] = call[d]
           /\ call'[c] \in CallSet /\ call'[c].at = step /\ call'[c].slot = call[c].slot
           /\ call'[c].uses = call[c].uses /\ call'[c].paid = call[c].paid
           /\ call'[c].leg = call[c].leg /\ call'[c].in = call[c].in
<1> DEFINE r == [call[c] EXCEPT !.at = step]
<1>1. call[c] \in CallSet
  BY Begun
<1>2. /\ r \in CallSet /\ r.at = step /\ r.slot = call[c].slot /\ r.uses = call[c].uses
      /\ r.paid = call[c].paid /\ r.leg = call[c].leg /\ r.in = call[c].in
  BY <1>1 DEF CallSet
<1>3. call \in [Callers -> CallSet \cup {NoCall}] /\ call' = [call EXCEPT ![c] = r]
  BY DEF At, TypeOK
<1> HIDE DEF r
<1>4. QED
  BY <1>2, <1>3

\* What a call is charged names rules of the table and windows of the clock.
LEMMA ChargesType ==
    ASSUME TypeOK, NEW c \in Callers, call[c].at # "none", NEW rules \in SUBSET Limits
    PROVE  /\ Charges(c, rules) \in SUBSET UseSet
           /\ \A u \in Charges(c, rules) : \E l \in rules : u.id = l.id /\ u.max = l.max
<1> DEFINE n(l) == IF call[c].leg = "resolve" THEN Count(l, Resolver, 0, FALSE)
                   ELSE Count(l, call[c].in.m, call[c].in.n, call[c].in.local)
           use(l) == [id |-> l.id, start |-> WindowStart(l.per, now), n |-> n(l), max |-> l.max]
<1>1. call[c].in.n \in Nat
  BY Begun, CallsAssumption
<1>2. \A l \in rules : n(l) \in Nat
  BY <1>1 DEF Count
<1>3. \A l \in rules : /\ l.id \in Ids /\ l.max \in Nat
                       /\ WindowStart(l.per, now) \in Starts
  BY CallsAssumption DEF Ids, Starts, TypeOK
<1>4. Charges(c, rules) = {use(l) : l \in {k \in rules : n(k) > 0}}
  BY DEF Charges
<1> HIDE DEF n
<1>5. \A l \in rules : use(l) \in UseSet /\ use(l).id = l.id /\ use(l).max = l.max
  BY <1>2, <1>3 DEF UseSet
<1> HIDE DEF use
<1>6. QED
  BY <1>4, <1>5

\* The rules in force are rules.
LEMMA InForceSubset ==
    ASSUME NEW rules, NEW session, NEW kd, NEW token
    PROVE  InForce(rules, session, kd, token) \subseteq rules
<1>1. Ruling(rules, session, kd, token) \subseteq rules
  BY DEF Ruling
<1>2. QED
  BY <1>1, InForceIsRuling

\* Where a call may be with a slot that is still to come.
Waiting == {"wait", "leave", "canceled"}

\* What every step of a call but the booking of a slot does to it: the slot stays, the
\* call does not leave the wait before its slot, and its charges come from the rules.
CallGoes(c) ==
    /\ call' \in [Callers -> CallSet \cup {NoCall}]
    /\ \A d \in Callers \ {c} : call'[d] = call[d]
    /\ call'[c].slot = call[c].slot
    /\ call'[c].at \notin Waiting => (call[c].at \notin Waiting \/ call[c].slot <= now)
    /\ \A u \in call'[c].uses : \/ u \in call[c].uses
                                \/ \E l \in cache'.rules : u.id = l.id /\ u.max = l.max

\* A call updated to a record that keeps the slot goes on as CallGoes says.
LEMMA Updated ==
    ASSUME TypeOK, NEW c \in Callers, NEW r \in CallSet, call' = [call EXCEPT ![c] = r],
           r.slot = call[c].slot,
           r.at \notin Waiting => (call[c].at \notin Waiting \/ call[c].slot <= now),
           \A u \in r.uses : \/ u \in call[c].uses
                             \/ \E l \in cache'.rules : u.id = l.id /\ u.max = l.max
    PROVE  CallGoes(c)
<1>1. call \in [Callers -> CallSet \cup {NoCall}]
  BY DEF TypeOK
<1>2. call'[c] = r /\ call' \in [Callers -> CallSet \cup {NoCall}]
      /\ \A d \in Callers \ {c} : call'[d] = call[d]
  BY <1>1
<1>3. QED
  BY <1>2 DEF CallGoes

\* A call that changes its step and nothing else.
LEMMA AtGoes ==
    ASSUME TypeOK, NEW c \in Callers, call[c].at # "none", NEW step \in Steps, At(c, step),
           step \notin Waiting => (call[c].at \notin Waiting \/ call[c].slot <= now)
    PROVE  CallGoes(c)
  BY AtType DEF CallGoes

\* Enter.
LEMMA EnterGoes ==
    ASSUME TypeOK, NEW c \in Callers, NEW in \in Inputs, Enter(c, in)
    PROVE  CallGoes(c)
<1> DEFINE st == IF Active(Scope(in.m)) THEN "refused"
                 ELSE IF in.named THEN "resolve" ELSE "admit"
           r == [NoCall EXCEPT !.in = in, !.at = st]
<1>1. call[c] = NoCall /\ call' = [call EXCEPT ![c] = r]
  BY DEF Enter
<1>2. st \in {"refused", "resolve", "admit"}
  OBVIOUS
<1> HIDE DEF st
<1>3. /\ r.in = in /\ r.leg = "main" /\ r.at = st /\ r.uses = {} /\ r.paid = {}
      /\ r.slot = 0
  BY DEF NoCall
<1>4. r \in CallSet
  BY <1>2 DEF NoCall, CallSet, Steps
<1>5. call[c].slot = 0 /\ call[c].at = "none"
  BY <1>1 DEF NoCall
<1> HIDE DEF r
<1>6. QED
  BY <1>1, <1>3, <1>4, <1>5, Updated DEF Waiting

\* Resolve and Admit.
LEMMA AdmitGoes ==
    ASSUME TypeOK, NEW c \in Callers, Resolve(c) \/ Admit(c)
    PROVE  CallGoes(c)
<1>0. call[c].at # "none" /\ call[c].at \notin Waiting
  BY DEF Resolve, Admit, Waiting
<1>1. call[c] \in CallSet
  BY <1>0, Begun
<1>2. CASE Resolve(c)
  <2> DEFINE r == [call[c] EXCEPT !.at  = IF Active("@resolve") THEN "refused" ELSE "rules",
                                  !.leg = IF Active("@resolve") THEN "main" ELSE "resolve"]
  <2>1. r \in CallSet /\ r.slot = call[c].slot /\ r.uses = call[c].uses
    BY <1>1 DEF CallSet, Steps
  <2>2. call' = [call EXCEPT ![c] = r]
    BY <1>2 DEF Resolve
  <2> HIDE DEF r
  <2>3. QED
    BY <2>1, <2>2, <1>0, Updated
<1>3. CASE Admit(c)
  <2>1. At(c, "refused") \/ At(c, "rules")
    BY <1>3 DEF Admit
  <2>2. QED
    BY <2>1, <1>0, AtGoes DEF Steps
<1>4. QED
  BY <1>2, <1>3

\* The quota's steps.
LEMMA QuotaGoes ==
    ASSUME TypeOK, NEW c \in Callers,
           ListLimits(c) \/ TakeQuota(c) \/ TakeCounters(c) \/ Refuse(c) \/ TakeFails(c)
    PROVE  CallGoes(c) /\ cache' \in CacheSet
<1>0. call[c].at # "none" /\ call[c].at \notin Waiting
  BY DEF ListLimits, TakeQuota, TakeCounters, Refuse, TakeFails, Waiting
<1>1. call[c] \in CallSet
  BY <1>0, Begun
<1>2. AfterQuota(c) \in {"pace", "sent"}
  BY DEF AfterQuota
<1>3. CASE TakeQuota(c)
  <2>1. cache' \in CacheSet
    <3>1. /\ cache \in CacheSet /\ load.rules \in SUBSET Limits
          /\ now \in Int /\ now - load.since \in Int
      BY CallsAssumption DEF TypeOK, Times, LoadSet
    <3>2. \/ cache' = cache
          \/ cache' = [rules |-> load.rules, at |-> now, lag |-> now - load.since]
      BY <1>3 DEF TakeQuota, limitRules, ruleCache
    <3>3. QED
      BY <3>1, <3>2 DEF CacheSet
  <2> DEFINE uses == Charges(c, InForce(cache'.rules, Session, kind, call[c].in.tok))
             r == [call[c] EXCEPT !.uses = uses,
                                  !.at   = IF uses = {} THEN AfterQuota(c) ELSE "take"]
  <2>2. /\ InForce(cache'.rules, Session, kind, call[c].in.tok) \in SUBSET Limits
        /\ InForce(cache'.rules, Session, kind, call[c].in.tok) \subseteq cache'.rules
    BY <2>1, InForceSubset DEF CacheSet
  <2>3. /\ uses \in SUBSET UseSet
        /\ \A u \in uses : \E l \in cache'.rules : u.id = l.id /\ u.max = l.max
    BY <2>2, <1>0, ChargesType
  <2>4. call' = [call EXCEPT ![c] = r]
    BY <1>3 DEF TakeQuota
  <2> HIDE DEF uses
  <2>5. r \in CallSet /\ r.slot = call[c].slot /\ r.uses = uses
    BY <1>1, <1>2, <2>3 DEF CallSet, Steps
  <2> HIDE DEF r
  <2>6. CallGoes(c)
    BY <2>3, <2>4, <2>5, <1>0, Updated
  <2>7. QED
    BY <2>1, <2>6
<1>4. CASE TakeCounters(c)
  <2>1. At(c, AfterQuota(c)) /\ cache' = cache
    BY <1>4 DEF TakeCounters, ruleCache
  <2>2. AfterQuota(c) \in Steps
    BY <1>2 DEF Steps
  <2>3. CallGoes(c)
    BY <2>1, <2>2, <1>0, AtGoes
  <2>4. QED
    BY <2>1, <2>3 DEF TypeOK
<1>5. CASE Refuse(c) \/ TakeFails(c)
  <2> DEFINE st == IF Refuse(c) THEN "refused" ELSE AfterQuota(c)
             r == [call[c] EXCEPT !.at = st, !.uses = {}]
  <2>1. call' = [call EXCEPT ![c] = r] /\ cache' = cache
    BY <1>5 DEF Refuse, TakeFails, ruleCache
  <2>2. st \in Steps
    BY <1>2 DEF Steps
  <2> HIDE DEF st
  <2>3. r \in CallSet /\ r.slot = call[c].slot /\ r.uses = {}
    BY <1>1, <2>2 DEF CallSet
  <2> HIDE DEF r
  <2>4. CallGoes(c)
    BY <2>1, <2>3, <1>0, Updated
  <2>5. QED
    BY <2>1, <2>4 DEF TypeOK
<1>6. CASE ListLimits(c)
  BY <1>0, <1>6 DEF ListLimits, CallGoes, TypeOK
<1>7. QED
  BY <1>3, <1>4, <1>5, <1>6

\* The end of the wait, the give-back and the answer.
LEMMA EndGoes ==
    ASSUME TypeOK, NEW c \in Callers,
           PaceEnds(c) \/ Release(c) \/ \E o \in Outcomes : Answer(c, o)
    PROVE  CallGoes(c)
<1>0. call[c].at # "none"
  BY DEF PaceEnds, Release, Answer
<1>1. call[c] \in CallSet /\ call[c].uses \in SUBSET UseSet
  BY <1>0, Begun
<1>2. CASE PaceEnds(c)
  <2>1. \/ At(c, "sent") /\ now >= call[c].slot
        \/ At(c, "leave")
    BY <1>2 DEF PaceEnds
  <2>2. now \in Nat /\ call[c].slot \in Nat
    BY <1>0, Begun, CallsAssumption DEF TypeOK, Times
  <2>3. "sent" \in Steps /\ "leave" \in Steps /\ "leave" \in Waiting
    BY DEF Steps, Waiting
  <2>4. CASE At(c, "sent") /\ now >= call[c].slot
    <3>1. call[c].slot <= now
      BY <2>2, <2>4
    <3>2. QED
      BY <2>3, <2>4, <3>1, <1>0, AtGoes
  <2>5. CASE At(c, "leave")
    BY <2>3, <2>5, <1>0, AtGoes
  <2>6. QED
    BY <2>1, <2>4, <2>5
<1>3. CASE Release(c)
  <2> DEFINE result == IF call[c].at = "release" THEN "refused" ELSE "canceled"
  <2>1. /\ result \in Steps
        /\ result \notin Waiting => call[c].at \notin Waiting
    BY DEF Steps, Waiting
  <2>2. \/ At(c, result)
        \/ \E u \in call[c].uses : call' = [call EXCEPT ![c].uses = @ \ {u}]
        \/ call' = [call EXCEPT ![c].at = result, ![c].uses = {}]
    BY <1>3 DEF Release
  <2> HIDE DEF result
  <2>3. CASE At(c, result)
    BY <2>1, <2>3, <1>0, AtGoes
  <2>4. ASSUME NEW u \in call[c].uses, call' = [call EXCEPT ![c].uses = @ \ {u}]
        PROVE  CallGoes(c)
    <3> DEFINE r == [call[c] EXCEPT !.uses = call[c].uses \ {u}]
    <3>1. /\ r \in CallSet /\ r.slot = call[c].slot /\ r.uses = call[c].uses \ {u}
          /\ r.at = call[c].at
      BY <1>1 DEF CallSet
    <3>2. call' = [call EXCEPT ![c] = r]
      BY <2>4
    <3> HIDE DEF r
    <3>3. \A v \in r.uses : v \in call[c].uses
      BY <3>1
    <3>4. QED
      BY <3>1, <3>2, <3>3, Updated
  <2>5. CASE call' = [call EXCEPT ![c].at = result, ![c].uses = {}]
    <3> DEFINE r == [call[c] EXCEPT !.at = result, !.uses = {}]
    <3>1. r \in CallSet /\ r.slot = call[c].slot /\ r.uses = {} /\ r.at = result
      BY <1>1, <2>1 DEF CallSet
    <3>2. call' = [call EXCEPT ![c] = r]
      BY <2>5
    <3> HIDE DEF r
    <3>3. QED
      BY <3>1, <3>2, <2>1, Updated
  <2>6. QED
    BY <2>2, <2>3, <2>4, <2>5
<1>4. ASSUME NEW o \in Outcomes, Answer(c, o)
      PROVE  CallGoes(c)
  <2>0. call[c].at = "sent" /\ call[c].at \notin Waiting
    BY <1>4 DEF Answer, Waiting
  <2>1. \/ call' = [call EXCEPT ![c].tried = TRUE]
        \/ call' = [call EXCEPT ![c].leg = "main", ![c].at = "admit",
                                ![c].paid = call[c].uses, ![c].uses = {}]
        \/ At(c, "answered")
    BY <1>4 DEF Answer
  <2>2. CASE call' = [call EXCEPT ![c].tried = TRUE]
    <3> DEFINE r == [call[c] EXCEPT !.tried = TRUE]
    <3>1. r \in CallSet /\ r.slot = call[c].slot /\ r.uses = call[c].uses
      BY <1>1 DEF CallSet
    <3>2. call' = [call EXCEPT ![c] = r]
      BY <2>2
    <3> HIDE DEF r
    <3>3. QED
      BY <3>1, <3>2, <2>0, Updated
  <2>3. CASE call' = [call EXCEPT ![c].leg = "main", ![c].at = "admit",
                                  ![c].paid = call[c].uses, ![c].uses = {}]
    <3> DEFINE r == [call[c] EXCEPT !.leg = "main", !.at = "admit",
                                    !.paid = call[c].uses, !.uses = {}]
    <3>1. r \in CallSet /\ r.slot = call[c].slot /\ r.uses = {}
      BY <1>1 DEF CallSet, Steps
    <3>2. call' = [call EXCEPT ![c] = r]
      BY <2>3
    <3> HIDE DEF r
    <3>3. QED
      BY <3>1, <3>2, <2>0, Updated
  <2>4. CASE At(c, "answered")
    BY <2>4, <2>0, AtGoes DEF Steps
  <2>5. QED
    BY <2>1, <2>2, <2>3, <2>4
<1>5. QED
  BY <1>2, <1>3, <1>4

\* The booking of a slot: the call takes the later of now and the next slot, and the
\* next slot moves PaceInterval beyond it; or nothing is booked.
LEMMA PaceGoes ==
    ASSUME TypeOK, NEW c \in Callers, Pace(c)
    PROVE  \/ CallGoes(c) /\ next' = next
           \/ /\ call' \in [Callers -> CallSet \cup {NoCall}]
              /\ \A d \in Callers \ {c} : call'[d] = call[d]
              /\ call'[c].slot = Later(next, now)
              /\ call'[c].uses = call[c].uses
              /\ call'[c].at \notin Waiting => call'[c].slot = now
              /\ next' = Later(next, now) + PaceInterval
<1> DEFINE slot == Later(next, now)
<1>0. call[c].at = "pace" /\ call[c].at \notin Waiting
  BY DEF Pace, Waiting
<1>1. call[c] \in CallSet
  BY <1>0, Begun
<1>2. slot \in Nat
  BY CallsAssumption DEF Later, TypeOK, Times
<1>3. CASE slot - now > MaxPaceWait
  <2>1. At(c, "release") /\ next' = next
    BY <1>3 DEF Pace, reserve
  <2>2. QED
    BY <2>1, <1>0, AtGoes DEF Steps
<1>4. CASE ~(slot - now > MaxPaceWait)
  <2> DEFINE st == IF slot = now THEN "sent" ELSE "wait"
             r  == [call[c] EXCEPT !.slot = slot, !.at = st]
  <2>1. call' = [call EXCEPT ![c] = r] /\ next' = slot + PaceInterval
    BY <1>4 DEF Pace, reserve
  <2>2. st \in Steps /\ (st \notin Waiting => slot = now)
    BY DEF Steps, Waiting
  <2> HIDE DEF st, slot
  <2>3. r \in CallSet /\ r.slot = slot /\ r.at = st /\ r.uses = call[c].uses
    BY <1>1, <1>2, <2>2 DEF CallSet
  <2> HIDE DEF r
  <2>4. /\ call' \in [Callers -> CallSet \cup {NoCall}]
        /\ \A d \in Callers \ {c} : call'[d] = call[d]
        /\ call'[c] = r
    BY <2>1, <2>3 DEF TypeOK
  <2>5. QED
    BY <2>1, <2>2, <2>3, <2>4 DEF slot
<1>5. QED
  BY <1>3, <1>4

\* A hand-over ends the calls under way and forgets the slots.
LEMMA MoveGoes ==
    ASSUME TypeOK, Move
    PROVE  /\ call' \in [Callers -> CallSet \cup {NoCall}]
           /\ \A c \in Callers : call'[c].slot = 0 /\ call'[c].uses \subseteq call[c].uses
<1> DEFINE under == {"resolve", "admit", "rules", "take", "pace", "wait", "sent"}
           r(c) == [call[c] EXCEPT !.at = "answered", !.slot = 0,
                                   !.uses = IF call[c].at = "take" THEN {} ELSE @]
           q(c) == [call[c] EXCEPT !.slot = 0]
<1>1. call' = [c \in Callers |-> IF call[c].at \in under THEN r(c) ELSE q(c)]
  BY DEF Move
<1>2. ASSUME NEW c \in Callers, call[c].at \in under
      PROVE  r(c) \in CallSet /\ r(c).slot = 0 /\ r(c).uses \subseteq call[c].uses
  <2>1. call[c] \in CallSet
    BY <1>2, Begun
  <2>2. QED
    BY <2>1 DEF CallSet, Steps
<1>3. ASSUME NEW c \in Callers
      PROVE  q(c) \in CallSet \cup {NoCall} /\ q(c).slot = 0 /\ q(c).uses = call[c].uses
  <2>1. CASE call[c] \in CallSet
    BY <2>1 DEF CallSet
  <2>2. CASE call[c] = NoCall
    <3>1. NoCall = [x \in {"in", "leg", "at", "uses", "paid", "slot", "tried"} |-> NoCall[x]]
      BY DEF NoCall
    <3>2. NoCall.slot = 0
      BY DEF NoCall
    <3>3. q(c) = NoCall
      BY <2>2, <3>1, <3>2
    <3>4. QED
      BY <2>2, <3>2, <3>3
  <2>3. QED
    BY <2>1, <2>2 DEF TypeOK
<1> HIDE DEF r, q, under
<1>4. QED
  BY <1>1, <1>2, <1>3

\* The types of what the guard learns.
GuardTypes ==
    /\ cool \in [Scopes -> Nat] /\ flag \in [Flags -> FlagValues]
    /\ writes \in SUBSET WriteSet /\ broken \in SUBSET (Scopes \cup Flags \cup Ids)

\* coolDown keeps the types.
LEMMA CoolDownType ==
    ASSUME GuardTypes, NEW scope \in Scopes, NEW until \in Nat, coolDown(scope, until)
    PROVE  GuardTypes'
<1>1. [what |-> scope, value |-> until] \in WriteSet
  BY DEF WriteSet
<1>2. QED
  BY <1>1 DEF GuardTypes, coolDown

\* setFlag keeps the types.
LEMMA SetFlagType ==
    ASSUME GuardTypes, NEW f \in Flags, NEW v \in FlagValues, NEW always \in BOOLEAN,
           setFlag(f, v, always)
    PROVE  GuardTypes'
<1>1. [what |-> f, value |-> v] \in WriteSet
  BY DEF WriteSet
<1>2. QED
  BY <1>1 DEF GuardTypes, setFlag

\* What observe learns from an error keeps the types.
LEMMA ObserveType ==
    ASSUME TypeOK, NEW scope \in Scopes, NEW o \in Outcomes, observe(scope, o)
    PROVE  GuardTypes'
<1>1. GuardTypes /\ now \in Nat
  BY CallsAssumption DEF TypeOK, GuardTypes, Times
<1>2. /\ "spam_limit" \in Scopes /\ "frozen" \in Flags
      /\ "yes" \in FlagValues /\ "no" \in FlagValues
  BY DEF Scopes, Flags, FlagValues
<1>3. ASSUME NEW d \in Waits, coolDown(scope, now + d) PROVE GuardTypes'
  BY <1>1, <1>3, CoolDownType, CallsAssumption
<1>4. ASSUME coolDown("spam_limit", now + SpamWait) PROVE GuardTypes'
  BY <1>1, <1>2, <1>4, CoolDownType, CallsAssumption
<1>5. ASSUME setFlag("frozen", "yes", FALSE) \/ setFlag("frozen", "no", FALSE) PROVE GuardTypes'
  BY <1>1, <1>2, <1>5, SetFlagType
<1>6. ASSUME UNCHANGED <<cool, flag, writes, broken>> PROVE GuardTypes'
  BY <1>1, <1>6 DEF GuardTypes
<1>7. QED
  BY <1>3, <1>4, <1>5, <1>6 DEF observe

\* The scope of a leg is a scope.
LEMMA LegScopeType ==
    ASSUME TypeOK, NEW c \in Callers, call[c].at # "none"
    PROVE  LegScope(c) \in Scopes
<1>1. LegMethod(c) \in Methods
  BY Begun, CallsAssumption DEF LegMethod
<1>2. QED
  BY <1>1 DEF LegScope, Scopes

\* TakeCounters adds to counters, a give-back leaves them natural numbers.
LEMMA CountedType ==
    ASSUME TypeOK, NEW uses \in SUBSET UseSet
    PROVE  /\ Counted(uses) \in [Ids -> [Starts -> Nat]]
           /\ \A id \in Ids, s \in Starts :
                 \/ Counted(uses)[id][s] = counter[id][s]
                 \/ \E u \in uses : /\ u.id = id /\ u.start = s
                                    /\ Counted(uses)[id][s] = counter[id][s] + u.n
<1> DEFINE P(u, id, s) == u.id = id /\ u.start = s
           add(id, s) == IF \E u \in uses : P(u, id, s)
                         THEN (CHOOSE u \in uses : P(u, id, s)).n ELSE 0
<1>1. ASSUME NEW id \in Ids, NEW s \in Starts
      PROVE  /\ counter[id][s] \in Nat
             /\ \/ add(id, s) = 0
                \/ \E u \in uses : P(u, id, s) /\ add(id, s) = u.n
             /\ add(id, s) \in Nat
  <2>1. counter[id][s] \in Nat
    BY DEF TypeOK
  <2>2. CASE \E u \in uses : P(u, id, s)
    <3> DEFINE v == CHOOSE u \in uses : P(u, id, s)
    <3>1. v \in uses /\ P(v, id, s)
      BY <2>2
    <3>2. v.n \in Nat
      BY <3>1 DEF UseSet
    <3>3. add(id, s) = v.n
      BY <2>2
    <3> HIDE DEF v
    <3>4. QED
      BY <2>1, <3>1, <3>2, <3>3
  <2>3. CASE ~\E u \in uses : P(u, id, s)
    BY <2>1, <2>3
  <2>4. QED
    BY <2>2, <2>3
<1>2. Counted(uses) = [id \in Ids |-> [s \in Starts |-> counter[id][s] + add(id, s)]]
  BY DEF Counted
<1> HIDE DEF add
<1>3. QED
  BY <1>1, <1>2

\* GREATEST(calls - n, 0) is natural and no more than before.
LEMMA GiveBackType ==
    ASSUME TypeOK, NEW u \in UseSet
    PROVE  /\ GiveBack(u) \in [Ids -> [Starts -> Nat]]
           /\ \A id \in Ids, s \in Starts : GiveBack(u)[id][s] <= counter[id][s]
<1>1. u.id \in Ids /\ u.start \in Starts /\ u.n \in Nat
  BY DEF UseSet
<1>2. counter \in [Ids -> [Starts -> Nat]] /\ \A id \in Ids, s \in Starts : counter[id][s] \in Nat
  BY DEF TypeOK
<1> DEFINE n == IF counter[u.id][u.start] < u.n THEN 0 ELSE counter[u.id][u.start] - u.n
<1>3. n \in Nat /\ n <= counter[u.id][u.start]
  BY <1>1, <1>2
<1>4. GiveBack(u) = [counter EXCEPT ![u.id] = [counter[u.id] EXCEPT ![u.start] = n]]
  BY <1>1, <1>2 DEF GiveBack
<1> HIDE DEF n
<1>5. [counter[u.id] EXCEPT ![u.start] = n] \in [Starts -> Nat]
  BY <1>1, <1>2, <1>3
<1>6. GiveBack(u) \in [Ids -> [Starts -> Nat]]
  BY <1>1, <1>2, <1>4, <1>5
<1>7. ASSUME NEW id \in Ids, NEW s \in Starts
      PROVE  GiveBack(u)[id][s] <= counter[id][s]
  <2>1. counter[id][s] \in Nat /\ counter[id][s] <= counter[id][s]
    BY <1>2
  <2>2. CASE id = u.id /\ s = u.start
    BY <2>2, <1>1, <1>2, <1>3, <1>4
  <2>3. CASE ~(id = u.id /\ s = u.start)
    <3>1. GiveBack(u)[id][s] = counter[id][s]
      BY <2>3, <1>1, <1>2, <1>4
    <3>2. QED
      BY <3>1, <2>1
  <2>4. QED
    BY <2>2, <2>3
<1>8. QED
  BY <1>6, <1>7

\* A highest max is a natural number.
LEMMA MaxType ==
    ASSUME NEW ls \in SUBSET Limits, NEW id \in Ids, \E l \in ls : l.id = id
    PROVE  (CHOOSE l \in ls : l.id = id).max \in Nat
<1>1. (CHOOSE l \in ls : l.id = id) \in ls
  OBVIOUS
<1>2. QED
  BY <1>1, CallsAssumption

\* The initial values have their types.
LEMMA TypeStart == Init => TypeOK
<1> SUFFICES ASSUME Init PROVE TypeOK
  OBVIOUS
<1> USE DEF Init
<1>1. now \in Times /\ kind \in Kinds /\ limits \subseteq Limits
  BY CallsAssumption DEF Times
<1>2. /\ counter \in [Ids -> [Starts -> Nat]] /\ ends \in [Scopes -> Nat]
      /\ cool \in [Scopes -> Nat] /\ next \in Nat /\ writes \subseteq WriteSet
      /\ lifting \subseteq Scopes /\ changed \in Nat /\ broken \subseteq Scopes \cup Flags \cup Ids
      /\ call \in [Callers -> CallSet \cup {NoCall}]
  OBVIOUS
<1>3. dbFlag \in [Flags -> FlagValues] /\ flag \in [Flags -> FlagValues]
  BY DEF FlagValues
<1>4. cache \in CacheSet /\ load \in LoadSet
  BY CallsAssumption DEF NoCache, NoLoad, CacheSet, LoadSet
<1>5. cap \in [Ids -> Nat]
  BY MaxType, CallsAssumption
<1>6. budget \in [Acts -> Nat]
  BY CallsAssumption
<1>7. QED
  BY <1>1, <1>2, <1>3, <1>4, <1>5, <1>6 DEF TypeOK

\* What a step of a call leaves to be shown about the variables other than call.
LEMMA CallType ==
    ASSUME TypeOK, NEW c \in Callers, Step(c) \/ \E in \in Inputs : Enter(c, in)
    PROVE  TypeOK'
<1>1. call' \in [Callers -> CallSet \cup {NoCall}]
  <2>1. CASE Pace(c)
    BY <2>1, PaceGoes DEF CallGoes
  <2>2. CASE ~Pace(c)
    <3>1. CallGoes(c)
      BY <2>2, EnterGoes, AdmitGoes, QuotaGoes, EndGoes DEF Step
    <3>2. QED
      BY <3>1 DEF CallGoes
  <2>3. QED
    BY <2>1, <2>2
<1>2. /\ "fault" \in Acts /\ "answer" \in Acts /\ budget \in [Acts -> Nat]
  BY DEF Acts, TypeOK
<1>3. CASE Resolve(c) \/ Admit(c) \/ Refuse(c) \/ PaceEnds(c) \/ \E in \in Inputs : Enter(c, in)
  BY <1>1, <1>3 DEF TypeOK, Resolve, Admit, Refuse, PaceEnds, Enter, registry, guard, history,
                           ruleCache
<1>4. CASE TakeQuota(c)
  <2>1. budget' \in [Acts -> Nat]
    BY <1>2, <1>4, SpendType DEF TakeQuota, limitRules
  <2>2. cache' \in CacheSet
    BY <1>4, QuotaGoes
  <2>3. load' \in LoadSet
    <3>1. load' = load \/ load' = NoLoad
      BY <1>4 DEF TakeQuota, limitRules, ruleCache
    <3>2. QED
      BY <3>1 DEF TypeOK, NoLoad, LoadSet
  <2>4. QED
    BY <1>1, <1>4, <2>1, <2>2, <2>3 DEF TypeOK, TakeQuota, registry, guard, history
<1>5. CASE TakeCounters(c)
  <2>1. counter' = Counted(call[c].uses) /\ call[c].uses \in SUBSET UseSet
    BY <1>5, Begun DEF TakeCounters
  <2>2. counter' \in [Ids -> [Starts -> Nat]]
    BY <2>1, CountedType
  <2>3. QED
    BY <1>1, <1>5, <2>2 DEF TypeOK, TakeCounters, guard, history, ruleCache
<1>6. CASE TakeFails(c)
  <2>1. budget' \in [Acts -> Nat]
    BY <1>2, <1>6, SpendType DEF TakeFails
  <2>2. QED
    BY <1>1, <1>6, <2>1 DEF TypeOK, TakeFails, registry, guard, history, ruleCache
<1>7. CASE Pace(c)
  <2>1. next' \in Nat
    BY <1>7, PaceGoes, CallsAssumption DEF TypeOK, Later, Times
  <2>2. QED
    BY <1>1, <1>7, <2>1 DEF TypeOK, Pace, registry, history, ruleCache
<1>8. CASE Release(c)
  <2>1. call[c].uses \in SUBSET UseSet
    BY <1>8, Begun DEF Release
  <2>2. \A u \in call[c].uses : u.id \in Ids
    BY <2>1 DEF UseSet
  <2>3. counter' \in [Ids -> [Starts -> Nat]]
    BY <1>8, <2>1, GiveBackType DEF Release, TypeOK
  <2>4. broken' \subseteq Scopes \cup Flags \cup Ids
    BY <1>8, <2>2 DEF Release, TypeOK
  <2>5. budget' \in [Acts -> Nat]
    BY <1>2, <1>8, SpendType DEF Release
  <2>6. QED
    BY <1>1, <1>8, <2>3, <2>4, <2>5 DEF TypeOK, Release, guard, ruleCache
<1>9. ASSUME NEW o \in Outcomes, Answer(c, o) PROVE TypeOK'
  <2>1. LegScope(c) \in Scopes
    BY <1>9, LegScopeType DEF Answer
  <2>2. GuardTypes'
    <3>1. CASE UNCHANGED <<cool, flag, writes, broken>>
      BY <3>1 DEF GuardTypes, TypeOK
    <3>2. CASE observe(LegScope(c), o)
      BY <2>1, <3>2, ObserveType
    <3>3. QED
      BY <1>9, <3>1, <3>2 DEF Answer
  <2>3. budget' \in [Acts -> Nat]
    BY <1>2, <1>9, SpendType DEF Answer
  <2>4. QED
    BY <1>1, <1>9, <2>2, <2>3 DEF TypeOK, Answer, GuardTypes, registry, ruleCache
<1>10. CASE ListLimits(c)
  <2>1. load' \in LoadSet
    BY <1>10, CallsAssumption DEF ListLimits, LoadSet, TypeOK, Times
  <2>2. QED
    BY <1>1, <1>10, <2>1 DEF TypeOK, ListLimits, registry, guard, history
<1>11. QED
  BY <1>3, <1>4, <1>5, <1>6, <1>7, <1>8, <1>9, <1>10 DEF Step

\* An update about the account keeps the types.
LEMMA UpdateType ==
    ASSUME TypeOK, Update
    PROVE  TypeOK'
<1>1. GuardTypes /\ "update" \in Acts /\ budget \in [Acts -> Nat]
  BY DEF TypeOK, GuardTypes, Acts
<1>2. GuardTypes'
  <2>1. ASSUME NEW o \in {"flood", "peer_flood", "frozen"}, observe("@send", o)
        PROVE  GuardTypes'
    BY <2>1, ObserveType, CallsAssumption DEF Outcomes
  <2>2. /\ "frozen" \in Flags /\ "premium" \in Flags
        /\ "yes" \in FlagValues /\ "no" \in FlagValues
    BY DEF Flags, FlagValues
  <2>3. ASSUME NEW f \in Flags, NEW v \in FlagValues, NEW always \in BOOLEAN, setFlag(f, v, always)
        PROVE  GuardTypes'
    BY <1>1, <2>3, SetFlagType
  <2>4. QED
    BY <2>1, <2>2, <2>3 DEF Update
<1>3. budget' \in [Acts -> Nat]
  BY <1>1, SpendType DEF Update
<1>4. QED
  BY <1>2, <1>3 DEF TypeOK, Update, GuardTypes, registry, ruleCache

\* The registry writes, the lift of a cooldown, the purge and a move keep the types.
LEMMA RegistryType ==
    ASSUME TypeOK, Registry
    PROVE  TypeOK'
<1>1. /\ "fault" \in Acts /\ "lift" \in Acts /\ "move" \in Acts /\ budget \in [Acts -> Nat]
      /\ now \in Nat
  BY CallsAssumption DEF Acts, TypeOK, Times
<1>2. ASSUME NEW w \in writes, Land(w) PROVE TypeOK'
  <2>1. budget' \in [Acts -> Nat]
    BY <1>1, <1>2, SpendType DEF Land
  <2>2. w \in WriteSet
    BY DEF TypeOK
  <2>3. /\ w.what \in Scopes \cup Flags
        /\ w.what \in Scopes => w.value \in Nat
        /\ w.what \in Flags => w.value \in FlagValues
    BY <2>2, CallsAssumption DEF WriteSet
  <2>4. ends' \in [Scopes -> Nat]
    <3>1. CASE w.what \in Scopes /\ ends' = SetCooldown(w.what, w.value)
      BY <3>1, <2>3 DEF SetCooldown, Later, TypeOK
    <3>2. CASE ends' = ends
      BY <3>2 DEF TypeOK
    <3>3. QED
      BY <1>2, <3>1, <3>2 DEF Land
  <2>5. dbFlag' \in [Flags -> FlagValues]
    BY <1>2, <2>3 DEF Land, TypeOK
  <2>6. broken' \subseteq Scopes \cup Flags \cup Ids /\ writes' \subseteq WriteSet
    BY <1>2, <2>3 DEF Land, TypeOK
  <2>7. QED
    BY <1>2, <2>1, <2>4, <2>5, <2>6 DEF TypeOK, Land, guard, ruleCache
<1>3. ASSUME NEW s \in Scopes, LiftStart(s) PROVE TypeOK'
  <2>1. budget' \in [Acts -> Nat]
    BY <1>1, <1>3, SpendType DEF LiftStart
  <2>2. QED
    BY <1>3, <2>1 DEF TypeOK, LiftStart, registry, history, ruleCache
<1>4. ASSUME NEW s \in Scopes, LiftRow(s) PROVE TypeOK'
  <2>1. budget' \in [Acts -> Nat]
    BY <1>1, <1>4, SpendType DEF LiftRow
  <2>2. ends' \in [Scopes -> Nat] /\ broken' \subseteq Scopes \cup Flags \cup Ids
        /\ lifting' \subseteq Scopes
    BY <1>4 DEF TypeOK, LiftRow
  <2>3. QED
    BY <1>4, <2>1, <2>2 DEF TypeOK, LiftRow, guard, ruleCache
<1>5. CASE Purge
  <2>1. ends' \in [Scopes -> Nat]
    BY <1>5 DEF Purge, TypeOK
  <2>2. counter' \in [Ids -> [Starts -> Nat]]
    BY <1>5 DEF Purge, TypeOK
  <2>3. QED
    BY <1>5, <2>1, <2>2 DEF TypeOK, Purge, guard, history, ruleCache
<1>6. CASE Move
  <2>1. call' \in [Callers -> CallSet \cup {NoCall}]
    BY <1>6, MoveGoes
  <2>2. PICK ok \in BOOLEAN :
           /\ ok \/ budget["fault"] > 0
           /\ budget' = [budget EXCEPT !["move"] = @ - 1, !["fault"] = IF ok THEN @ ELSE @ - 1]
           /\ cool' = [s \in Scopes |-> IF ok /\ ends[s] > now THEN ends[s] ELSE 0]
           /\ flag' = IF ok THEN dbFlag ELSE [f \in Flags |-> IF f = "frozen" THEN "no" ELSE "unknown"]
           /\ broken' = broken \cup {f \in Flags : InFlight(f) \/ ~ok}
    BY <1>6 DEF Move
  <2>3. budget' \in [Acts -> Nat]
    <3>1. budget["move"] > 0
      BY <1>6 DEF Move
    <3>2. QED
      BY <1>1, <2>2, <3>1
  <2>4. cool' \in [Scopes -> Nat] /\ flag' \in [Flags -> FlagValues]
    BY <2>2 DEF TypeOK, FlagValues
  <2>5. broken' \subseteq Scopes \cup Flags \cup Ids
    BY <2>2 DEF TypeOK
  <2>6. cache' \in CacheSet /\ load' \in LoadSet /\ next' \in Nat
    <3>1. cache' = NoCache /\ load' = NoLoad /\ next' = 0
      BY <1>6 DEF Move
    <3>2. 0 - RuleRefresh \in Int
      BY CallsAssumption
    <3>3. QED
      BY <3>1, <3>2 DEF NoCache, NoLoad, CacheSet, LoadSet
  <2>7. QED
    BY <1>6, <2>1, <2>3, <2>4, <2>5, <2>6 DEF TypeOK, Move, registry
<1>7. QED
  BY <1>2, <1>3, <1>4, <1>5, <1>6 DEF Registry

\* The administration of the rules keeps the types.
LEMMA RulesType ==
    ASSUME TypeOK, Rules
    PROVE  TypeOK'
<1>1. PICK ls \in SUBSET Limits : Changed(ls)
  BY DEF Rules, createLimit, updateLimit, deleteLimit, TypeOK
<1>2. budget' \in [Acts -> Nat]
  BY <1>1, SpendType DEF Changed, TypeOK, Acts
<1>3. cap' \in [Ids -> Nat]
  <2>1. \A id \in Ids : (\E l \in ls : l.id = id) => (CHOOSE l \in ls : l.id = id).max \in Nat
    BY MaxType
  <2>2. QED
    BY <1>1, <2>1 DEF Changed, Later, TypeOK
<1>4. counter' \in [Ids -> [Starts -> Nat]] /\ broken' \subseteq Scopes \cup Flags \cup Ids
  <2>1. CASE UNCHANGED <<counter, broken>>
    BY <2>1 DEF TypeOK
  <2>2. ASSUME NEW k \in Limits, deleteLimit(k)
        PROVE  counter' \in [Ids -> [Starts -> Nat]] /\ broken' \subseteq Scopes \cup Flags \cup Ids
    <3>1. k.id \in Ids /\ [s \in Starts |-> 0] \in [Starts -> Nat]
      BY DEF Ids
    <3>2. QED
      BY <2>2, <3>1 DEF deleteLimit, TypeOK
  <2>3. QED
    BY <2>1, <2>2 DEF Rules, createLimit, updateLimit
<1>5. changed' \in Nat
  BY <1>1, CallsAssumption DEF Changed, TypeOK, Times
<1>6. QED
  BY <1>1, <1>2, <1>3, <1>4, <1>5 DEF TypeOK, Changed, guard, ruleCache

\* Every step keeps the types.
LEMMA TypeStep == TypeOK /\ [Next]_vars => TypeOK'
<1> SUFFICES ASSUME TypeOK, [Next]_vars PROVE TypeOK'
  OBVIOUS
<1>1. ASSUME NEW c \in Callers, Step(c) \/ \E in \in Inputs : Enter(c, in) PROVE TypeOK'
  BY <1>1, CallType
<1>2. CASE Update \/ Registry \/ Rules
  BY <1>2, UpdateType, RegistryType, RulesType
<1>3. CASE Tick
  <2>1. now' \in Times
    BY <1>3, CallsAssumption DEF Tick, TypeOK, Times
  <2>2. QED
    BY <1>3, <2>1 DEF TypeOK, Tick, registry, guard, history, ruleCache
<1>4. CASE UNCHANGED vars
  BY <1>4 DEF vars, TypeOK
<1>5. QED
  BY <1>1, <1>2, <1>3, <1>4 DEF Next

-----------------------------------------------------------------------------
(* What the guard learns reaches the registry.                             *)

\* What an answer or an update does to the guard: nothing, a longer cooldown with its
\* write, or a flag with its write.
Learns ==
    \/ UNCHANGED <<cool, flag, writes, broken>>
    \/ \E s \in Scopes, until \in Nat :
          /\ cool' = [cool EXCEPT ![s] = until]
          /\ writes' = writes \cup {[what |-> s, value |-> until]}
          /\ UNCHANGED <<flag, broken>>
    \/ \E f \in Flags, v \in FlagValues, always \in BOOLEAN : setFlag(f, v, always)

\* What observe writes into memory, it also queues for the registry.
LEMMA ObserveLearns ==
    ASSUME TypeOK, NEW scope \in Scopes, NEW o \in Outcomes, observe(scope, o)
    PROVE  Learns
<1>1. now \in Nat /\ SpamWait \in Nat /\ \A d \in Waits : d \in Nat
  BY CallsAssumption DEF TypeOK, Times
<1>2. ASSUME NEW s \in Scopes, NEW until \in Nat, coolDown(s, until) PROVE Learns
  BY <1>2 DEF coolDown, Learns
<1>3. /\ "spam_limit" \in Scopes /\ "frozen" \in Flags
      /\ "yes" \in FlagValues /\ "no" \in FlagValues
  BY DEF Scopes, Flags, FlagValues
<1>4. \A d \in Waits : now + d \in Nat
  BY <1>1
<1>5. now + SpamWait \in Nat
  BY <1>1
<1>6. CASE setFlag("frozen", "no", FALSE) \/ setFlag("frozen", "yes", FALSE)
  BY <1>3, <1>6 DEF Learns
<1>7. CASE UNCHANGED <<cool, flag, writes, broken>>
  BY <1>7 DEF Learns
<1>8. QED
  BY <1>2, <1>3, <1>4, <1>5, <1>6, <1>7 DEF observe

\* Answers and updates of TDLib change the guard only as observe and setFlag do.
LEMMA AnswerLearns ==
    ASSUME TypeOK, Update \/ \E c \in Callers, o \in Outcomes : Answer(c, o)
    PROVE  Learns /\ UNCHANGED <<now, ends, dbFlag>>
<1>1. ASSUME NEW c \in Callers, NEW o \in Outcomes, Answer(c, o)
      PROVE  Learns /\ UNCHANGED <<now, ends, dbFlag>>
  <2>1. LegScope(c) \in Scopes
    BY <1>1, LegScopeType DEF Answer
  <2>2. UNCHANGED <<cool, flag, writes, broken>> \/ observe(LegScope(c), o)
    BY <1>1 DEF Answer
  <2>3. Learns
    BY <2>1, <2>2, ObserveLearns DEF Learns
  <2>4. QED
    BY <1>1, <2>3 DEF Answer, registry
<1>2. ASSUME Update PROVE Learns /\ UNCHANGED <<now, ends, dbFlag>>
  <2>1. ASSUME NEW o \in {"flood", "peer_flood", "frozen"}, observe("@send", o) PROVE Learns
    BY <2>1, ObserveLearns, CallsAssumption DEF Outcomes
  <2>2. ASSUME \/ setFlag("frozen", "yes", TRUE) \/ setFlag("frozen", "no", FALSE)
               \/ \E v \in {"yes", "no"} : setFlag("premium", v, FALSE)
        PROVE  Learns
    BY <2>2 DEF Learns, Flags, FlagValues
  <2>3. QED
    BY <1>2, <2>1, <2>2 DEF Update, registry
<1>3. QED
  BY <1>1, <1>2

\* The steps that have nothing to do with what the guard knows.
LEMMA GuardAlone ==
    ASSUME TypeOK,
           \/ Rules \/ UNCHANGED vars
           \/ \E c \in Callers : \/ \E in \in Inputs : Enter(c, in)
                                 \/ Resolve(c) \/ Admit(c) \/ ListLimits(c)
                                 \/ TakeQuota(c) \/ TakeCounters(c)
                                 \/ Refuse(c) \/ TakeFails(c) \/ Pace(c) \/ PaceEnds(c)
                                 \/ Release(c)
    PROVE  UNCHANGED <<now, ends, dbFlag, cool, flag, writes>> /\ broken \subseteq broken'
<1>1. ASSUME NEW c \in Callers,
             \/ \E in \in Inputs : Enter(c, in)
             \/ Resolve(c) \/ Admit(c) \/ ListLimits(c) \/ TakeQuota(c) \/ TakeCounters(c)
             \/ Refuse(c) \/ TakeFails(c) \/ Pace(c) \/ PaceEnds(c)
      PROVE  UNCHANGED <<now, ends, dbFlag, cool, flag, writes>> /\ broken \subseteq broken'
  BY <1>1 DEF Enter, Resolve, Admit, ListLimits, TakeQuota, TakeCounters, Refuse, TakeFails, Pace, PaceEnds,
              registry, guard, history
<1>2. ASSUME NEW c \in Callers, Release(c)
      PROVE  UNCHANGED <<now, ends, dbFlag, cool, flag, writes>> /\ broken \subseteq broken'
  BY <1>2 DEF Release, guard
<1>3. CASE Rules
  BY <1>3 DEF Rules, createLimit, updateLimit, deleteLimit, Changed, guard
<1>4. CASE UNCHANGED vars
  BY <1>4 DEF vars
<1>5. QED
  BY <1>1, <1>2, <1>3, <1>4

\* Every step keeps cooldowns recorded.
LEMMA CooldownStep == TypeOK /\ CooldownRecorded /\ [Next]_vars => CooldownRecorded'
<1> SUFFICES ASSUME TypeOK, CooldownRecorded, [Next]_vars,
                    NEW s \in Scopes, s \notin broken', Active(s)'
             PROVE  \/ ends'[s] >= cool'[s]
                    \/ \E w \in writes' : w.what = s /\ w.value >= cool'[s]
  BY DEF CooldownRecorded
<1>1. /\ cool \in [Scopes -> Nat] /\ ends \in [Scopes -> Nat] /\ cool[s] \in Nat /\ ends[s] \in Nat
      /\ now \in Nat /\ writes \subseteq WriteSet
  BY CallsAssumption DEF TypeOK, Times
<1>2. ASSUME s \notin broken, Active(s)
      PROVE  ends[s] >= cool[s] \/ \E w \in writes : w.what = s /\ w.value >= cool[s]
  BY <1>2 DEF CooldownRecorded
<1>3. ASSUME UNCHANGED <<now, ends, cool, writes>>, broken \subseteq broken'
      PROVE  \/ ends'[s] >= cool'[s]
             \/ \E w \in writes' : w.what = s /\ w.value >= cool'[s]
  BY <1>2, <1>3 DEF Active
<1>4. CASE Learns /\ UNCHANGED <<now, ends>>
  <2>1. CASE UNCHANGED <<cool, flag, writes, broken>>
    BY <1>3, <1>4, <2>1
  <2>2. ASSUME NEW x \in Scopes, NEW until \in Nat,
               cool' = [cool EXCEPT ![x] = until],
               writes' = writes \cup {[what |-> x, value |-> until]}, UNCHANGED broken
        PROVE  \/ ends'[s] >= cool'[s]
               \/ \E w \in writes' : w.what = s /\ w.value >= cool'[s]
    <3>1. CASE x = s
      <4> DEFINE w == [what |-> x, value |-> until]
      <4>1. w \in writes' /\ w.what = s /\ w.value = until /\ cool'[s] = until
        BY <2>2, <3>1, <1>1
      <4>2. until >= until
        OBVIOUS
      <4>3. QED
        BY <4>1, <4>2
    <3>2. CASE x # s
      BY <3>2, <2>2, <1>1, <1>2, <1>4 DEF Active
    <3>3. QED
      BY <3>1, <3>2
  <2>3. ASSUME NEW f \in Flags, NEW v \in FlagValues, NEW always \in BOOLEAN, setFlag(f, v, always)
        PROVE  \/ ends'[s] >= cool'[s]
               \/ \E w \in writes' : w.what = s /\ w.value >= cool'[s]
    <3>1. cool' = cool /\ writes \subseteq writes' /\ broken \subseteq broken'
      BY <2>3 DEF setFlag
    <3>2. QED
      BY <3>1, <1>2, <1>4 DEF Active
  <2>4. QED
    BY <1>4, <2>1, <2>2, <2>3 DEF Learns
<1>5. ASSUME NEW w \in writes, Land(w)
      PROVE  \/ ends'[s] >= cool'[s]
             \/ \E x \in writes' : x.what = s /\ x.value >= cool'[s]
  <2>1. cool' = cool /\ now' = now /\ writes' = writes \ {w} /\ broken \subseteq broken'
    BY <1>5 DEF Land, guard
  <2>2. ends[s] >= cool[s] \/ \E x \in writes : x.what = s /\ x.value >= cool[s]
    BY <2>1, <1>2 DEF Active
  <2>3. CASE w.what # s
    <3>1. ends'[s] = ends[s]
      BY <1>5, <2>3, <1>1 DEF Land, SetCooldown
    <3>2. QED
      BY <2>1, <2>2, <2>3, <3>1
  <2>4. CASE w.what = s
    <3>1. ends' = SetCooldown(s, w.value)
      BY <1>5, <2>4, CallsAssumption DEF Land
    <3>2. w.value \in Nat
      BY <2>4, <1>1, CallsAssumption DEF WriteSet
    <3>3. ends'[s] >= ends[s] /\ ends'[s] >= w.value /\ ends'[s] \in Nat
      BY <3>1, <3>2, <1>1 DEF SetCooldown, Later
    <3>4. ASSUME NEW x \in writes, x.what = s, x.value >= cool[s], x # w
          PROVE  \E y \in writes' : y.what = s /\ y.value >= cool'[s]
      BY <3>4, <2>1
    <3>5. QED
      BY <2>1, <2>2, <3>2, <3>3, <3>4, <1>1
  <2>5. QED
    BY <2>3, <2>4
<1>6. ASSUME NEW x \in Scopes, LiftStart(x) \/ LiftRow(x)
      PROVE  \/ ends'[s] >= cool'[s]
             \/ \E w \in writes' : w.what = s /\ w.value >= cool'[s]
  <2>1. CASE LiftStart(x)
    <3>1. UNCHANGED <<now, ends, writes, broken>> /\ cool' = [cool EXCEPT ![x] = 0]
      BY <2>1 DEF LiftStart, registry, history
    <3>2. x # s
      BY <3>1, <1>1 DEF Active
    <3>3. QED
      BY <3>1, <3>2, <1>1, <1>2 DEF Active
  <2>2. CASE LiftRow(x)
    <3>1. /\ UNCHANGED <<now, cool, writes>>
          /\ \/ /\ ends' = [ends EXCEPT ![x] = 0]
                /\ broken' = IF Active(x) /\ ~\E w \in writes : w.what = x /\ w.value >= cool[x]
                             THEN broken \cup {x} ELSE broken
             \/ UNCHANGED <<ends, broken>>
      BY <2>2 DEF LiftRow, guard
    <3>2. Active(s) /\ s \notin broken
      BY <3>1 DEF Active
    <3>3. CASE UNCHANGED <<ends, broken>>
      BY <3>1, <3>3, <1>3
    <3>4. CASE x # s /\ ends' = [ends EXCEPT ![x] = 0]
      BY <3>1, <3>2, <3>4, <1>1, <1>2
    <3>5. CASE /\ x = s
               /\ broken' = IF Active(x) /\ ~\E w \in writes : w.what = x /\ w.value >= cool[x]
                            THEN broken \cup {x} ELSE broken
      <4>1. \E w \in writes : w.what = s /\ w.value >= cool[s]
        BY <3>2, <3>5
      <4>2. QED
        BY <4>1, <3>1
    <3>6. QED
      BY <3>1, <3>3, <3>4, <3>5
  <2>3. QED
    BY <1>6, <2>1, <2>2
<1>7. CASE Purge
  <2>1. /\ UNCHANGED <<now, cool, writes, broken>>
        /\ ends'[s] = IF ends[s] < now THEN 0 ELSE ends[s]
    BY <1>7 DEF Purge, guard, history
  <2>2. Active(s) /\ cool[s] > now
    BY <2>1 DEF Active
  <2>3. QED
    BY <2>1, <2>2, <1>1, <1>2
<1>8. CASE Move
  <2>1. now' = now /\ ends' = ends /\ (cool'[s] = ends[s] \/ cool'[s] = 0)
    BY <1>8 DEF Move, registry
  <2>2. QED
    BY <2>1, <1>1 DEF Active
<1>9. CASE Tick
  <2>1. UNCHANGED <<ends, cool, writes, broken>> /\ now' = now + 1
    BY <1>9 DEF Tick, registry, guard, history
  <2>2. Active(s)
    BY <2>1, <1>1 DEF Active
  <2>3. QED
    BY <2>1, <2>2, <1>2
<1>10. QED
  BY <1>3, <1>4, <1>5, <1>6, <1>7, <1>8, <1>9, GuardAlone, AnswerLearns DEF Next, Step, Registry

\* A write under way of a flag, if only one is, has the flag's value.
FlagInv ==
    \A f \in Flags \ broken :
        /\ \A w \in writes : w.what = f => w.value = flag[f]
        /\ flag[f] # dbFlag[f] => [what |-> f, value |-> flag[f]] \in writes

\* Every step keeps flags recorded.
LEMMA FlagStep == TypeOK /\ FlagInv /\ [Next]_vars => FlagInv'
<1> SUFFICES ASSUME TypeOK, FlagInv, [Next]_vars, NEW f \in Flags, f \notin broken'
             PROVE  /\ \A w \in writes' : w.what = f => w.value = flag'[f]
                    /\ flag'[f] # dbFlag'[f] => [what |-> f, value |-> flag'[f]] \in writes'
  BY DEF FlagInv
<1> DEFINE Goal == /\ \A w \in writes' : w.what = f => w.value = flag'[f]
                   /\ flag'[f] # dbFlag'[f] => [what |-> f, value |-> flag'[f]] \in writes'
<1>1. flag \in [Flags -> FlagValues] /\ dbFlag \in [Flags -> FlagValues] /\ f \notin Scopes
  BY CallsAssumption DEF TypeOK
<1>2. ASSUME f \notin broken
      PROVE  /\ \A w \in writes : w.what = f => w.value = flag[f]
             /\ flag[f] # dbFlag[f] => [what |-> f, value |-> flag[f]] \in writes
  BY <1>2 DEF FlagInv
<1>3. ASSUME UNCHANGED <<flag, dbFlag, writes>>, broken \subseteq broken' PROVE Goal
  BY <1>2, <1>3
<1>4. CASE Learns /\ UNCHANGED dbFlag
  <2>1. CASE UNCHANGED <<cool, flag, writes, broken>>
    BY <1>3, <1>4, <2>1
  <2>2. ASSUME NEW x \in Scopes, NEW until \in Nat,
               writes' = writes \cup {[what |-> x, value |-> until]}, UNCHANGED <<flag, broken>>
        PROVE  Goal
    <3>1. [what |-> x, value |-> until].what # f
      BY <1>1
    <3>2. QED
      BY <1>2, <1>4, <2>2, <3>1
  <2>3. ASSUME NEW g \in Flags, NEW v \in FlagValues, NEW always \in BOOLEAN, setFlag(g, v, always)
        PROVE  Goal
    <3> DEFINE w0 == [what |-> g, value |-> v]
    <3>0. w0.what = g /\ w0.value = v
      OBVIOUS
    <3>1. flag' = [flag EXCEPT ![g] = v]
      BY <2>3 DEF setFlag
    <3>2. CASE UNCHANGED <<writes, broken>> /\ flag[g] = v
      <4>1. flag' = flag
        BY <3>1, <3>2, <1>1
      <4>2. QED
        BY <4>1, <3>2, <1>3, <1>4
    <3>3. CASE /\ writes' = writes \cup {w0}
               /\ broken' = IF InFlight(g) THEN broken \cup {g} ELSE broken
      <4>1. f \notin broken
        BY <3>3
      <4>2. CASE g # f
        <5>1. flag'[f] = flag[f]
          BY <3>1, <4>2, <1>1
        <5>2. QED
          BY <3>0, <3>3, <4>1, <4>2, <5>1, <1>2, <1>4
      <4>3. CASE g = f
        <5>1. ~\E w \in writes : w.what = f
          BY <3>3, <4>3 DEF InFlight
        <5>2. flag'[f] = v
          BY <3>1, <4>3, <1>1
        <5>3. QED
          BY <3>0, <3>3, <4>3, <5>1, <5>2
      <4>4. QED
        BY <4>2, <4>3
    <3>4. QED
      BY <2>3, <3>2, <3>3 DEF setFlag
  <2>4. QED
    BY <1>4, <2>1, <2>2, <2>3 DEF Learns
<1>5. ASSUME NEW w \in writes, Land(w) PROVE Goal
  <2>1. flag' = flag /\ writes' = writes \ {w} /\ broken \subseteq broken'
    BY <1>5 DEF Land, guard
  <2>2. CASE w.what # f
    <3>1. dbFlag'[f] = dbFlag[f]
      BY <1>5, <2>2, <1>1 DEF Land
    <3>2. [what |-> f, value |-> flag[f]] # w
      BY <2>2
    <3>3. QED
      BY <2>1, <3>1, <3>2, <1>2
  <2>3. CASE w.what = f
    <3>1. w.value = flag[f] /\ f \notin broken
      BY <2>1, <2>3, <1>2
    <3>2. dbFlag' = [dbFlag EXCEPT ![f] = flag[f]]
      BY <1>5, <2>3, <3>1, <1>1 DEF Land
    <3>3. dbFlag'[f] = flag'[f]
      BY <3>2, <2>1, <1>1
    <3>4. QED
      BY <2>1, <3>1, <3>3, <1>2
  <2>4. QED
    BY <2>2, <2>3
<1>6. ASSUME NEW x \in Scopes, LiftStart(x) \/ LiftRow(x) PROVE Goal
  <2>1. UNCHANGED <<flag, dbFlag, writes>> /\ broken \subseteq broken'
    BY <1>6 DEF LiftStart, LiftRow, registry, guard, history
  <2>2. QED
    BY <2>1, <1>3
<1>7. CASE Purge \/ Tick
  BY <1>7, <1>3 DEF Purge, Tick, registry, guard, history
<1>8. CASE Move
  <2>1. PICK ok \in BOOLEAN :
           /\ flag' = IF ok THEN dbFlag ELSE [g \in Flags |-> IF g = "frozen" THEN "no" ELSE "unknown"]
           /\ broken' = broken \cup {g \in Flags : InFlight(g) \/ ~ok}
    BY <1>8 DEF Move
  <2>2. dbFlag' = dbFlag /\ writes' = writes
    BY <1>8 DEF Move, registry
  <2>3. ok /\ ~InFlight(f)
    BY <2>1
  <2>4. QED
    BY <2>1, <2>2, <2>3 DEF InFlight
<1>9. QED
  BY <1>3, <1>4, <1>5, <1>6, <1>7, <1>8, GuardAlone, AnswerLearns DEF Next, Step, Registry

-----------------------------------------------------------------------------
(* Rules, quotas and the pace.                                             *)

\* The rules a worker caches or a call was charged to never exceed the highest max
\* their id has had, nor do those it is reading, and what was read since the last
\* change is the table.
RulesInv ==
    /\ \A k, l \in limits : k.id = l.id => k = l
    /\ \A l \in limits \cup cache.rules \cup load.rules : l.max <= cap[l.id]
    /\ \A c \in Callers : \A u \in call[c].uses : u.max <= cap[u.id]
    /\ cache.at - cache.lag <= now /\ load.since <= now /\ changed <= now
    /\ cache.at - cache.lag > changed => cache.rules = limits
    /\ load.since > changed => load.rules = limits

\* What every step does to the highest max.
LEMMA CapGrows ==
    ASSUME TypeOK, [Next]_vars
    PROVE  \A id \in Ids : cap[id] \in Nat /\ cap'[id] \in Nat /\ cap[id] <= cap'[id]
<1>1. TypeOK'
  BY TypeStep
<1>2. \A id \in Ids : cap[id] \in Nat /\ cap'[id] \in Nat
  BY <1>1 DEF TypeOK
<1>3. CASE Rules
  <2>1. PICK ls \in SUBSET Limits : Changed(ls)
    BY <1>3 DEF Rules, createLimit, updateLimit, deleteLimit, TypeOK
  <2>2. \A id \in Ids : (\E l \in ls : l.id = id) => (CHOOSE l \in ls : l.id = id).max \in Nat
    BY MaxType
  <2>3. QED
    BY <2>1, <2>2, <1>2 DEF Changed, Later
<1>4. CASE ~Rules
  <2>1. ASSUME NEW c \in Callers, Step(c) \/ \E in \in Inputs : Enter(c, in)
        PROVE  cap' = cap
    BY <2>1 DEF Step, Resolve, Admit, ListLimits, TakeQuota, TakeCounters, Refuse, TakeFails, Pace, PaceEnds,
                Release, Answer, Enter, history
  <2>2. ASSUME Update \/ Registry \/ Tick \/ UNCHANGED vars PROVE cap' = cap
    BY <2>2 DEF Update, Registry, Land, LiftStart, LiftRow, Purge, Move, Tick, vars, history
  <2>3. cap' = cap
    BY <1>4, <2>1, <2>2 DEF Next
  <2>4. QED
    BY <2>3, <1>2
<1>5. QED
  BY <1>3, <1>4

\* What the steps of a call leave alone.
LEMMA CallFrame ==
    ASSUME TypeOK, NEW c \in Callers, Step(c) \/ \E in \in Inputs : Enter(c, in)
    PROVE  /\ UNCHANGED <<now, limits, cap, changed>>
           /\ \/ cache' = cache
              \/ cache' = [rules |-> load.rules, at |-> now, lag |-> now - load.since]
           /\ load' \in {load, NoLoad, [by |-> c, rules |-> limits, since |-> now]}
           /\ call' \in [Callers -> CallSet \cup {NoCall}]
           /\ \A d \in Callers \ {c} : call'[d] = call[d]
           /\ \A u \in call'[c].uses : \/ u \in call[c].uses
                                       \/ \E l \in cache'.rules : u.id = l.id /\ u.max = l.max
<1>1. UNCHANGED <<now, limits, cap, changed>>
  BY DEF Step, Resolve, Admit, ListLimits, TakeQuota, TakeCounters, Refuse, TakeFails, Pace, PaceEnds,
         Release, Answer, Enter, history, registry
<1>2. /\ \/ cache' = cache
         \/ cache' = [rules |-> load.rules, at |-> now, lag |-> now - load.since]
      /\ load' \in {load, NoLoad, [by |-> c, rules |-> limits, since |-> now]}
  <2>1. CASE TakeQuota(c)
    BY <2>1 DEF TakeQuota, limitRules, ruleCache
  <2>2. CASE ~TakeQuota(c)
    BY <2>2 DEF Step, Resolve, Admit, ListLimits, TakeCounters, Refuse, TakeFails, Pace, PaceEnds,
                Release, Answer, Enter, ruleCache
  <2>3. QED
    BY <2>1, <2>2
<1>3. CASE Pace(c)
  BY <1>1, <1>2, <1>3, PaceGoes DEF CallGoes
<1>4. CASE ~Pace(c)
  <2>1. CallGoes(c)
    BY <1>4, EnterGoes, AdmitGoes, QuotaGoes, EndGoes DEF Step
  <2>2. QED
    BY <1>1, <1>2, <2>1 DEF CallGoes
<1>5. QED
  BY <1>3, <1>4, SMTT(30)

\* Every step keeps the rules well formed.
LEMMA RulesStep == TypeOK /\ RulesInv /\ [Next]_vars => RulesInv'
<1> SUFFICES ASSUME TypeOK, RulesInv, [Next]_vars PROVE RulesInv'
  OBVIOUS
<1>1. \A id \in Ids : cap[id] \in Nat /\ cap'[id] \in Nat /\ cap[id] <= cap'[id]
  BY CapGrows
<1>2. /\ \A l \in Limits : l.id \in Ids /\ l.max \in Nat
      /\ \A c \in Callers : \A u \in call[c].uses : u.id \in Ids /\ u.max \in Nat
      /\ cache.rules \subseteq Limits /\ cache.at \in Int /\ limits \subseteq Limits
      /\ now \in Nat /\ changed \in Nat /\ cache.lag \in Int
      /\ load.rules \subseteq Limits /\ load.since \in Nat
  <2>1. \A c \in Callers : call[c] \in CallSet \/ call[c] = NoCall
    BY DEF TypeOK
  <2>2. \A c \in Callers : call[c].uses \in SUBSET UseSet
    BY <2>1 DEF CallSet, NoCall
  <2>3. \A c \in Callers : \A u \in call[c].uses : u.id \in Ids /\ u.max \in Nat
    BY <2>2 DEF UseSet
  <2>4. QED
    BY <2>3, CallsAssumption DEF TypeOK, Ids, Times, CacheSet, LoadSet
<1>3. ASSUME NEW c \in Callers, Step(c) \/ \E in \in Inputs : Enter(c, in)
      PROVE  RulesInv'
  <2>1. /\ UNCHANGED <<now, limits, cap, changed>>
        /\ \/ cache' = cache
           \/ cache' = [rules |-> load.rules, at |-> now, lag |-> now - load.since]
        /\ load' \in {load, NoLoad, [by |-> c, rules |-> limits, since |-> now]}
        /\ \A d \in Callers \ {c} : call'[d] = call[d]
        /\ \A u \in call'[c].uses : \/ u \in call[c].uses
                                    \/ \E l \in cache'.rules : u.id = l.id /\ u.max = l.max
    BY <1>3, CallFrame
  <2>2. /\ cache'.rules = cache.rules \/ cache'.rules = load.rules
        /\ cache'.at - cache'.lag <= now
        /\ cache'.at - cache'.lag > changed => cache'.rules = limits
    <3>1. CASE cache' = cache
      BY <3>1 DEF RulesInv
    <3>2. CASE cache' = [rules |-> load.rules, at |-> now, lag |-> now - load.since]
      <4>1. cache'.rules = load.rules /\ cache'.at - cache'.lag = load.since
        BY <3>2, <1>2
      <4>2. QED
        BY <4>1 DEF RulesInv
    <3>3. QED
      BY <2>1, <3>1, <3>2
  <2>3. /\ load'.rules = load.rules \/ load'.rules = {} \/ load'.rules = limits
        /\ load'.since <= now
        /\ load'.since > changed => load'.rules = limits
    BY <2>1, <1>2 DEF RulesInv, NoLoad
  <2>4. \A l \in limits \cup cache'.rules \cup load'.rules : l.max <= cap[l.id]
    BY <2>2, <2>3 DEF RulesInv
  <2>5. \A d \in Callers : \A u \in call'[d].uses : u.max <= cap[u.id]
    BY <2>1, <2>4 DEF RulesInv
  <2>6. QED
    BY <2>1, <2>2, <2>4, <2>5, <2>3 DEF RulesInv
<1>4. CASE Rules
  <2>1. PICK ls \in SUBSET Limits : Changed(ls) /\ \A k, l \in ls : k.id = l.id => k = l
    <3>1. ASSUME NEW l \in Limits, createLimit(l)
          PROVE  \E ls \in SUBSET Limits : Changed(ls) /\ \A j, k \in ls : j.id = k.id => j = k
      BY <3>1, <1>2 DEF createLimit, RulesInv
    <3>2. ASSUME NEW l \in Limits, deleteLimit(l)
          PROVE  \E ls \in SUBSET Limits : Changed(ls) /\ \A j, k \in ls : j.id = k.id => j = k
      BY <3>2, <1>2 DEF deleteLimit, RulesInv
    <3>3. ASSUME NEW k \in Limits, NEW l \in Limits, updateLimit(k, l)
          PROVE  \E ls \in SUBSET Limits : Changed(ls) /\ \A i, j \in ls : i.id = j.id => i = j
      <4>1. k.id = l.id /\ k \in limits /\ Changed((limits \ {k}) \cup {l})
        BY <3>3 DEF updateLimit
      <4>2. \A j \in limits \ {k} : j.id # l.id
        BY <4>1 DEF RulesInv
      <4>3. QED
        BY <4>1, <4>2, <1>2 DEF RulesInv
    <3>4. QED
      BY <1>4, <3>1, <3>2, <3>3 DEF Rules
  <2>2. /\ limits' = ls /\ changed' = now /\ UNCHANGED <<now, cache, load, call>>
        /\ cap' = [id \in Ids |-> IF \E l \in ls : l.id = id
                                  THEN Later(cap[id], (CHOOSE l \in ls : l.id = id).max)
                                  ELSE cap[id]]
    BY <2>1 DEF Changed, ruleCache
  <2>3. \A l \in ls : l.max <= cap'[l.id]
    <3> SUFFICES ASSUME NEW l \in ls PROVE l.max <= cap'[l.id]
      OBVIOUS
    <3>1. (CHOOSE k \in ls : k.id = l.id) = l
      BY <2>1
    <3>2. cap'[l.id] = Later(cap[l.id], l.max)
      BY <2>2, <3>1, <1>2
    <3>3. QED
      BY <3>2, <1>1, <1>2 DEF Later
  <2>4. \A l \in cache.rules \cup load.rules : l.max <= cap'[l.id]
    BY <1>1, <1>2 DEF RulesInv
  <2>5. \A c \in Callers : \A u \in call[c].uses : u.max <= cap'[u.id]
    BY <1>1, <1>2 DEF RulesInv
  <2>6. /\ cache.at - cache.lag <= now /\ ~(cache.at - cache.lag > now)
        /\ load.since <= now /\ ~(load.since > now) /\ now <= now
    BY <1>2 DEF RulesInv
  <2>7. QED
    BY <2>1, <2>2, <2>3, <2>4, <2>5, <2>6 DEF RulesInv
<1>5. CASE Move
  <2>1. /\ UNCHANGED <<now, limits, cap, changed>> 
        /\ cache' = NoCache /\ load' = NoLoad
    BY <1>5 DEF Move, registry
  <2>2. \A c \in Callers : call'[c].uses \subseteq call[c].uses
    BY <1>5, MoveGoes
  <2>3. /\ cache'.rules = {} /\ cache'.at - cache'.lag <= now
        /\ ~(cache'.at - cache'.lag > changed)
        /\ load'.rules = {} /\ load'.since <= now /\ ~(load'.since > changed)
    BY <2>1, <1>2, CallsAssumption DEF NoCache, NoLoad
  <2>4. QED
    BY <2>1, <2>2, <2>3 DEF RulesInv
<1>6. ASSUME Update \/ Purge \/ (\E w \in writes : Land(w))
                \/ (\E s \in Scopes : LiftStart(s) \/ LiftRow(s)) \/ UNCHANGED vars
      PROVE  RulesInv'
  <2>1. UNCHANGED <<now, limits, cap, changed, cache, load, call>>
    BY <1>6 DEF Update, Purge, Land, LiftStart, LiftRow, vars, registry, history, ruleCache
  <2>2. QED
    BY <2>1 DEF RulesInv
<1>7. CASE Tick
  <2>1. UNCHANGED <<limits, cap, changed, cache, load, call>> /\ now' = now + 1
    BY <1>7 DEF Tick, registry, history, ruleCache
  <2>2. cache.at - cache.lag <= now + 1 /\ load.since <= now + 1 /\ changed <= now + 1
    BY <1>2 DEF RulesInv
  <2>3. QED
    BY <2>1, <2>2 DEF RulesInv
<1>8. QED
  BY <1>3, <1>4, <1>5, <1>6, <1>7 DEF Next, Registry

\* Every step keeps the counters within the highest max.
LEMMA QuotaStep == TypeOK /\ RulesInv /\ QuotaKept /\ [Next]_vars => QuotaKept'
<1> SUFFICES ASSUME TypeOK, RulesInv, QuotaKept, [Next]_vars, NEW id \in Ids, NEW s \in Starts
             PROVE  counter'[id][s] <= cap'[id]
  BY DEF QuotaKept
<1>1. /\ cap[id] \in Nat /\ cap'[id] \in Nat /\ cap[id] <= cap'[id]
      /\ counter[id][s] \in Nat /\ counter[id][s] <= cap[id]
  BY CapGrows DEF QuotaKept, TypeOK
<1>2. ASSUME counter'[id][s] \in Nat, counter'[id][s] <= cap[id]
      PROVE  counter'[id][s] <= cap'[id]
  BY <1>1, <1>2
<1>3. ASSUME NEW c \in Callers, TakeCounters(c)
      PROVE  counter'[id][s] <= cap'[id]
  <2>1. /\ counter' = Counted(call[c].uses) /\ call[c].uses \in SUBSET UseSet
        /\ \A u \in call[c].uses : Fits(u)
    BY <1>3, Begun DEF TakeCounters
  <2>2. CASE counter'[id][s] = counter[id][s]
    BY <2>2, <1>1, <1>2
  <2>3. ASSUME NEW u \in call[c].uses, u.id = id, u.start = s,
               counter'[id][s] = counter[id][s] + u.n
        PROVE  counter'[id][s] <= cap'[id]
    <3>1. u.n \in Nat /\ u.max \in Nat
      BY <2>1 DEF UseSet
    <3>2. counter[id][s] + u.n <= u.max /\ u.max <= cap[id]
      BY <2>1, <2>3 DEF Fits, RulesInv
    <3>3. QED
      BY <2>3, <3>1, <3>2, <1>1
  <2>4. QED
    BY <2>1, <2>2, <2>3, CountedType
<1>4. ASSUME NEW c \in Callers, Release(c)
      PROVE  counter'[id][s] <= cap'[id]
  <2>1. call[c].uses \in SUBSET UseSet
    BY <1>4, Begun DEF Release
  <2>2. CASE counter' = counter
    BY <2>2, <1>1
  <2>3. ASSUME NEW u \in call[c].uses, counter' = GiveBack(u)
        PROVE  counter'[id][s] <= cap'[id]
    <3>1. counter'[id][s] \in Nat /\ counter'[id][s] <= counter[id][s]
      BY <2>1, <2>3, GiveBackType
    <3>2. QED
      BY <3>1, <1>1
  <2>4. QED
    BY <1>4, <2>2, <2>3 DEF Release
<1>5. CASE Purge
  <2>1. counter'[id][s] = 0 \/ counter'[id][s] = counter[id][s]
    BY <1>5 DEF Purge
  <2>2. QED
    BY <2>1, <1>1
<1>6. CASE Rules
  <2>1. counter'[id][s] = 0 \/ counter'[id][s] = counter[id][s]
    <3>1. CASE UNCHANGED counter
      BY <3>1
    <3>2. ASSUME NEW k \in Limits, deleteLimit(k)
          PROVE  counter'[id][s] = 0 \/ counter'[id][s] = counter[id][s]
      BY <3>2 DEF deleteLimit, TypeOK
    <3>3. QED
      BY <1>6, <3>1, <3>2 DEF Rules, createLimit, updateLimit
  <2>2. QED
    BY <2>1, <1>1
<1>7. CASE UNCHANGED counter
  BY <1>7, <1>1
<1>8. ASSUME NEW c \in Callers, Step(c) \/ \E in \in Inputs : Enter(c, in),
             ~TakeCounters(c), ~Release(c)
      PROVE  UNCHANGED counter
  BY <1>8 DEF Step, Resolve, Admit, ListLimits, TakeQuota, Refuse, TakeFails, Pace, PaceEnds,
              Answer, Enter, registry
<1>9. ASSUME \/ Update \/ Move \/ Tick \/ UNCHANGED vars \/ \E w \in writes : Land(w)
             \/ \E x \in Scopes : LiftStart(x) \/ LiftRow(x)
      PROVE  UNCHANGED counter
  BY <1>9 DEF Update, Move, Tick, vars, Land, LiftStart, LiftRow, registry
<1>10. QED
  BY <1>3, <1>4, <1>5, <1>6, <1>7, <1>8, <1>9 DEF Next, Registry

\* Booked slots lie before the next one and apart from each other, and only a waiting
\* call has one that is still to come.
PaceInv ==
    /\ \A c \in Callers : /\ call[c].slot # 0 => call[c].slot + PaceInterval <= next
                          /\ call[c].at \notin Waiting => call[c].slot <= now
    /\ \A c, d \in Callers :
          (c # d /\ call[c].slot # 0 /\ call[d].slot # 0)
              => \/ call[c].slot + PaceInterval <= call[d].slot
                 \/ call[d].slot + PaceInterval <= call[c].slot

\* Every step keeps the writes apart.
LEMMA PaceStep == TypeOK /\ PaceInv /\ [Next]_vars => PaceInv'
<1> SUFFICES ASSUME TypeOK, PaceInv, [Next]_vars PROVE PaceInv'
  OBVIOUS
<1>1. /\ \A c \in Callers : call[c].slot \in Nat
      /\ next \in Nat /\ now \in Nat /\ PaceInterval \in Nat
  <2>1. \A c \in Callers : call[c] \in CallSet \/ call[c] = NoCall
    BY DEF TypeOK
  <2>2. \A c \in Callers : call[c].slot \in Nat
    BY <2>1 DEF CallSet, NoCall
  <2>3. QED
    BY <2>2, CallsAssumption DEF TypeOK, Times
<1>2. ASSUME NEW c \in Callers, CallGoes(c), UNCHANGED <<now, next>> PROVE PaceInv'
  <2>1. \A d \in Callers : call'[d].slot = call[d].slot
    BY <1>2 DEF CallGoes
  <2>2. \A d \in Callers : call'[d].at \notin Waiting => call[d].slot <= now
    BY <1>2 DEF CallGoes, PaceInv
  <2>3. QED
    BY <1>2, <2>1, <2>2 DEF PaceInv
<1>3. ASSUME NEW c \in Callers, Pace(c) PROVE PaceInv'
  <2>1. now' = now
    BY <1>3 DEF Pace
  <2>2. CASE CallGoes(c) /\ next' = next
    BY <2>1, <2>2, <1>2
  <2>3. CASE /\ \A d \in Callers \ {c} : call'[d] = call[d]
             /\ call'[c].slot = Later(next, now)
             /\ call'[c].at \notin Waiting => call'[c].slot = now
             /\ next' = Later(next, now) + PaceInterval
    <3> DEFINE slot == Later(next, now)
    <3>1. slot \in Nat /\ slot >= next /\ next' = slot + PaceInterval /\ next' >= next
      BY <2>3, <1>1 DEF Later
    <3> HIDE DEF slot
    <3>2. call'[c].slot = slot
      BY <2>3 DEF slot
    <3>3. \A d \in Callers \ {c} :
             call[d].slot # 0 => call[d].slot + PaceInterval <= slot
      BY <3>1, <1>1 DEF PaceInv
    <3>4. \A d \in Callers : call'[d].slot # 0 => call'[d].slot + PaceInterval <= next'
      BY <2>3, <3>1, <3>2, <3>3, <1>1 DEF PaceInv
    <3>5. \A d \in Callers : call'[d].at \notin Waiting => call'[d].slot <= now
      BY <2>3, <1>1 DEF PaceInv
    <3>6. \A d, e \in Callers :
             (d # e /\ call'[d].slot # 0 /\ call'[e].slot # 0)
                 => \/ call'[d].slot + PaceInterval <= call'[e].slot
                    \/ call'[e].slot + PaceInterval <= call'[d].slot
      BY <2>3, <3>2, <3>3 DEF PaceInv
    <3>7. QED
      BY <2>1, <3>4, <3>5, <3>6 DEF PaceInv
  <2>4. QED
    BY <1>3, <2>2, <2>3, PaceGoes
<1>4. ASSUME NEW c \in Callers, Step(c) \/ \E in \in Inputs : Enter(c, in), ~Pace(c)
      PROVE  PaceInv'
  <2>1. CallGoes(c)
    BY <1>4, EnterGoes, AdmitGoes, QuotaGoes, EndGoes, SMTT(30) DEF Step
  <2>2. UNCHANGED <<now, next>>
    BY <1>4 DEF Step, Resolve, Admit, ListLimits, TakeQuota, TakeCounters, Refuse, TakeFails, PaceEnds,
                Release, Answer, Enter, guard
  <2>3. QED
    BY <2>1, <2>2, <1>2
<1>5. CASE Move
  <2>1. \A c \in Callers : call'[c].slot = 0
    BY <1>5, MoveGoes
  <2>2. now' = now
    BY <1>5 DEF Move
  <2>3. QED
    BY <2>1, <2>2, <1>1 DEF PaceInv
<1>6. ASSUME \/ Update \/ Purge \/ Rules \/ UNCHANGED vars \/ \E w \in writes : Land(w)
             \/ \E s \in Scopes : LiftStart(s) \/ LiftRow(s)
      PROVE  PaceInv'
  <2>1. UNCHANGED <<now, next, call>>
    BY <1>6 DEF Update, Purge, Rules, createLimit, updateLimit, deleteLimit, Changed, vars, Land,
                LiftStart, LiftRow, guard
  <2>2. QED
    BY <2>1 DEF PaceInv
<1>7. CASE Tick
  <2>1. UNCHANGED <<next, call>> /\ now' = now + 1
    BY <1>7 DEF Tick, guard
  <2>2. \A c \in Callers : call[c].slot <= now => call[c].slot <= now + 1
    BY <1>1
  <2>3. QED
    BY <2>1, <2>2 DEF PaceInv
<1>8. QED
  BY <1>3, <1>4, <1>5, <1>6, <1>7 DEF Next, Registry

\* A charge taken when the rules last changed RuleRefresh and the read's duration ago
\* is the table's.
LEMMA ChargeStep ==
    ASSUME TypeOK, RulesInv, [Next]_vars, NEW c \in Callers,
           call[c].at = "rules", call'[c].at # "rules", budget' = budget,
           now - changed >= RuleRefresh + cache'.lag
    PROVE  call'[c].uses = Charges(c, Ruling(limits, Session, kind, call[c].in.tok))
<1>1. TakeQuota(c)
  <2>1. ASSUME NEW d \in Callers, Step(d) \/ \E in \in Inputs : Enter(d, in)
        PROVE  TakeQuota(c)
    <3>1. d = c
      BY <2>1, CallFrame
    <3>2. \A in \in Inputs : ~Enter(c, in)
      BY DEF Enter, NoCall
    <3>3. /\ ~Resolve(c) /\ ~Admit(c) /\ ~ListLimits(c)
          /\ ~TakeCounters(c) /\ ~Refuse(c) /\ ~TakeFails(c)
      BY DEF Resolve, Admit, ListLimits, TakeCounters, Refuse, TakeFails
    <3>4. ~Pace(c) /\ ~PaceEnds(c) /\ ~Release(c) /\ \A o \in Outcomes : ~Answer(c, o)
      BY DEF Pace, PaceEnds, Release, Answer
    <3>5. QED
      BY <2>1, <3>1, <3>2, <3>3, <3>4 DEF Step
  <2>2. CASE Move
    <3>1. budget["move"] \in Nat /\ budget["move"] > 0 /\ budget'["move"] = budget["move"] - 1
      BY <2>2 DEF Move, TypeOK, Acts
    <3>2. QED
      BY <3>1
  <2>3. ASSUME \/ Update \/ Purge \/ Rules \/ Tick \/ UNCHANGED vars \/ \E w \in writes : Land(w)
               \/ \E s \in Scopes : LiftStart(s) \/ LiftRow(s)
        PROVE  call' = call
    BY <2>3 DEF Update, Purge, Rules, createLimit, updateLimit, deleteLimit, Changed, Tick, vars,
                Land, LiftStart, LiftRow
  <2>4. QED
    BY <2>1, <2>2, <2>3 DEF Next, Registry
<1>2. cache'.rules = limits
  <2>1. ~Spend("fault")
    <3>1. budget["fault"] \in Nat
      BY DEF TypeOK, Acts
    <3>2. QED
      BY <3>1 DEF Spend, TypeOK, Acts
  <2>2. /\ now \in Nat /\ changed \in Nat /\ cache.at \in Int /\ cache.lag \in Int
        /\ load.since \in Nat /\ RuleRefresh \in Nat \ {0}
    BY CallsAssumption DEF TypeOK, Times, CacheSet, LoadSet
  <2>3. CASE ~Stale /\ cache' = cache
    <3>1. now - cache.at < RuleRefresh
      BY <2>2, <2>3 DEF Stale
    <3>2. cache.at - cache.lag > changed
      BY <2>2, <2>3, <3>1
    <3>3. QED
      BY <2>3, <3>2 DEF RulesInv
  <2>4. CASE cache' = [rules |-> load.rules, at |-> now, lag |-> now - load.since]
    <3>1. cache'.rules = load.rules /\ cache'.lag = now - load.since
      BY <2>4
    <3>2. load.since > changed
      BY <2>2, <3>1
    <3>3. QED
      BY <3>1, <3>2 DEF RulesInv
  <2>5. QED
    BY <1>1, <2>1, <2>3, <2>4 DEF TakeQuota, limitRules, ruleCache
<1>3. call'[c].uses = Charges(c, InForce(limits, Session, kind, call[c].in.tok))
  <2> DEFINE uses == Charges(c, InForce(limits, Session, kind, call[c].in.tok))
             st == IF uses = {} THEN AfterQuota(c) ELSE "take"
  <2>1. call' = [call EXCEPT ![c] = [call[c] EXCEPT !.uses = uses, !.at = st]]
    BY <1>1, <1>2 DEF TakeQuota
  <2>2. call[c] \in CallSet
    BY Begun
  <2> HIDE DEF uses, st
  <2>3. [call[c] EXCEPT !.uses = uses, !.at = st].uses = uses
    BY <2>2 DEF CallSet
  <2>4. call'[c].uses = uses
    BY <2>1, <2>3 DEF TypeOK
  <2>5. QED
    BY <2>4 DEF uses
<1>4. QED
  BY <1>3, InForceIsRuling

-----------------------------------------------------------------------------
(* The theorems.                                                           *)

CallsInv == TypeOK /\ RulesInv /\ QuotaKept /\ PaceInv /\ CooldownRecorded /\ FlagInv

\* The invariant holds at the start.
LEMMA Start == Init => CallsInv
<1> SUFFICES ASSUME Init PROVE CallsInv
  OBVIOUS
<1>1. TypeOK
  BY TypeStart
<1>2. \A l \in FirstLimits : /\ l.id \in Ids /\ l.max \in Nat
                             /\ (CHOOSE k \in FirstLimits : k.id = l.id) = l
  <2>1. \A l \in FirstLimits : l.id \in Ids /\ l.max \in Nat
    BY CallsAssumption DEF Ids
  <2>2. ASSUME NEW l \in FirstLimits PROVE (CHOOSE k \in FirstLimits : k.id = l.id) = l
    BY CallsAssumption
  <2>3. QED
    BY <2>1, <2>2
<1>3. \A c \in Callers : call[c].uses = {} /\ call[c].slot = 0 /\ call[c].at = "none"
  BY DEF Init, NoCall
<1>4. RulesInv
  <2>1. \A l \in limits : l.max <= cap[l.id]
    BY <1>2 DEF Init
  <2>2. /\ cache.rules = {} /\ cache.at - cache.lag <= now /\ changed <= now
        /\ ~(cache.at - cache.lag > changed)
        /\ load.rules = {} /\ load.since <= now /\ ~(load.since > changed)
    BY CallsAssumption DEF Init, NoCache, NoLoad
  <2>3. \A k, l \in limits : k.id = l.id => k = l
    BY CallsAssumption DEF Init
  <2>4. QED
    BY <2>1, <2>2, <2>3, <1>3 DEF RulesInv
<1>5. QuotaKept
  <2>1. \A id \in Ids : cap[id] \in Nat
    BY <1>1 DEF TypeOK
  <2>2. QED
    BY <2>1 DEF Init, QuotaKept
<1>6. PaceInv
  BY <1>3, CallsAssumption DEF Init, PaceInv
<1>7. CooldownRecorded
  BY DEF Init, CooldownRecorded, Active
<1>8. FlagInv
  BY DEF Init, FlagInv
<1>9. QED
  BY <1>1, <1>4, <1>5, <1>6, <1>7, <1>8 DEF CallsInv

\* The invariant always holds.
LEMMA Always == Spec => []CallsInv
<1>1. CallsInv /\ [Next]_vars => CallsInv'
  BY TypeStep, RulesStep, QuotaStep, PaceStep, CooldownStep, FlagStep DEF CallsInv
<1>2. QED
  BY <1>1, Start, PTL DEF Spec

\* Every variable keeps its type: counters and charges name rules of the table and
\* windows of the clock, cooldowns scopes of the methods.
THEOREM TypeCorrect == Spec => []TypeOK
<1>1. CallsInv => TypeOK
  BY DEF CallsInv
<1>2. QED
  BY <1>1, Always, PTL

\* No window of a rule counts more than the rule's highest max, for any number of
\* concurrent calls on rules as stale as they may be (TakeCounters, GiveBackCounters).
THEOREM QuotasHold == Spec => []QuotaKept
<1>1. CallsInv => QuotaKept
  BY DEF CallsInv
<1>2. QED
  BY <1>1, Always, PTL

\* The paced writes of a session are booked PaceInterval apart and none goes out before
\* its slot (reserve, admit).
THEOREM WritesPaced == Spec => []PacedApart
<1>1. CallsInv => PacedApart
  BY DEF CallsInv, PaceInv, PacedApart, Waiting
<1>2. QED
  BY <1>1, Always, PTL

\* A cooldown in force is in the registry or on its way there (coolDown, SetCooldown).
THEOREM CooldownsRecorded == Spec => []CooldownRecorded
<1>1. CallsInv => CooldownRecorded
  BY DEF CallsInv
<1>2. QED
  BY <1>1, Always, PTL

\* A flag the registry does not show is on its way there (setFrozen, notePremium).
THEOREM FlagsRecorded == Spec => []FlagRecorded
<1>1. CallsInv => FlagRecorded
  BY DEF CallsInv, FlagInv, FlagRecorded
<1>2. QED
  BY <1>1, Always, PTL

\* Once RuleRefresh, and as long again as the read of the rules in use took, has passed
\* since the last change, a call is charged to exactly the rules the table ranks highest
\* for its caller (limitRules, Applicable).
THEOREM RulesEnforced == Spec => ChargesInForce
<1>1. CallsInv /\ [Next]_vars =>
        [\A c \in Callers :
           (call[c].at = "rules" /\ call'[c].at # "rules" /\ budget' = budget
               /\ now - changed >= RuleRefresh + cache'.lag)
             => call'[c].uses = Charges(c, Ruling(limits, Session, kind, call[c].in.tok))]_vars
  BY ChargeStep DEF CallsInv
<1>2. QED
  BY <1>1, Always, PTL DEF Spec, ChargesInForce
=============================================================================
