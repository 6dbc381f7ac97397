--------------------------- MODULE CounterProofs ---------------------------
(***************************************************************************)
(* Proof that the counters of Calls agree with the calls: a window counts  *)
(* exactly what went out in it or is about to, for every set of rules and  *)
(* any number of concurrent calls.                                         *)
(***************************************************************************)
EXTENDS CallsProofs, FiniteSetTheorems

-----------------------------------------------------------------------------
(* What one call contributes to a window.                                  *)

\* A call is charged to a rule at most once.
OneEach(uses) == \A u, v \in uses : u.id = v.id => u = v

\* The use of one rule's window among some uses, and how much it is.
Uses(uses, id, s)   == {u \in uses : u.id = id /\ u.start = s}
Amount(uses, id, s) == IF \E u \in uses : u.id = id /\ u.start = s
                       THEN (CHOOSE u \in uses : u.id = id /\ u.start = s).n ELSE 0

\* The units of some uses, as Charged spells them out.
Units(uses, tag, id, s) == UNION {{<<tag, i>> : i \in 1 .. u.n} : u \in Uses(uses, id, s)}

\* The units of call c when its record is k, and their number.
Part(k, c, id, s) == Units(k.paid, <<c, "resolve">>, id, s)
                     \cup IF k.at = "take" THEN {} ELSE Units(k.uses, <<c, "main">>, id, s)
Due(k, id, s) == Amount(k.paid, id, s) + IF k.at = "take" THEN 0 ELSE Amount(k.uses, id, s)

\* The units of all calls when their records are f.
Total(f, id, s) == UNION {Part(f[c], c, id, s) : c \in Callers}

\* Charged is the total over the calls.
LEMMA ChargedIsTotal ==
    ASSUME NEW id, NEW s
    PROVE  Charged(id, s) = Total(call, id, s)
  BY DEF Charged, Total, Part, Units, Uses

\* A run of n numbered units has n elements.
LEMMA BlockSize ==
    ASSUME NEW tag, NEW n \in Nat
    PROVE  /\ IsFiniteSet({<<tag, i>> : i \in 1 .. n})
           /\ Cardinality({<<tag, i>> : i \in 1 .. n}) = n
<1> DEFINE B == {<<tag, i>> : i \in 1 .. n}
           f == [i \in 1 .. n |-> <<tag, i>>]
<1>1. f \in Bijection(1 .. n, B)
  <2>1. f \in [1 .. n -> B]
    OBVIOUS
  <2>2. \A i, j \in 1 .. n : f[i] = f[j] => i = j
    OBVIOUS
  <2>3. \A b \in B : \E i \in 1 .. n : f[i] = b
    OBVIOUS
  <2>4. QED
    BY <2>1, <2>2, <2>3 DEF Bijection, Injection, Surjection, IsInjective
<1>2. IsFiniteSet(1 .. n) /\ Cardinality(1 .. n) = n
  <2>1. 1 \in Int /\ n \in Int
    OBVIOUS
  <2>2. Cardinality(1 .. n) = IF 1 > n THEN 0 ELSE n - 1 + 1
    BY <2>1, FS_Interval
  <2>3. QED
    BY <2>1, <2>2, FS_Interval
<1> HIDE DEF B, f
<1>3. IsFiniteSet(B) /\ Cardinality(B) = Cardinality(1 .. n)
  BY <1>1, <1>2, FS_Bijection DEF ExistsBijection
<1>4. QED
  BY <1>2, <1>3 DEF B

\* With one use per rule, the units of a window are the amount of that use.
LEMMA UnitsSize ==
    ASSUME NEW uses \in SUBSET UseSet, OneEach(uses), NEW tag, NEW id, NEW s
    PROVE  /\ Amount(uses, id, s) \in Nat
           /\ IsFiniteSet(Units(uses, tag, id, s))
           /\ Cardinality(Units(uses, tag, id, s)) = Amount(uses, id, s)
<1>1. CASE \E u \in uses : u.id = id /\ u.start = s
  <2> DEFINE v == CHOOSE u \in uses : u.id = id /\ u.start = s
  <2>1. v \in uses /\ v.id = id /\ v.start = s
    BY <1>1
  <2>2. Amount(uses, id, s) = v.n
    BY <1>1 DEF Amount
  <2> HIDE DEF v
  <2>3. Uses(uses, id, s) = {v}
    BY <2>1 DEF Uses, OneEach
  <2>4. Units(uses, tag, id, s) = {<<tag, i>> : i \in 1 .. v.n}
    BY <2>3 DEF Units
  <2>5. v.n \in Nat
    BY <2>1 DEF UseSet
  <2>6. QED
    BY <2>2, <2>4, <2>5, BlockSize, ZenonT(30)
<1>2. CASE ~\E u \in uses : u.id = id /\ u.start = s
  <2>1. Uses(uses, id, s) = {} /\ Amount(uses, id, s) = 0
    BY <1>2 DEF Uses, Amount
  <2>2. Units(uses, tag, id, s) = {}
    BY <2>1 DEF Units
  <2>3. QED
    BY <2>1, <2>2, FS_EmptySet
<1>3. QED
  BY <1>1, <1>2

\* Units bear the tag of their call and leg.
LEMMA UnitsTagged ==
    ASSUME NEW uses, NEW tag, NEW id, NEW s, NEW x \in Units(uses, tag, id, s)
    PROVE  x[1] = tag
<1>1. PICK u \in Uses(uses, id, s) : x \in {<<tag, i>> : i \in 1 .. u.n}
  BY DEF Units
<1>2. PICK i \in 1 .. u.n : x = <<tag, i>>
  BY <1>1
<1>3. QED
  BY <1>2

\* Uses that name each rule once, for a call of any state.
Billed(k) == /\ k.uses \in SUBSET UseSet /\ OneEach(k.uses)
             /\ k.paid \in SUBSET UseSet /\ OneEach(k.paid)

\* What a call contributes to a window is what it owes there.
LEMMA PartSize ==
    ASSUME NEW k, Billed(k), NEW c, NEW id, NEW s
    PROVE  /\ Due(k, id, s) \in Nat
           /\ IsFiniteSet(Part(k, c, id, s))
           /\ Cardinality(Part(k, c, id, s)) = Due(k, id, s)
           /\ \A x \in Part(k, c, id, s) : x[1][1] = c
<1> DEFINE P == Units(k.paid, <<c, "resolve">>, id, s)
           M == Units(k.uses, <<c, "main">>, id, s)
           p == Amount(k.paid, id, s)
           m == Amount(k.uses, id, s)
<1>1. p \in Nat /\ IsFiniteSet(P) /\ Cardinality(P) = p
  BY UnitsSize DEF Billed
<1>2. m \in Nat /\ IsFiniteSet(M) /\ Cardinality(M) = m
  BY UnitsSize DEF Billed
<1>3. (\A x \in P : x[1] = <<c, "resolve">>) /\ (\A x \in M : x[1] = <<c, "main">>)
  BY UnitsTagged
<1>4. Part(k, c, id, s) = (IF k.at = "take" THEN P ELSE P \cup M)
      /\ Due(k, id, s) = (IF k.at = "take" THEN p + 0 ELSE p + m)
  BY DEF Part, Due
<1> HIDE DEF P, M, p, m
<1>5. P \cap M = {}
  BY <1>3
<1>6. IsFiniteSet(P \cup M) /\ Cardinality(P \cup M) = p + m
  <2>1. /\ IsFiniteSet(P \cup M)
        /\ Cardinality(P \cup M) = Cardinality(P) + Cardinality(M) - Cardinality(P \cap M)
    BY <1>1, <1>2, FS_Union
  <2>2. Cardinality(P \cap M) = 0
    BY <1>5, FS_EmptySet
  <2>3. QED
    BY <2>1, <2>2, <1>1, <1>2
<1>7. \A x \in P \cup M : x[1][1] = c
  BY <1>3
<1>8. CASE k.at = "take"
  BY <1>8, <1>1, <1>4, <1>7
<1>9. CASE k.at # "take"
  BY <1>9, <1>1, <1>2, <1>4, <1>6, <1>7
<1>10. QED
  BY <1>8, <1>9

\* A number with one of its parts replaced by another.
Replaced(old, new, out, in) == out <= old /\ new = old - out + in

\* When one call changes, the total changes by what that call owes.
LEMMA Shift ==
    ASSUME NEW f, NEW g, NEW c \in Callers, NEW id, NEW s,
           \A d \in Callers : Billed(f[d]), Billed(g[c]),
           \A d \in Callers \ {c} : g[d] = f[d],
           IsFiniteSet(Total(f, id, s))
    PROVE  /\ IsFiniteSet(Total(g, id, s))
           /\ Replaced(Cardinality(Total(f, id, s)), Cardinality(Total(g, id, s)),
                       Due(f[c], id, s), Due(g[c], id, s))
<1> DEFINE S == Total(f, id, s)
           A == Part(f[c], c, id, s)
           B == Part(g[c], c, id, s)
           R == S \ A
<1>1. /\ Due(f[c], id, s) \in Nat /\ IsFiniteSet(A) /\ Cardinality(A) = Due(f[c], id, s)
      /\ \A x \in A : x[1][1] = c
  BY PartSize
<1>2. /\ Due(g[c], id, s) \in Nat /\ IsFiniteSet(B) /\ Cardinality(B) = Due(g[c], id, s)
      /\ \A x \in B : x[1][1] = c
  BY PartSize
<1>3. \A d \in Callers : \A x \in Part(f[d], d, id, s) : x[1][1] = d
  BY PartSize
<1>4. A \subseteq S
  BY DEF Total
<1>5. Total(g, id, s) = R \cup B
  <2>1. ASSUME NEW x \in Total(g, id, s) PROVE x \in R \cup B
    <3>1. PICK d \in Callers : x \in Part(g[d], d, id, s)
      BY DEF Total
    <3>2. CASE d = c
      BY <3>1, <3>2
    <3>3. CASE d # c
      <4>1. x \in Part(f[d], d, id, s)
        BY <3>1, <3>3
      <4>2. x \in S
        BY <4>1 DEF Total
      <4>3. x \notin A
        BY <4>1, <3>3, <1>1, <1>3
      <4>4. QED
        BY <4>2, <4>3
    <3>4. QED
      BY <3>2, <3>3
  <2>2. ASSUME NEW x \in R PROVE x \in Total(g, id, s)
    <3>1. PICK d \in Callers : x \in Part(f[d], d, id, s)
      BY DEF Total
    <3>2. d # c
      BY <3>1
    <3>3. x \in Part(g[d], d, id, s)
      BY <3>1, <3>2
    <3>4. QED
      BY <3>3 DEF Total
  <2>3. B \subseteq Total(g, id, s)
    BY DEF Total
  <2>4. QED
    BY <2>1, <2>2, <2>3
<1>6. R \cap B = {}
  <2>1. ASSUME NEW x \in R, x \in B PROVE FALSE
    <3>1. PICK d \in Callers : x \in Part(f[d], d, id, s)
      BY DEF Total
    <3>2. d = c
      BY <3>1, <2>1, <1>2, <1>3
    <3>3. QED
      BY <3>1, <3>2, <2>1
  <2>2. QED
    BY <2>1
<1> HIDE DEF S, A, B, R
<1>7. IsFiniteSet(S) /\ Cardinality(S) \in Nat
  BY FS_CardinalityType DEF S
<1>8. Cardinality(A) <= Cardinality(S)
  BY <1>4, <1>7, FS_Subset
<1>9. IsFiniteSet(R) /\ Cardinality(R) = Cardinality(S) - Cardinality(A)
  <2>1. IsFiniteSet(S \ A) /\ Cardinality(S \ A) = Cardinality(S) - Cardinality(S \cap A)
    BY <1>7, FS_Difference
  <2>2. S \cap A = A
    BY <1>4
  <2>3. QED
    BY <2>1, <2>2 DEF R
<1>10. /\ IsFiniteSet(R \cup B)
       /\ Cardinality(R \cup B) = Cardinality(R) + Cardinality(B) - Cardinality(R \cap B)
  BY <1>2, <1>9, FS_Union
<1>11. Cardinality(R \cap B) = 0
  BY <1>6, FS_EmptySet
<1>12. Cardinality(Total(g, id, s)) = Cardinality(S) - Due(f[c], id, s) + Due(g[c], id, s)
  BY <1>1, <1>2, <1>5, <1>7, <1>9, <1>10, <1>11
<1>13. QED
  BY <1>1, <1>5, <1>8, <1>10, <1>12 DEF S, Replaced

\* The amount of a use is the use's, and nothing where there is no use.
LEMMA AmountOf ==
    ASSUME NEW uses \in SUBSET UseSet, OneEach(uses), NEW id, NEW s
    PROVE  /\ Amount(uses, id, s) \in Nat
           /\ \A u \in uses : u.id = id /\ u.start = s => Amount(uses, id, s) = u.n
           /\ (\A u \in uses : ~(u.id = id /\ u.start = s)) => Amount(uses, id, s) = 0
<1>1. Amount(uses, id, s) \in Nat
  BY UnitsSize
<1>2. ASSUME NEW u \in uses, u.id = id, u.start = s PROVE Amount(uses, id, s) = u.n
  <2>1. (CHOOSE v \in uses : v.id = id /\ v.start = s) = u
    BY <1>2 DEF OneEach
  <2>2. QED
    BY <1>2, <2>1 DEF Amount
<1>3. QED
  BY <1>1, <1>2 DEF Amount

-----------------------------------------------------------------------------
(* What a step of a call does to its charges.                              *)

\* Where a call is before it is charged for its leg.
Coming == {"none", "resolve", "admit", "rules"}

\* The charges stay, taken or not.
Keeps(c) ==
    /\ call'[c].uses = call[c].uses /\ call'[c].paid = call[c].paid
    /\ call[c].at # "take" /\ call'[c].at # "take"
    /\ call'[c].at \in Coming => call[c].at \in Coming
    /\ (call'[c].at \in {"none", "resolve"} \/ call'[c].leg = "resolve")
          => (call[c].at \in {"none", "resolve"} \/ call[c].leg = "resolve")
    /\ counter' = counter

\* The leg is charged to the rules in force: nothing is taken yet.
Quotes(c) ==
    /\ call[c].at = "rules"
    /\ call'[c].uses = Charges(c, InForce(cache'.rules, Session, kind, call[c].in.tok))
    /\ call'[c].at \notin Coming /\ (call'[c].at = "take" \/ call'[c].uses = {})
    /\ call'[c].paid = call[c].paid /\ call'[c].leg = call[c].leg
    /\ counter' = counter

\* The charges are taken, all of them.
Takes(c) ==
    /\ call[c].at = "take" /\ call'[c].at \notin Coming \cup {"take"}
    /\ call'[c].uses = call[c].uses /\ call'[c].paid = call[c].paid /\ call'[c].leg = call[c].leg
    /\ counter' = Counted(call[c].uses)

\* The charges are dropped before they were taken.
Drops(c) ==
    /\ call[c].at = "take" /\ call'[c].at \notin Coming \cup {"take"}
    /\ call'[c].uses = {} /\ call'[c].paid = call[c].paid /\ call'[c].leg = call[c].leg
    /\ counter' = counter

\* One charge is given back.
Returns(c, u) ==
    /\ call[c].at \notin Coming \cup {"take"} /\ call'[c].at = call[c].at
    /\ call'[c].uses = call[c].uses \ {u} /\ call'[c].paid = call[c].paid
    /\ call'[c].leg = call[c].leg
    /\ counter' = GiveBack(u)

\* The give-back of the rest fails.
Breaks(c) ==
    /\ call[c].at \notin Coming \cup {"take"} /\ call'[c].at \notin Coming \cup {"take"}
    /\ call'[c].uses = {} /\ call'[c].paid = call[c].paid /\ call'[c].leg = call[c].leg
    /\ {u.id : u \in call[c].uses} \subseteq broken'
    /\ counter' = counter

\* The resolve went out: its charges are kept apart from those of the call to come.
GoesOn(c) ==
    /\ call[c].at = "sent" /\ call'[c].at = "admit"
    /\ call[c].leg = "resolve" /\ call'[c].leg = "main"
    /\ call'[c].paid = call[c].uses /\ call'[c].uses = {}
    /\ counter' = counter

Bill(c) == \/ Keeps(c) \/ Quotes(c) \/ Takes(c) \/ Drops(c) \/ Breaks(c) \/ GoesOn(c)
             \/ \E u \in call[c].uses : Returns(c, u)

\* A call whose record becomes r has r's fields.
LEMMA Becomes ==
    ASSUME TypeOK, NEW c \in Callers, NEW r, call' = [call EXCEPT ![c] = r]
    PROVE  call'[c] = r
  BY DEF TypeOK

\* Enter, Resolve, Admit, Pace and PaceEnds keep the charges.
LEMMA KeepsCharges ==
    ASSUME TypeOK, NEW c \in Callers,
           \/ Resolve(c) \/ Admit(c) \/ Pace(c) \/ PaceEnds(c)
           \/ \E in \in Inputs : Enter(c, in)
    PROVE  Keeps(c)
<1>1. counter' = counter
  BY DEF Resolve, Admit, Pace, PaceEnds, Enter, registry
<1>2. ASSUME NEW in \in Inputs, Enter(c, in) PROVE Keeps(c)
  <2> DEFINE st == IF Active(Scope(in.m)) THEN "refused"
                   ELSE IF in.named THEN "resolve" ELSE "admit"
             r == [NoCall EXCEPT !.in = in, !.at = st]
  <2>1. call[c] = NoCall /\ call' = [call EXCEPT ![c] = r]
    BY <1>2 DEF Enter
  <2>2. st \in {"refused", "resolve", "admit"}
    OBVIOUS
  <2> HIDE DEF st
  <2>3. r.leg = "main" /\ r.at = st /\ r.uses = {} /\ r.paid = {}
    BY DEF NoCall
  <2>4. /\ call[c].leg = "main" /\ call[c].at = "none" /\ call[c].uses = {} /\ call[c].paid = {}
    BY <2>1 DEF NoCall
  <2> HIDE DEF r
  <2>5. call'[c] = r
    BY <2>1, Becomes
  <2>6. QED
    BY <2>2, <2>3, <2>4, <2>5, <1>1 DEF Keeps, Coming
<1>3. CASE Resolve(c)
  <2> DEFINE st == IF Active("@resolve") THEN "refused" ELSE "rules"
             lg == IF Active("@resolve") THEN "main" ELSE "resolve"
             r == [call[c] EXCEPT !.at = st, !.leg = lg]
  <2>1. call[c].at = "resolve" /\ call' = [call EXCEPT ![c] = r]
    BY <1>3 DEF Resolve
  <2>2. st \in {"refused", "rules"}
    OBVIOUS
  <2> HIDE DEF st, lg
  <2>3. call[c] \in CallSet
    BY <2>1, Begun
  <2>4. r.at = st /\ r.uses = call[c].uses /\ r.paid = call[c].paid
    BY <2>3 DEF CallSet
  <2> HIDE DEF r
  <2>5. call'[c] = r
    BY <2>1, Becomes
  <2>6. QED
    BY <2>1, <2>2, <2>4, <2>5, <1>1 DEF Keeps, Coming
<1>4. CASE Admit(c)
  <2>1. call[c].at = "admit" /\ (At(c, "refused") \/ At(c, "rules"))
    BY <1>4 DEF Admit
  <2>2. QED
    BY <2>1, <1>1, AtType DEF Keeps, Coming, Steps
<1>5. CASE PaceEnds(c)
  <2>1. call[c].at = "wait" /\ (At(c, "sent") \/ At(c, "leave"))
    BY <1>5 DEF PaceEnds
  <2>2. QED
    BY <2>1, <1>1, AtType DEF Keeps, Coming, Steps
<1>6. CASE Pace(c)
  <2> DEFINE slot == Later(next, now)
  <2>0. call[c].at = "pace"
    BY <1>6 DEF Pace
  <2>1. CASE slot - now > MaxPaceWait
    <3>1. At(c, "release")
      BY <1>6, <2>1 DEF Pace, reserve
    <3>2. QED
      BY <3>1, <2>0, <1>1, AtType DEF Keeps, Coming, Steps
  <2>2. CASE ~(slot - now > MaxPaceWait)
    <3> DEFINE st == IF slot = now THEN "sent" ELSE "wait"
               r  == [call[c] EXCEPT !.slot = slot, !.at = st]
    <3>1. call' = [call EXCEPT ![c] = r]
      BY <1>6, <2>2 DEF Pace, reserve
    <3>2. st \in {"sent", "wait"}
      OBVIOUS
    <3>3. call[c] \in CallSet
      BY <2>0, Begun
    <3> HIDE DEF st, slot
    <3>4. r.at = st /\ r.uses = call[c].uses /\ r.paid = call[c].paid /\ r.leg = call[c].leg
      BY <3>3 DEF CallSet
    <3> HIDE DEF r
    <3>5. call'[c] = r
      BY <3>1, Becomes
    <3>6. QED
      BY <2>0, <3>2, <3>4, <3>5, <1>1 DEF Keeps, Coming
  <2>3. QED
    BY <2>1, <2>2
<1>7. QED
  BY <1>2, <1>3, <1>4, <1>5, <1>6

\* The steps of the quota quote, take or drop the charges.
LEMMA QuotaCharges ==
    ASSUME TypeOK, NEW c \in Callers,
           TakeQuota(c) \/ TakeCounters(c) \/ Refuse(c) \/ TakeFails(c)
    PROVE  Quotes(c) \/ Takes(c) \/ Drops(c)
<1>0. call[c].at # "none"
  BY DEF TakeQuota, TakeCounters, Refuse, TakeFails
<1>1. call[c] \in CallSet
  BY <1>0, Begun
<1>2. AfterQuota(c) \in {"pace", "sent"}
  BY DEF AfterQuota
<1>3. CASE TakeQuota(c)
  <2> DEFINE uses == Charges(c, InForce(cache'.rules, Session, kind, call[c].in.tok))
             st == IF uses = {} THEN AfterQuota(c) ELSE "take"
             r == [call[c] EXCEPT !.uses = uses, !.at = st]
  <2>1. call' = [call EXCEPT ![c] = r] /\ call[c].at = "rules" /\ counter' = counter
    BY <1>3 DEF TakeQuota, registry
  <2>2. st \in {"pace", "sent", "take"} /\ (st = "take" \/ uses = {})
    BY <1>2
  <2> HIDE DEF uses, st
  <2>3. r.at = st /\ r.uses = uses /\ r.paid = call[c].paid /\ r.leg = call[c].leg
    BY <1>1 DEF CallSet
  <2> HIDE DEF r
  <2>4. call'[c] = r
    BY <2>1, Becomes
  <2>5. Quotes(c)
    BY <2>1, <2>2, <2>3, <2>4 DEF Quotes, Coming, uses
  <2>6. QED
    BY <2>5
<1>4. CASE TakeCounters(c)
  <2>1. call[c].at = "take" /\ At(c, AfterQuota(c)) /\ counter' = Counted(call[c].uses)
    BY <1>4 DEF TakeCounters
  <2>2. AfterQuota(c) \in Steps
    BY <1>2 DEF Steps
  <2>3. /\ call'[c].at = AfterQuota(c) /\ call'[c].uses = call[c].uses
        /\ call'[c].paid = call[c].paid /\ call'[c].leg = call[c].leg
    BY <2>1, <2>2, <1>0, AtType
  <2>4. Takes(c)
    BY <2>1, <2>3, <1>2 DEF Takes, Coming
  <2>5. QED
    BY <2>4
<1>5. CASE Refuse(c) \/ TakeFails(c)
  <2> DEFINE st == IF Refuse(c) THEN "refused" ELSE AfterQuota(c)
             r == [call[c] EXCEPT !.at = st, !.uses = {}]
  <2>1. call' = [call EXCEPT ![c] = r] /\ call[c].at = "take" /\ counter' = counter
    BY <1>5 DEF Refuse, TakeFails, registry
  <2>2. st \in {"refused", "pace", "sent"}
    BY <1>2
  <2> HIDE DEF st
  <2>3. r.at = st /\ r.uses = {} /\ r.paid = call[c].paid /\ r.leg = call[c].leg
    BY <1>1 DEF CallSet
  <2> HIDE DEF r
  <2>4. call'[c] = r
    BY <2>1, Becomes
  <2>5. Drops(c)
    BY <2>1, <2>2, <2>3, <2>4 DEF Drops, Coming
  <2>6. QED
    BY <2>5
<1>6. QED
  BY <1>3, <1>4, <1>5

\* The give-back returns one charge, ends, or breaks off.
LEMMA ReleaseCharges ==
    ASSUME TypeOK, NEW c \in Callers, Release(c)
    PROVE  Keeps(c) \/ Breaks(c) \/ \E u \in call[c].uses : Returns(c, u)
<1> DEFINE result == IF call[c].at = "release" THEN "refused" ELSE "canceled"
<1>0. call[c].at \in {"release", "leave"}
  BY DEF Release
<1>1. call[c] \in CallSet
  BY <1>0, Begun
<1>2. result \in {"refused", "canceled"}
  OBVIOUS
<1>3. \/ At(c, result) /\ counter' = counter
      \/ \E u \in call[c].uses : counter' = GiveBack(u) /\ call' = [call EXCEPT ![c].uses = @ \ {u}]
      \/ /\ call' = [call EXCEPT ![c].at = result, ![c].uses = {}]
         /\ counter' = counter
         /\ broken' = broken \cup {u.id : u \in call[c].uses}
  BY DEF Release
<1> HIDE DEF result
<1>4. CASE At(c, result) /\ counter' = counter
  <2>1. result \in Steps
    BY <1>2 DEF Steps
  <2>2. /\ call'[c].at = result /\ call'[c].uses = call[c].uses
        /\ call'[c].paid = call[c].paid /\ call'[c].leg = call[c].leg
    BY <1>4, <2>1, <1>0, AtType
  <2>3. Keeps(c)
    BY <1>0, <1>2, <1>4, <2>2 DEF Keeps, Coming
  <2>4. QED
    BY <2>3
<1>5. ASSUME NEW u \in call[c].uses, counter' = GiveBack(u),
             call' = [call EXCEPT ![c].uses = @ \ {u}]
      PROVE  Returns(c, u)
  <2> DEFINE r == [call[c] EXCEPT !.uses = call[c].uses \ {u}]
  <2>1. call' = [call EXCEPT ![c] = r]
    BY <1>5
  <2>2. /\ r.uses = call[c].uses \ {u} /\ r.at = call[c].at /\ r.paid = call[c].paid
        /\ r.leg = call[c].leg
    BY <1>1 DEF CallSet
  <2> HIDE DEF r
  <2>3. call'[c] = r
    BY <2>1, Becomes
  <2>4. QED
    BY <1>0, <1>5, <2>2, <2>3 DEF Returns, Coming
<1>6. CASE /\ call' = [call EXCEPT ![c].at = result, ![c].uses = {}]
           /\ counter' = counter
           /\ broken' = broken \cup {u.id : u \in call[c].uses}
  <2> DEFINE r == [call[c] EXCEPT !.at = result, !.uses = {}]
  <2>1. call' = [call EXCEPT ![c] = r]
    BY <1>6
  <2>2. r.uses = {} /\ r.at = result /\ r.paid = call[c].paid /\ r.leg = call[c].leg
    BY <1>1 DEF CallSet
  <2> HIDE DEF r
  <2>3. call'[c] = r
    BY <2>1, Becomes
  <2>4. Breaks(c)
    BY <1>0, <1>2, <1>6, <2>2, <2>3 DEF Breaks, Coming
  <2>5. QED
    BY <2>4
<1>7. QED
  BY <1>3, <1>4, <1>5, <1>6

\* An answer keeps the charges, or sets those of a resolve aside.
LEMMA AnswerCharges ==
    ASSUME TypeOK, NEW c \in Callers, NEW o \in Outcomes, Answer(c, o)
    PROVE  Keeps(c) \/ GoesOn(c)
<1>0. call[c].at = "sent" /\ counter' = counter
  BY DEF Answer, registry
<1>1. call[c] \in CallSet
  BY <1>0, Begun
<1>2. \/ call' = [call EXCEPT ![c].tried = TRUE]
      \/ /\ call[c].leg = "resolve"
         /\ call' = [call EXCEPT ![c].leg = "main", ![c].at = "admit",
                                 ![c].paid = call[c].uses, ![c].uses = {}]
      \/ At(c, "answered")
  BY DEF Answer
<1>3. CASE call' = [call EXCEPT ![c].tried = TRUE]
  <2> DEFINE r == [call[c] EXCEPT !.tried = TRUE]
  <2>1. /\ r.uses = call[c].uses /\ r.at = call[c].at /\ r.paid = call[c].paid
        /\ r.leg = call[c].leg
    BY <1>1 DEF CallSet
  <2>2. call' = [call EXCEPT ![c] = r]
    BY <1>3
  <2> HIDE DEF r
  <2>3. call'[c] = r
    BY <2>2, Becomes
  <2>4. QED
    BY <1>0, <2>1, <2>3 DEF Keeps, Coming
<1>4. CASE /\ call[c].leg = "resolve"
           /\ call' = [call EXCEPT ![c].leg = "main", ![c].at = "admit",
                                   ![c].paid = call[c].uses, ![c].uses = {}]
  <2> DEFINE r == [call[c] EXCEPT !.leg = "main", !.at = "admit",
                                  !.paid = call[c].uses, !.uses = {}]
  <2>1. r.uses = {} /\ r.at = "admit" /\ r.paid = call[c].uses /\ r.leg = "main"
    BY <1>1 DEF CallSet
  <2>2. call' = [call EXCEPT ![c] = r]
    BY <1>4
  <2> HIDE DEF r
  <2>3. call'[c] = r
    BY <2>2, Becomes
  <2>4. QED
    BY <1>0, <1>4, <2>1, <2>3 DEF GoesOn
<1>5. CASE At(c, "answered")
  BY <1>0, <1>5, AtType DEF Keeps, Coming, Steps
<1>6. QED
  BY <1>2, <1>3, <1>4, <1>5

\* Every step of a call does one of these things to its charges.
LEMMA CallBills ==
    ASSUME TypeOK, NEW c \in Callers, Step(c) \/ \E in \in Inputs : Enter(c, in)
    PROVE  Bill(c)
<1>1. ASSUME NEW o \in Outcomes, Answer(c, o) PROVE Bill(c)
  BY <1>1, AnswerCharges DEF Bill
<1>2. CASE Release(c)
  BY <1>2, ReleaseCharges DEF Bill
<1>3. CASE TakeQuota(c) \/ TakeCounters(c) \/ Refuse(c) \/ TakeFails(c)
  BY <1>3, QuotaCharges DEF Bill
<1>4. CASE \/ Resolve(c) \/ Admit(c) \/ Pace(c) \/ PaceEnds(c)
           \/ \E in \in Inputs : Enter(c, in)
  BY <1>4, KeepsCharges DEF Bill
<1>5. CASE ListLimits(c)
  BY <1>5 DEF ListLimits, Bill, Keeps, registry
<1>6. QED
  BY <1>1, <1>2, <1>3, <1>4, <1>5 DEF Step

-----------------------------------------------------------------------------
(* The bills.                                                              *)

\* A worker's rules, those it is reading, and what a call was charged, name a rule at most once; a call
\* that is not charged yet has no charges, and none are set aside before its resolve.
Bills ==
    /\ OneEach(cache.rules) /\ OneEach(load.rules)
    /\ \A c \in Callers : OneEach(call[c].uses) /\ OneEach(call[c].paid)
    /\ \A c \in Callers : call[c].at \in Coming => call[c].uses = {}
    /\ \A c \in Callers : (call[c].at \in {"none", "resolve"} \/ call[c].leg = "resolve")
                             => call[c].paid = {}

\* Every call's charges are of their types and name each rule once.
LEMMA AllBilled ==
    ASSUME TypeOK, Bills, NEW c \in Callers
    PROVE  Billed(call[c])
<1>1. call[c] \in CallSet \/ call[c] = NoCall
  BY DEF TypeOK
<1>2. call[c].uses \in SUBSET UseSet /\ call[c].paid \in SUBSET UseSet
  BY <1>1 DEF CallSet, NoCall
<1>3. QED
  BY <1>2 DEF Billed, Bills

\* Rules with an id each charge a call once each.
LEMMA ChargesOnce ==
    ASSUME NEW c \in Callers, NEW rules, OneEach(rules)
    PROVE  OneEach(Charges(c, rules))
<1> DEFINE n(l) == IF call[c].leg = "resolve" THEN Count(l, Resolver, 0, FALSE)
                   ELSE Count(l, call[c].in.m, call[c].in.n, call[c].in.local)
           use(l) == [id |-> l.id, start |-> WindowStart(l.per, now), n |-> n(l), max |-> l.max]
<1>1. Charges(c, rules) = {use(l) : l \in {k \in rules : n(k) > 0}}
  BY DEF Charges
<1> HIDE DEF n
<1>2. \A l : use(l).id = l.id
  OBVIOUS
<1> HIDE DEF use
<1>3. \A u \in Charges(c, rules) : \E l \in rules : u = use(l)
  BY <1>1
<1>4. QED
  BY <1>2, <1>3 DEF OneEach

\* A hand-over drops the charges not taken yet and keeps the others.
LEMMA MoveCharges ==
    ASSUME TypeOK, Move, NEW c \in Callers
    PROVE  /\ call'[c].paid = call[c].paid /\ call'[c].leg = call[c].leg
           /\ call'[c].uses = IF call[c].at = "take" THEN {} ELSE call[c].uses
           /\ call'[c].at # "take"
           /\ call'[c].at \in Coming => call'[c].at = call[c].at
<1> DEFINE under == {"resolve", "admit", "rules", "take", "pace", "wait", "sent"}
           us == IF call[c].at = "take" THEN {} ELSE call[c].uses
           r == [call[c] EXCEPT !.at = "answered", !.slot = 0, !.uses = us]
           q == [call[c] EXCEPT !.slot = 0]
<1>1. call'[c] = IF call[c].at \in under THEN r ELSE q
  BY DEF Move
<1>2. CASE call[c].at \in under
  <2>1. call[c] \in CallSet
    BY <1>2, Begun
  <2> HIDE DEF us
  <2>2. r.at = "answered" /\ r.uses = us /\ r.paid = call[c].paid /\ r.leg = call[c].leg
    BY <2>1 DEF CallSet
  <2> HIDE DEF r, q
  <2>3. QED
    BY <1>1, <1>2, <2>2 DEF Coming, us
<1>3. CASE call[c].at \notin under
  <2>1. /\ q.at = call[c].at /\ q.uses = call[c].uses /\ q.paid = call[c].paid
        /\ q.leg = call[c].leg
    <3>1. call[c] \in CallSet \/ call[c] = NoCall
      BY DEF TypeOK
    <3>2. QED
      BY <3>1 DEF CallSet, NoCall
  <2> HIDE DEF r, q
  <2>2. QED
    BY <1>1, <1>3, <2>1
<1>4. QED
  BY <1>2, <1>3

\* Every step keeps the bills.
LEMMA BillsStep == TypeOK /\ RulesInv /\ Bills /\ [Next]_vars => Bills'
<1> SUFFICES ASSUME TypeOK, RulesInv, Bills, [Next]_vars PROVE Bills'
  OBVIOUS
<1>0. OneEach(limits)
  BY DEF RulesInv, OneEach
<1>1. ASSUME NEW c \in Callers, Step(c) \/ \E in \in Inputs : Enter(c, in) PROVE Bills'
  <2>1. /\ \/ cache' = cache
           \/ cache' = [rules |-> load.rules, at |-> now, lag |-> now - load.since]
        /\ load' \in {load, NoLoad, [by |-> c, rules |-> limits, since |-> now]}
        /\ \A d \in Callers \ {c} : call'[d] = call[d]
    BY <1>1, CallFrame
  <2>2. OneEach(cache'.rules) /\ OneEach(load'.rules)
    <3>1. OneEach(cache'.rules)
      BY <2>1 DEF Bills
    <3>2. OneEach(NoLoad.rules)
      BY DEF OneEach, NoLoad
    <3>3. QED
      BY <2>1, <1>0, <3>1, <3>2 DEF Bills
  <2>3. OneEach({}) /\ OneEach(call[c].uses) /\ OneEach(call[c].paid)
    BY DEF OneEach, Bills
  <2>4. /\ OneEach(call'[c].uses) /\ OneEach(call'[c].paid)
        /\ call'[c].at \in Coming => call'[c].uses = {}
        /\ (call'[c].at \in {"none", "resolve"} \/ call'[c].leg = "resolve") => call'[c].paid = {}
    <3>1. CASE Keeps(c)
      BY <3>1, <2>3 DEF Keeps, Bills
    <3>2. CASE Quotes(c)
      <4> DEFINE rs == InForce(cache'.rules, Session, kind, call[c].in.tok)
      <4>1. rs \subseteq cache'.rules
        BY InForceSubset
      <4>2. OneEach(rs)
        BY <4>1, <2>2 DEF OneEach
      <4>3. OneEach(Charges(c, rs))
        BY <4>2, ChargesOnce
      <4>4. call'[c].uses = Charges(c, rs)
        BY <3>2 DEF Quotes
      <4> HIDE DEF rs
      <4>5. QED
        BY <3>2, <4>3, <4>4, <2>3 DEF Quotes, Bills, Coming
    <3>3. CASE Takes(c) \/ Drops(c) \/ Breaks(c)
      BY <3>3, <2>3 DEF Takes, Drops, Breaks, Bills, Coming
    <3>4. CASE GoesOn(c)
      BY <3>4, <2>3 DEF GoesOn
    <3>5. ASSUME NEW u \in call[c].uses, Returns(c, u)
          PROVE  /\ OneEach(call'[c].uses) /\ OneEach(call'[c].paid)
                 /\ call'[c].at \in Coming => call'[c].uses = {}
                 /\ (call'[c].at \in {"none", "resolve"} \/ call'[c].leg = "resolve")
                       => call'[c].paid = {}
      <4>1. OneEach(call[c].uses \ {u})
        BY <2>3 DEF OneEach
      <4>2. QED
        BY <3>5, <4>1, <2>3 DEF Returns, Bills
    <3>6. QED
      BY <1>1, <3>1, <3>2, <3>3, <3>4, <3>5, CallBills DEF Bill
  <2>5. QED
    BY <2>1, <2>2, <2>4 DEF Bills
<1>2. CASE Move
  <2>1. cache'.rules = {} /\ load'.rules = {}
    BY <1>2 DEF Move, NoCache, NoLoad
  <2>2. OneEach({}) /\ \A c \in Callers : OneEach(call[c].uses) /\ OneEach(call[c].paid)
    BY DEF OneEach, Bills
  <2>3. ASSUME NEW c \in Callers
        PROVE  /\ OneEach(call'[c].uses) /\ OneEach(call'[c].paid)
               /\ call'[c].at \in Coming => call'[c].uses = {}
               /\ (call'[c].at \in {"none", "resolve"} \/ call'[c].leg = "resolve")
                     => call'[c].paid = {}
    BY <1>2, <2>2, MoveCharges DEF Bills, Coming
  <2>4. QED
    BY <2>1, <2>2, <2>3 DEF Bills
<1>3. ASSUME \/ Update \/ Purge \/ Rules \/ Tick \/ UNCHANGED vars \/ \E w \in writes : Land(w)
             \/ \E s \in Scopes : LiftStart(s) \/ LiftRow(s)
      PROVE  Bills'
  <2>1. UNCHANGED <<cache, load, call>>
    BY <1>3 DEF Update, Purge, Rules, createLimit, updateLimit, deleteLimit, Changed, Tick, vars,
                Land, LiftStart, LiftRow, ruleCache
  <2>2. QED
    BY <2>1 DEF Bills
<1>4. QED
  BY <1>1, <1>2, <1>3 DEF Next, Registry

-----------------------------------------------------------------------------
(* The counters.                                                           *)

\* CountsWhatGoesOut, with the finiteness its Cardinality needs.
Windows ==
    \A id \in Ids \ broken, s \in Starts :
        s >= now - CounterAge =>
            /\ IsFiniteSet(Total(call, id, s))
            /\ counter[id][s] = Cardinality(Total(call, id, s))

\* What Counted adds to a window.
LEMMA CountedAdds ==
    ASSUME NEW uses, NEW id \in Ids, NEW s \in Starts
    PROVE  Counted(uses)[id][s] = counter[id][s] + Amount(uses, id, s)
  BY DEF Counted, Amount

\* What a give-back takes from the windows.
LEMMA GivesBack ==
    ASSUME TypeOK, NEW u \in UseSet, NEW id \in Ids, NEW s \in Starts
    PROVE  /\ ~(u.id = id /\ u.start = s) => GiveBack(u)[id][s] = counter[id][s]
           /\ (u.id = id /\ u.start = s /\ u.n <= counter[id][s])
                 => GiveBack(u)[id][s] = counter[id][s] - u.n
<1>1. u.id \in Ids /\ u.start \in Starts /\ u.n \in Nat
  BY DEF UseSet
<1>2. counter \in [Ids -> [Starts -> Nat]] /\ counter[id][s] \in Nat
  BY DEF TypeOK
<1> DEFINE n == IF counter[u.id][u.start] < u.n THEN 0 ELSE counter[u.id][u.start] - u.n
<1>3. GiveBack(u) = [counter EXCEPT ![u.id] = [counter[u.id] EXCEPT ![u.start] = n]]
  BY <1>1, <1>2 DEF GiveBack
<1>4. (u.id = id /\ u.start = s /\ u.n <= counter[id][s]) => n = counter[id][s] - u.n
  BY <1>1, <1>2
<1> HIDE DEF n
<1>5. QED
  BY <1>1, <1>2, <1>3, <1>4

\* A step of a call moves a window's counter by what it moves the call's dues, unless
\* the rule breaks.
LEMMA DueStep ==
    ASSUME TypeOK, Bills, NEW c \in Callers, Bill(c), NEW id \in Ids, NEW s \in Starts,
           id \notin broken', Due(call[c], id, s) <= counter[id][s]
    PROVE  counter'[id][s] = counter[id][s] - Due(call[c], id, s) + Due(call'[c], id, s)
<1> DEFINE n == counter[id][s]
           P(k) == Amount(k.paid, id, s)
           M(k) == Amount(k.uses, id, s)
<1>0. Billed(call[c])
  BY AllBilled
<1>1. n \in Nat /\ P(call[c]) \in Nat /\ M(call[c]) \in Nat
  BY <1>0, AmountOf DEF TypeOK, Billed
<1>2. Amount({}, id, s) = 0
  BY DEF Amount
<1>3. /\ Due(call[c], id, s) = P(call[c]) + IF call[c].at = "take" THEN 0 ELSE M(call[c])
      /\ Due(call'[c], id, s) = P(call'[c]) + IF call'[c].at = "take" THEN 0 ELSE M(call'[c])
  BY DEF Due
<1>4. CASE Keeps(c)
  <2>1. Due(call'[c], id, s) = Due(call[c], id, s)
    BY <1>4 DEF Keeps, Due
  <2>2. Due(call[c], id, s) \in Nat /\ counter'[id][s] = n
    BY <1>1, <1>3, <1>4 DEF Keeps
  <2>3. QED
    BY <2>1, <2>2, <1>1
<1>5. CASE Quotes(c)
  <2>1. call[c].uses = {} /\ call[c].at # "take" /\ call'[c].paid = call[c].paid
        /\ (call'[c].at = "take" \/ call'[c].uses = {}) /\ counter' = counter
    BY <1>5 DEF Quotes, Bills, Coming
  <2>2. Due(call[c], id, s) = P(call[c]) + 0
    BY <2>1, <1>2 DEF Due
  <2>3. Due(call'[c], id, s) = P(call[c]) + 0
    BY <2>1, <1>2 DEF Due
  <2> HIDE DEF n, P
  <2>4. QED
    BY <2>1, <2>2, <2>3, <1>1 DEF n
<1>6. CASE Takes(c)
  <2>1. call[c].at = "take" /\ call'[c].at # "take" /\ call'[c].paid = call[c].paid
        /\ call'[c].uses = call[c].uses /\ counter' = Counted(call[c].uses)
    BY <1>6 DEF Takes
  <2>2. Due(call[c], id, s) = P(call[c]) + 0
    BY <2>1 DEF Due
  <2>3. Due(call'[c], id, s) = P(call[c]) + M(call[c])
    BY <2>1 DEF Due
  <2>4. counter'[id][s] = n + M(call[c])
    BY <2>1, CountedAdds
  <2> HIDE DEF n, P, M
  <2>5. QED
    BY <2>2, <2>3, <2>4, <1>1 DEF n
<1>7. CASE Drops(c)
  <2>1. call[c].at = "take" /\ call'[c].at # "take" /\ call'[c].paid = call[c].paid
        /\ call'[c].uses = {} /\ counter' = counter
    BY <1>7 DEF Drops
  <2>2. Due(call[c], id, s) = P(call[c]) + 0
    BY <2>1 DEF Due
  <2>3. Due(call'[c], id, s) = P(call[c]) + 0
    BY <2>1, <1>2 DEF Due
  <2> HIDE DEF n, P
  <2>4. QED
    BY <2>1, <2>2, <2>3, <1>1 DEF n
<1>8. CASE Breaks(c)
  <2>1. call[c].at # "take" /\ call'[c].at # "take" /\ call'[c].paid = call[c].paid
        /\ call'[c].uses = {} /\ counter' = counter
        /\ {u.id : u \in call[c].uses} \subseteq broken'
    BY <1>8 DEF Breaks
  <2>2. M(call[c]) = 0
    BY <2>1, <1>0, AmountOf DEF Billed
  <2>3. Due(call[c], id, s) = P(call[c]) + M(call[c])
    BY <2>1 DEF Due
  <2>4. Due(call'[c], id, s) = P(call[c]) + 0
    BY <2>1, <1>2 DEF Due
  <2> HIDE DEF n, P, M
  <2>5. QED
    BY <2>1, <2>2, <2>3, <2>4, <1>1 DEF n
<1>9. CASE GoesOn(c)
  <2>1. call[c].at # "take" /\ call'[c].at # "take" /\ call[c].paid = {}
        /\ call'[c].paid = call[c].uses /\ call'[c].uses = {} /\ counter' = counter
    BY <1>9 DEF GoesOn, Bills
  <2>2. Due(call[c], id, s) = 0 + M(call[c])
    BY <2>1, <1>2 DEF Due
  <2>3. Due(call'[c], id, s) = M(call[c]) + 0
    BY <2>1, <1>2 DEF Due
  <2> HIDE DEF n, M
  <2>4. QED
    BY <2>1, <2>2, <2>3, <1>1 DEF n
<1>10. ASSUME NEW u \in call[c].uses, Returns(c, u)
       PROVE  counter'[id][s] = counter[id][s] - Due(call[c], id, s) + Due(call'[c], id, s)
  <2>1. call[c].at # "take" /\ call'[c].at # "take" /\ call'[c].paid = call[c].paid
        /\ call'[c].uses = call[c].uses \ {u} /\ counter' = GiveBack(u)
    BY <1>10 DEF Returns, Coming
  <2>2. /\ call[c].uses \in SUBSET UseSet /\ OneEach(call[c].uses)
        /\ call'[c].uses \in SUBSET UseSet /\ OneEach(call'[c].uses)
    BY <2>1, <1>0 DEF Billed, OneEach
  <2>3. u \in UseSet /\ u.n \in Nat
    BY <2>2 DEF UseSet
  <2>4. Due(call[c], id, s) = P(call[c]) + M(call[c])
    BY <2>1 DEF Due
  <2>5. Due(call'[c], id, s) = P(call[c]) + M(call'[c])
    BY <2>1 DEF Due
  <2>6. CASE u.id = id /\ u.start = s
    <3>1. M(call[c]) = u.n
      BY <2>2, <2>6, AmountOf
    <3>2. \A v \in call'[c].uses : v.id # id
      BY <2>1, <2>2, <2>6 DEF OneEach
    <3>3. M(call'[c]) = 0
      BY <2>2, <3>2, AmountOf
    <3>4. u.n <= n
      <4> HIDE DEF n, P, M
      <4>1. Due(call[c], id, s) <= n
        BY DEF n
      <4>2. QED
        BY <3>1, <2>3, <2>4, <1>1, <4>1
    <3>5. counter'[id][s] = n - u.n
      BY <2>1, <2>3, <2>6, <3>4, GivesBack
    <3> HIDE DEF n, P, M
    <3>6. QED
      BY <3>1, <3>3, <3>5, <2>3, <2>4, <2>5, <1>1 DEF n
  <2>7. CASE ~(u.id = id /\ u.start = s)
    <3>1. M(call'[c]) = M(call[c])
      <4>1. CASE \E v \in call[c].uses : v.id = id /\ v.start = s
        <5>1. PICK v \in call[c].uses : v.id = id /\ v.start = s
          BY <4>1
        <5>2. v \in call'[c].uses
          BY <5>1, <2>1, <2>7
        <5>3. QED
          BY <5>1, <5>2, <2>2, AmountOf
      <4>2. CASE ~\E v \in call[c].uses : v.id = id /\ v.start = s
        BY <4>2, <2>1 DEF Amount
      <4>3. QED
        BY <4>1, <4>2
    <3>2. counter'[id][s] = n
      BY <2>1, <2>3, <2>7, GivesBack
    <3> HIDE DEF n, P, M
    <3>3. QED
      BY <3>1, <3>2, <2>4, <2>5, <1>1 DEF n
  <2>8. QED
    BY <2>6, <2>7
<1>11. QED
  BY <1>4, <1>5, <1>6, <1>7, <1>8, <1>9, <1>10 DEF Bill

\* What is broken stays broken.
LEMMA BrokenGrows ==
    ASSUME [Next]_vars
    PROVE  broken \subseteq broken'
<1>1. ASSUME NEW scope, NEW o, observe(scope, o) PROVE broken \subseteq broken'
  BY <1>1 DEF observe, setFlag, coolDown
<1>2. ASSUME NEW c \in Callers, Step(c) \/ \E in \in Inputs : Enter(c, in)
      PROVE  broken \subseteq broken'
  <2>1. ASSUME NEW o \in Outcomes, Answer(c, o) PROVE broken \subseteq broken'
    BY <2>1, <1>1 DEF Answer
  <2>2. CASE Release(c)
    BY <2>2 DEF Release
  <2>3. CASE ~Release(c) /\ ~\E o \in Outcomes : Answer(c, o)
    BY <1>2, <2>3 DEF Step, Resolve, Admit, ListLimits, TakeQuota, TakeCounters, Refuse, TakeFails, Pace,
                      PaceEnds, Enter, history
  <2>4. QED
    BY <2>1, <2>2, <2>3
<1>3. CASE Update
  BY <1>1, <1>3 DEF Update, setFlag
<1>4. CASE Registry
  BY <1>4 DEF Registry, Land, LiftStart, LiftRow, Purge, Move, history
<1>5. CASE Rules \/ Tick \/ UNCHANGED vars
  BY <1>5 DEF Rules, createLimit, updateLimit, deleteLimit, Tick, vars, history
<1>6. QED
  BY <1>2, <1>3, <1>4, <1>5 DEF Next

\* A window too young to purge was so before.
LEMMA WasYoung ==
    ASSUME NEW s \in Int, NEW t \in Nat, NEW u \in Nat, NEW age \in Nat, t <= u, s >= u - age
    PROVE  s >= t - age
  OBVIOUS

\* Every step keeps the counters equal to the units charged.
LEMMA WindowsStep == TypeOK /\ Bills /\ Bills' /\ Windows /\ [Next]_vars => Windows'
<1> SUFFICES ASSUME TypeOK, Bills, Bills', Windows, [Next]_vars,
                    NEW id \in Ids, id \notin broken', NEW s \in Starts,
                    s >= now' - CounterAge
             PROVE  /\ IsFiniteSet(Total(call', id, s))
                    /\ counter'[id][s] = Cardinality(Total(call', id, s))
  BY DEF Windows, Total
<1>0. TypeOK'
  BY TypeStep
<1>1. id \notin broken
  BY BrokenGrows
<1>2. now \in Nat /\ now' \in Nat /\ now <= now' /\ s \in Int /\ CounterAge \in Nat
  <2>1. now \in Nat /\ now' \in Nat /\ CounterAge \in Nat
    BY <1>0, CallsAssumption DEF TypeOK, Times
  <2>2. now' = now \/ now' = now + 1
    <3>1. ASSUME NEW c \in Callers, Step(c) \/ \E in \in Inputs : Enter(c, in) PROVE now' = now
      BY <3>1, CallFrame
    <3>2. QED
      BY <3>1 DEF Next, Update, Registry, Land, LiftStart, LiftRow, Purge, Move, Rules,
                  createLimit, updateLimit, deleteLimit, Changed, Tick, vars
  <2>3. s \in Int
    <3>1. PICK p \in Pers, t \in Times : s = WindowStart(p, t)
      BY DEF Starts
    <3>2. t \in Int /\ Offset[p] \in Int /\ Length[p] \in Int /\ Length[p] > 0
      BY QuotaAssumption, CallsAssumption DEF Times
    <3>3. (t + Offset[p]) \div Length[p] \in Int
      BY <3>2
    <3>4. QED
      BY <3>1, <3>2, <3>3 DEF WindowStart
  <2>4. QED
    BY <2>1, <2>2, <2>3
<1>3. s >= now - CounterAge
  BY <1>2, WasYoung
<1>4. /\ IsFiniteSet(Total(call, id, s))
      /\ counter[id][s] = Cardinality(Total(call, id, s))
  BY <1>1, <1>3 DEF Windows
<1>5. ASSUME NEW c \in Callers, Step(c) \/ \E in \in Inputs : Enter(c, in)
      PROVE  /\ IsFiniteSet(Total(call', id, s))
             /\ counter'[id][s] = Cardinality(Total(call', id, s))
  <2>1. Bill(c) /\ \A d \in Callers \ {c} : call'[d] = call[d]
    BY <1>5, CallBills, CallFrame
  <2>2. (\A d \in Callers : Billed(call[d])) /\ Billed(call'[c])
    <3>1. ASSUME NEW d \in Callers PROVE Billed(call'[d])
      <4>1. call'[d] \in CallSet \/ call'[d] = NoCall
        BY <1>0 DEF TypeOK
      <4>2. call'[d].uses \in SUBSET UseSet /\ call'[d].paid \in SUBSET UseSet
        BY <4>1 DEF CallSet, NoCall
      <4>3. QED
        BY <4>2 DEF Billed, Bills
    <3>2. QED
      BY <3>1, AllBilled
  <2>3. /\ IsFiniteSet(Total(call', id, s))
        /\ Due(call[c], id, s) <= Cardinality(Total(call, id, s))
        /\ Cardinality(Total(call', id, s))
             = Cardinality(Total(call, id, s)) - Due(call[c], id, s) + Due(call'[c], id, s)
    <3>1. /\ IsFiniteSet(Total(call', id, s))
          /\ Replaced(Cardinality(Total(call, id, s)), Cardinality(Total(call', id, s)),
                      Due(call[c], id, s), Due(call'[c], id, s))
      BY <2>1, <2>2, <1>4, Shift
    <3>2. QED
      BY <3>1 DEF Replaced
  <2>4. counter'[id][s] = counter[id][s] - Due(call[c], id, s) + Due(call'[c], id, s)
    BY <2>1, <2>3, <1>4, DueStep
  <2>5. QED
    BY <2>3, <2>4, <1>4
<1>6. CASE Move
  <2>1. counter' = counter
    BY <1>6 DEF Move, registry
  <2>2. ASSUME NEW c \in Callers PROVE Part(call'[c], c, id, s) = Part(call[c], c, id, s)
    <3>1. /\ call'[c].paid = call[c].paid /\ call'[c].at # "take"
          /\ call'[c].uses = IF call[c].at = "take" THEN {} ELSE call[c].uses
      BY <1>6, MoveCharges
    <3>2. Units({}, <<c, "main">>, id, s) = {}
      BY DEF Units, Uses
    <3>3. QED
      BY <3>1, <3>2 DEF Part
  <2>3. Total(call', id, s) = Total(call, id, s)
    BY <2>2 DEF Total
  <2>4. QED
    BY <2>1, <2>3, <1>4
<1>7. ASSUME call' = call, counter'[id][s] = counter[id][s]
      PROVE  /\ IsFiniteSet(Total(call', id, s))
             /\ counter'[id][s] = Cardinality(Total(call', id, s))
  BY <1>4, <1>7
<1>8. ASSUME \/ Update \/ Purge \/ Rules \/ Tick \/ UNCHANGED vars \/ \E w \in writes : Land(w)
             \/ \E x \in Scopes : LiftStart(x) \/ LiftRow(x)
      PROVE  call' = call /\ counter'[id][s] = counter[id][s]
  <2>1. call' = call
    BY <1>8 DEF Update, Purge, Rules, createLimit, updateLimit, deleteLimit, Changed, Tick, vars,
                Land, LiftStart, LiftRow
  <2>2. CASE Purge
    <3>1. ~(s < now - CounterAge)
      BY <1>2, <1>3
    <3>2. QED
      BY <2>1, <2>2, <3>1 DEF Purge
  <2>3. CASE Rules
    <3>1. ASSUME NEW k \in Limits, deleteLimit(k) PROVE counter'[id][s] = counter[id][s]
      <4>1. k.id # id
        BY <3>1 DEF deleteLimit
      <4>2. QED
        BY <3>1, <4>1 DEF deleteLimit, TypeOK
    <3>2. QED
      BY <2>1, <2>3, <3>1 DEF Rules, createLimit, updateLimit
  <2>4. CASE ~Purge /\ ~Rules
    BY <1>8, <2>1, <2>4 DEF Update, Tick, vars, Land, LiftStart, LiftRow, registry
  <2>5. QED
    BY <2>2, <2>3, <2>4
<1>9. QED
  BY <1>5, <1>6, <1>7, <1>8 DEF Next, Registry

-----------------------------------------------------------------------------
(* The theorem.                                                            *)

\* Nothing is charged and nothing counted at the start.
LEMMA NothingCharged == Init => Bills /\ Windows
<1> SUFFICES ASSUME Init PROVE Bills /\ Windows
  OBVIOUS
<1>1. \A c \in Callers : call[c].uses = {} /\ call[c].paid = {}
  BY DEF Init, NoCall
<1>2. cache.rules = {} /\ load.rules = {}
  BY DEF Init, NoCache, NoLoad
<1>3. Bills
  BY <1>1, <1>2 DEF Bills, OneEach
<1>4. ASSUME NEW id \in Ids, NEW s \in Starts
      PROVE  Total(call, id, s) = {} /\ counter[id][s] = 0
  <2>1. \A tag : Units({}, tag, id, s) = {}
    BY DEF Units, Uses
  <2>2. \A c \in Callers : Part(call[c], c, id, s) = {}
    BY <1>1, <2>1 DEF Part
  <2>3. QED
    BY <2>2 DEF Total, Init
<1>5. Windows
  BY <1>4, FS_EmptySet DEF Windows
<1>6. QED
  BY <1>3, <1>5

\* A window counts exactly the calls that went out in it or are about to, for any
\* number of concurrent calls, give-backs, hand-overs and rule changes (TakeCounters,
\* GiveBackCounters); excepted are rules with a failed give-back or deleted meanwhile,
\* and windows old enough to purge.
THEOREM CountersExact == Spec => []CountsWhatGoesOut
<1>1. CallsInv /\ Bills /\ Windows /\ [Next]_vars => Bills' /\ Windows'
  BY BillsStep, WindowsStep DEF CallsInv
<1>2. Windows => CountsWhatGoesOut
  BY ChargedIsTotal DEF Windows, CountsWhatGoesOut
<1>3. QED
  BY <1>1, <1>2, NothingCharged, Always, PTL DEF Spec
=============================================================================
