------------------------------- MODULE Calls -------------------------------
(***************************************************************************)
(* What a td_api call goes through on a session before and after it        *)
(* reaches Telegram: cooldown, username resolve, spam limit, the           *)
(* operator's quotas, the write pace, the call itself with one retry, and  *)
(* what its answer teaches the guard.  Calls of several consumers,         *)
(* TDLib's updates, the operator and the registry writes, which go out on  *)
(* their own and land in any order, interleave at every step.              *)
(*                                                                         *)
(* Source: internal/session/manager.go (Call), internal/session/guard.go,  *)
(* internal/session/limits.go, internal/store/limits.go.                   *)
(***************************************************************************)
EXTENDS Quota, FiniteSets

CONSTANTS
    Session,       \* the session
    Kinds,         \* the kinds it may be of
    Callers,       \* calls, each made at most once
    Inputs,        \* what a call may ask for: [m, tok, named, n, local]
    Limits,        \* the rules the operator may create, or change a rule to
    FirstLimits,   \* the rules there are when the model starts
    Waits,         \* the flood waits Telegram imposes
    SpamWait,      \* spamLimitCooldown
    PaceInterval,  \* paceInterval
    MaxPaceWait,   \* maxPaceWait
    RuleRefresh,   \* ruleRefresh
    CounterAge,    \* how long PurgeCounters keeps a window
    MaxTime,       \* the clock's bound
    Budgets        \* how often Telegram refuses, the operator acts, ...: the
                   \* alternatives an instance starts from

Acts == {"answer", "update", "operator", "lift", "fault", "move"}
Resolver == "searchPublicChat"
Paced  == {"@send", "@join", "@invite", "@create", "@contacts"}
Scopes == {Scope(m) : m \in Methods} \cup {"spam_limit"}
Flags  == {"frozen", "premium"}
Ids    == {l.id : l \in Limits}
Times  == 1 .. MaxTime
Starts == {WindowStart(p, t) : p \in Pers, t \in Times}

ASSUME CallsAssumption ==
    /\ Resolver \in Methods /\ Scope(Resolver) = "@resolve" /\ "@send" \in Scopes
    /\ Kinds \subseteq {"user", "bot"}
    /\ Scopes \cap Flags = {} /\ Ids \cap (Scopes \cup Flags) = {}
    /\ \A l \in Limits : l.max \in Nat /\ l.per \in Pers
    /\ FirstLimits \subseteq Limits
    /\ \A k, l \in FirstLimits : k.id = l.id => k = l
    /\ \A i \in Inputs : i.m \in Methods /\ i.n \in Nat
    /\ Waits \subseteq Nat
    /\ SpamWait \in Nat /\ PaceInterval \in Nat /\ MaxPaceWait \in Nat
    /\ RuleRefresh \in Nat \ {0} /\ MaxTime \in Nat \ {0}
    /\ CounterAge \in Nat /\ \A p \in Pers : Length[p] < CounterAge
    /\ Budgets \subseteq [Acts -> Nat]

VARIABLES
    now,       \* the clock
    kind,      \* the session's kind
    \* the registry
    limits,    \* the rate_limit rows
    counter,   \* counter[id][start]: rate_counter.calls
    ends,      \* ends[scope]: cooldown.ends_at, 0 when there is no row
    dbFlag,    \* dbFlag[f]: is frozen_at set, is_premium
    \* the worker holding the session
    cache,     \* the ruleCache: rules, and when they were stored; lag is history, how
               \* long the read of them took
    load,      \* the call that holds the ruleCache's mutex over a ListLimits, what the
               \* statement saw, and since when
    cool,      \* cool[scope]: guard.cool, 0 when there is none
    flag,      \* flag[f]: guard.frozen, guard.premium
    next,      \* guard.next
    writes,    \* registry writes under way
    call,      \* call[c]
    lifting,   \* the scopes ClearCooldown has cleared in memory only
    \* history
    cap,       \* cap[id]: the highest max rule id has had
    changed,   \* when a rule was last created, changed or deleted
    broken,    \* what a failed or overtaken write, or a deleted rule, has left apart
    budget

registry == <<limits, counter, ends, dbFlag>>
ruleCache == <<cache, load>>
guard    == <<cool, flag, next>>
history  == <<cap, changed, broken>>
vars     == <<now, kind, limits, counter, ends, dbFlag, cache, load, cool, flag, next,
              writes, call, lifting, cap, changed, broken, budget>>

NoCall == [in |-> None, leg |-> "main", at |-> "none", uses |-> {}, paid |-> {},
           slot |-> 0, tried |-> FALSE]
Steps  == {"resolve", "admit", "rules", "take", "pace", "wait", "sent", "release",
           "leave", "refused", "canceled", "answered"}
UseSet == [id : Ids, start : Starts, n : Nat, max : Nat]
CallSet == [in : Inputs, leg : {"resolve", "main"}, at : Steps, uses : SUBSET UseSet,
            paid : SUBSET UseSet, slot : Nat, tried : BOOLEAN]
NoCache == [rules |-> {}, at |-> 0 - RuleRefresh, lag |-> 0]
NoLoad  == [by |-> None, rules |-> {}, since |-> 0]
CacheSet == [rules : SUBSET Limits, at : Int, lag : Int]
LoadSet == [by : Callers \cup {None}, rules : SUBSET Limits, since : Nat]
FlagValues == {"unknown", "no", "yes"}
WriteSet == [what : Scopes, value : Nat] \cup [what : Flags, value : FlagValues]

TypeOK ==
    /\ now \in Times /\ kind \in Kinds
    /\ limits \subseteq Limits
    /\ counter \in [Ids -> [Starts -> Nat]]
    /\ ends \in [Scopes -> Nat]
    /\ dbFlag \in [Flags -> FlagValues]
    /\ cache \in CacheSet
    /\ load \in LoadSet
    /\ cool \in [Scopes -> Nat]
    /\ flag \in [Flags -> FlagValues]
    /\ next \in Nat
    /\ writes \subseteq WriteSet
    /\ call \in [Callers -> CallSet \cup {NoCall}]
    /\ lifting \subseteq Scopes
    /\ cap \in [Ids -> Nat]
    /\ changed \in Nat
    /\ broken \subseteq Scopes \cup Flags \cup Ids
    /\ budget \in [Acts -> Nat]

-----------------------------------------------------------------------------
(* Helpers.                                                                *)

Spend(k) ==
    /\ budget[k] > 0
    /\ budget' = [budget EXCEPT ![k] = @ - 1]

Later(a, b) == IF a < b THEN b ELSE a

At(c, step)   == call' = [call EXCEPT ![c].at = step]
LegMethod(c)  == IF call[c].leg = "resolve" THEN Resolver ELSE call[c].in.m
LegScope(c)   == Scope(LegMethod(c))
Active(scope) == cool[scope] > now

\* Where an admitted leg goes: the write pace holds back user accounts only.
AfterQuota(c) == IF kind = "user" /\ LegScope(c) \in Paced THEN "pace" ELSE "sent"

-----------------------------------------------------------------------------
(* Up to the quota.                                                        *)

\* Call: the cooldown of the method's scope is checked before anything is spent.
Enter(c, in) ==
    /\ call[c] = NoCall
    /\ call' = [call EXCEPT ![c] =
          [NoCall EXCEPT !.in = in,
                         !.at = IF Active(Scope(in.m)) THEN "refused"
                                ELSE IF in.named THEN "resolve" ELSE "admit"]]
    /\ UNCHANGED <<now, kind, registry, ruleCache, guard, writes, lifting, history, budget>>

\* resolveChatUsername: a searchPublicChat with its own cooldown and admission.
Resolve(c) ==
    /\ call[c].at = "resolve"
    /\ call' = [call EXCEPT ![c].at  = IF Active("@resolve") THEN "refused" ELSE "rules",
                            ![c].leg = IF Active("@resolve") THEN "main" ELSE "resolve"]
    /\ UNCHANGED <<now, kind, registry, ruleCache, guard, writes, lifting, history, budget>>

\* spamBlocked: never an invite or an import; a send unless it goes to a group, to
\* the account itself or to a mutual contact, which getUser tells.
SpamBlocked(scope) ==
    IF scope \in {"@invite", "@contacts"} THEN {TRUE}
    ELSE IF scope = "@send" THEN BOOLEAN ELSE {FALSE}

Admit(c) ==
    /\ call[c].at = "admit"
    /\ \E blocked \in SpamBlocked(LegScope(c)) :
          At(c, IF kind = "user" /\ Active("spam_limit") /\ blocked THEN "refused" ELSE "rules")
    /\ UNCHANGED <<now, kind, registry, ruleCache, guard, writes, lifting, history, budget>>

\* What a call counts against some rules, in the windows of the moment.
Charges(c, rules) ==
    LET n(l) == IF call[c].leg = "resolve" THEN Count(l, Resolver, 0, FALSE)
                ELSE Count(l, call[c].in.m, call[c].in.n, call[c].in.local)
    IN  {[id |-> l.id, start |-> WindowStart(l.per, now), n |-> n(l), max |-> l.max] :
            l \in {k \in rules : n(k) > 0}}

Stale == now - cache.at >= RuleRefresh

\* limitRules: stale rules are read again, with the mutex held; every other call
\* waits for it.
ListLimits(c) ==
    /\ call[c].at = "rules" /\ load = NoLoad /\ Stale
    /\ load' = [by |-> c, rules |-> limits, since |-> now]
    /\ UNCHANGED <<now, kind, registry, cache, guard, writes, call, lifting, history, budget>>

\* The cached rules; what was read replaces them, stamped once the read has returned;
\* a failed read keeps the last ones.
limitRules(c) ==
    \/ load = NoLoad /\ ~Stale /\ UNCHANGED <<ruleCache, budget>>
    \/ /\ load.by = c
       /\ load' = NoLoad
       /\ \/ /\ cache' = [rules |-> load.rules, at |-> now, lag |-> now - load.since]
             /\ UNCHANGED budget
          \/ Spend("fault") /\ UNCHANGED cache

\* takeQuota up to the transaction.
TakeQuota(c) ==
    /\ call[c].at = "rules"
    /\ limitRules(c)
    /\ LET uses == Charges(c, InForce(cache'.rules, Session, kind, call[c].in.tok))
       IN  call' = [call EXCEPT ![c].uses = uses,
                                ![c].at   = IF uses = {} THEN AfterQuota(c) ELSE "take"]
    /\ UNCHANGED <<now, kind, registry, guard, writes, lifting, history>>

-----------------------------------------------------------------------------
(* TakeCounters: one transaction.                                          *)

Known(u) == \E l \in limits : l.id = u.id
\* Variant of Fits: the first call of a window is always taken.
FitsIfAny(u) == counter[u.id][u.start] = 0 \/ counter[u.id][u.start] + u.n <= u.max
Fits(u)  == counter[u.id][u.start] + u.n <= u.max

Counted(uses) ==
    [id \in Ids |-> [s \in Starts |->
        counter[id][s] + IF \E u \in uses : u.id = id /\ u.start = s
                         THEN (CHOOSE u \in uses : u.id = id /\ u.start = s).n ELSE 0]]

TakeCounters(c) ==
    /\ call[c].at = "take"
    /\ LET uses == call[c].uses
       IN  /\ \A u \in uses : Known(u) /\ Fits(u)
           /\ counter' = Counted(uses)
    /\ At(c, AfterQuota(c))
    /\ UNCHANGED <<now, kind, limits, ends, dbFlag, ruleCache, guard, writes, lifting, history, budget>>

\* Variant of Refuse: the rules before the full one keep their count.
RefuseLate(c) ==
    /\ call[c].at = "take"
    /\ LET uses == call[c].uses
       IN  /\ \E u \in uses : ~Fits(u)
           /\ counter' = Counted({u \in uses : Known(u) /\ Fits(u)})
    /\ call' = [call EXCEPT ![c].at = "refused", ![c].uses = {}]
    /\ UNCHANGED <<now, kind, limits, ends, dbFlag, ruleCache, guard, writes, lifting, history, budget>>

\* A rule that does not fit rolls everything back.
Refuse(c) ==
    /\ call[c].at = "take"
    /\ \E u \in call[c].uses : ~Fits(u)
    /\ call' = [call EXCEPT ![c].at = "refused", ![c].uses = {}]
    /\ UNCHANGED <<now, kind, registry, ruleCache, guard, writes, lifting, history, budget>>

\* The registry fails, or a rule is gone and its counter row cannot be inserted: the
\* call goes through uncounted.
TakeFails(c) ==
    /\ call[c].at = "take"
    /\ \/ (\E u \in call[c].uses : ~Known(u) /\ Fits(u)) /\ UNCHANGED budget
       \/ Spend("fault")
    /\ call' = [call EXCEPT ![c].at = AfterQuota(c), ![c].uses = {}]
    /\ UNCHANGED <<now, kind, registry, ruleCache, guard, writes, lifting, history>>

-----------------------------------------------------------------------------
(* The write pace.                                                         *)

\* Variant of reserve: a write that need not wait books nothing.
reserveIfWaiting(c) ==
    LET slot == Later(next, now)
    IN  IF slot - now > MaxPaceWait
        THEN At(c, "release") /\ UNCHANGED next
        ELSE /\ next' = IF slot = now THEN slot ELSE slot + PaceInterval
             /\ call' = [call EXCEPT ![c].slot = slot,
                                     ![c].at   = IF slot = now THEN "sent" ELSE "wait"]
\* The next slot is booked, or nothing when it is too far off.
reserve(c) ==
    LET slot == Later(next, now)
    IN  IF slot - now > MaxPaceWait
        THEN At(c, "release") /\ UNCHANGED next
        ELSE /\ next' = slot + PaceInterval
             /\ call' = [call EXCEPT ![c].slot = slot,
                                     ![c].at   = IF slot = now THEN "sent" ELSE "wait"]

Pace(c) ==
    /\ call[c].at = "pace"
    /\ reserve(c)
    /\ UNCHANGED <<now, kind, registry, ruleCache, cool, flag, writes, lifting, history, budget>>

\* The wait is over, or the caller is gone: its slot stays booked.
PaceEnds(c) ==
    /\ call[c].at = "wait"
    /\ \/ now >= call[c].slot /\ At(c, "sent")
       \/ At(c, "leave")
    /\ UNCHANGED <<now, kind, registry, ruleCache, guard, writes, lifting, history, budget>>

\* GREATEST(calls - n, 0), and nothing at all once the row is gone.
GiveBack(u) == [counter EXCEPT ![u.id][u.start] = IF @ < u.n THEN 0 ELSE @ - u.n]

\* GiveBackCounters: a statement per rule; a failed one ends it.
Release(c) ==
    /\ call[c].at \in {"release", "leave"}
    /\ LET result == IF call[c].at = "release" THEN "refused" ELSE "canceled"
       IN  \/ /\ call[c].uses = {}
              /\ At(c, result)
              /\ UNCHANGED <<counter, broken, budget>>
           \/ \E u \in call[c].uses :
                 /\ counter' = GiveBack(u)
                 /\ call' = [call EXCEPT ![c].uses = @ \ {u}]
                 /\ UNCHANGED <<broken, budget>>
           \/ /\ call[c].uses # {}
              /\ Spend("fault")
              /\ broken' = broken \cup {u.id : u \in call[c].uses}
              /\ call' = [call EXCEPT ![c].at = result, ![c].uses = {}]
              /\ UNCHANGED counter
    /\ UNCHANGED <<now, kind, limits, ends, dbFlag, ruleCache, guard, writes, lifting, cap, changed>>

-----------------------------------------------------------------------------
(* Telegram's answer, and what the guard learns from it.                   *)

InFlight(x) == \E w \in writes : w.what = x

\* A longer cooldown is recorded and its registry write sent off.
coolDown(scope, until) ==
    IF cool[scope] >= until THEN UNCHANGED <<cool, flag, writes, broken>>
    ELSE /\ cool' = [cool EXCEPT ![scope] = until]
         /\ writes' = writes \cup {[what |-> scope, value |-> until]}
         /\ UNCHANGED <<flag, broken>>

\* Variant of setFlag: a flag that is cleared is cleared in memory only.
setFlagYes(f, v, always) ==
    /\ flag' = [flag EXCEPT ![f] = v]
    /\ writes' = IF v = "yes" THEN writes \cup {[what |-> f, value |-> v]} ELSE writes
    /\ UNCHANGED <<cool, broken>>

\* A flag is written when it changes, or always (SetSessionFreeze).  Two writes of one
\* flag under way may land in either order: that is remembered in broken.
setFlag(f, v, always) ==
    /\ flag' = [flag EXCEPT ![f] = v]
    /\ IF flag[f] = v /\ ~always THEN UNCHANGED <<writes, broken>>
       ELSE /\ writes' = writes \cup {[what |-> f, value |-> v]}
            /\ broken' = IF InFlight(f) THEN broken \cup {f} ELSE broken
    /\ UNCHANGED cool

Outcomes == {"ok", "flood", "peer_flood", "frozen", "unresolved", "other"}

\* observe and signals: nothing is learned about a bot.
observe(scope, o) ==
    \/ kind = "user" /\ o = "ok" /\ scope \in Paced /\ setFlag("frozen", "no", FALSE)
    \/ kind = "user" /\ o = "flood" /\ \E d \in Waits : coolDown(scope, now + d)
    \/ kind = "user" /\ o = "peer_flood" /\ coolDown("spam_limit", now + SpamWait)
    \/ kind = "user" /\ o = "frozen" /\ setFlag("frozen", "yes", FALSE)
    \/ /\ \/ kind = "bot" \/ o \in {"unresolved", "other"}
          \/ o = "ok" /\ scope \notin Paced
       /\ UNCHANGED <<cool, flag, writes, broken>>

\* The call's answer.  An unresolved chat is loaded and the call made once more; a
\* resolve that went through lets the call go on to its own admission.
Answer(c, o) ==
    /\ call[c].at = "sent"
    /\ IF o = "ok" THEN UNCHANGED budget ELSE Spend("answer")
    /\ \/ /\ call[c].leg = "main" /\ o = "unresolved" /\ ~call[c].tried
          /\ call' = [call EXCEPT ![c].tried = TRUE]
          /\ UNCHANGED <<cool, flag, writes, broken>>
       \/ /\ observe(LegScope(c), o)
          /\ IF call[c].leg = "resolve" /\ o = "ok"
             THEN call' = [call EXCEPT ![c].leg = "main", ![c].at = "admit",
                                       ![c].paid = call[c].uses, ![c].uses = {}]
             ELSE At(c, "answered")
    /\ UNCHANGED <<now, kind, registry, ruleCache, next, lifting, cap, changed>>

\* What comes on the update stream: a send that failed after its call returned, the
\* account's freeze and its Premium option.
Update ==
    /\ Spend("update")
    /\ \/ \E o \in {"flood", "peer_flood", "frozen"} : observe("@send", o)
       \/ setFlag("frozen", "yes", TRUE)
       \/ setFlag("frozen", "no", FALSE)
       \/ \E v \in {"yes", "no"} : setFlag("premium", v, FALSE)
    /\ UNCHANGED <<now, kind, registry, ruleCache, next, call, lifting, cap, changed>>

-----------------------------------------------------------------------------
(* The registry's side.                                                    *)

\* Variant of SetCooldown: the last write wins.
SetCooldownLast(scope, until) == [ends EXCEPT ![scope] = until]
SetCooldown(scope, until) == [ends EXCEPT ![scope] = Later(@, until)]

\* A write of coolDown, setFrozen, noteFreeze or notePremium lands, or fails.
Land(w) ==
    /\ w \in writes
    /\ writes' = writes \ {w}
    /\ \/ /\ w.what \in Scopes
          /\ ends' = SetCooldown(w.what, w.value)
          /\ UNCHANGED <<dbFlag, broken, budget>>
       \/ /\ w.what \in Flags
          /\ dbFlag' = [dbFlag EXCEPT ![w.what] = w.value]
          /\ UNCHANGED <<ends, broken, budget>>
       \/ /\ Spend("fault")
          /\ broken' = broken \cup {w.what}
          /\ UNCHANGED <<ends, dbFlag>>
    /\ UNCHANGED <<now, kind, limits, counter, ruleCache, guard, call, lifting, cap, changed>>

\* ClearCooldown: the memory first, then the row.
LiftStart(s) ==
    /\ s \notin lifting
    /\ Spend("lift")
    /\ lifting' = lifting \cup {s}
    /\ cool' = [cool EXCEPT ![s] = 0]
    /\ UNCHANGED <<now, kind, registry, ruleCache, flag, next, writes, call, history>>

\* A cooldown that Telegram imposed meanwhile loses its row.
LiftRow(s) ==
    /\ s \in lifting
    /\ lifting' = lifting \ {s}
    /\ \/ /\ ends' = [ends EXCEPT ![s] = 0]
          /\ broken' = IF Active(s) /\ ~\E w \in writes : w.what = s /\ w.value >= cool[s]
                       THEN broken \cup {s} ELSE broken
          /\ UNCHANGED budget
       \/ Spend("fault") /\ UNCHANGED <<ends, broken>>
    /\ UNCHANGED <<now, kind, limits, counter, dbFlag, ruleCache, guard, writes, call, cap, changed>>

\* purgeOnce, as far as cooldowns and counters go.
Purge ==
    /\ ends' = [s \in Scopes |-> IF ends[s] < now THEN 0 ELSE ends[s]]
    /\ counter' = [id \in Ids |-> [s \in Starts |->
                     IF s < now - CounterAge THEN 0 ELSE counter[id][s]]]
    /\ UNCHANGED <<now, kind, limits, dbFlag, ruleCache, guard, writes, call, lifting, history, budget>>

\* The session comes up on another worker, whose guard starts from the registry, or
\* empty when that fails.  Calls still under way meet a closed client.
Move ==
    /\ budget["move"] > 0
    /\ \E ok \in IF budget["fault"] > 0 THEN BOOLEAN ELSE {TRUE} :
          /\ budget' = [budget EXCEPT !["move"] = @ - 1, !["fault"] = IF ok THEN @ ELSE @ - 1]
          /\ cool' = [s \in Scopes |-> IF ok /\ ends[s] > now THEN ends[s] ELSE 0]
          /\ flag' = IF ok THEN dbFlag ELSE [f \in Flags |-> IF f = "frozen" THEN "no" ELSE "unknown"]
          /\ broken' = broken \cup {f \in Flags : InFlight(f) \/ ~ok}
    /\ next' = 0
    /\ cache' = NoCache /\ load' = NoLoad
    /\ call' = [c \in Callers |->
                  IF call[c].at \in {"resolve", "admit", "rules", "take", "pace", "wait", "sent"}
                  THEN [call[c] EXCEPT !.at = "answered", !.slot = 0,
                                       !.uses = IF call[c].at = "take" THEN {} ELSE @]
                  ELSE [call[c] EXCEPT !.slot = 0]]
    /\ UNCHANGED <<now, kind, registry, writes, lifting, cap, changed>>

-----------------------------------------------------------------------------
(* The operator's rules, on the gateway.                                   *)

Changed(ls) ==
    /\ Spend("operator")
    /\ limits' = ls
    /\ cap' = [id \in Ids |-> IF \E l \in ls : l.id = id
                              THEN Later(cap[id], (CHOOSE l \in ls : l.id = id).max) ELSE cap[id]]
    /\ changed' = now
    /\ UNCHANGED <<now, kind, ends, dbFlag, ruleCache, guard, writes, call, lifting>>

createLimit(l) ==
    /\ ~\E k \in limits : k.id = l.id
    /\ ValidTarget(l) /\ ValidLimit(l)
    /\ Changed(limits \cup {l})
    /\ UNCHANGED <<counter, broken>>

\* The level and the target stay.
updateLimit(k, l) ==
    /\ k \in limits /\ k # l /\ ValidLimit(l)
    /\ \A f \in {"id", "level", "kind", "session", "token"} : k[f] = l[f]
    /\ Changed((limits \ {k}) \cup {l})
    /\ UNCHANGED <<counter, broken>>

\* The rule's counters go with it.
deleteLimit(k) ==
    /\ k \in limits
    /\ Changed(limits \ {k})
    /\ counter' = [counter EXCEPT ![k.id] = [s \in Starts |-> 0]]
    /\ broken' = broken \cup {k.id}

Tick ==
    /\ now < MaxTime
    /\ now' = now + 1
    /\ UNCHANGED <<kind, registry, ruleCache, guard, writes, call, lifting, history, budget>>

-----------------------------------------------------------------------------
Init ==
    /\ now = 1 /\ kind \in Kinds
    /\ limits = FirstLimits
    /\ counter = [id \in Ids |-> [s \in Starts |-> 0]]
    /\ ends = [s \in Scopes |-> 0]
    /\ dbFlag = [f \in Flags |-> IF f = "frozen" THEN "no" ELSE "unknown"]
    /\ cache = NoCache /\ load = NoLoad
    /\ cool = [s \in Scopes |-> 0]
    /\ flag = dbFlag
    /\ next = 0
    /\ writes = {}
    /\ call = [c \in Callers |-> NoCall]
    /\ lifting = {}
    /\ cap = [id \in Ids |-> IF \E l \in FirstLimits : l.id = id
                             THEN (CHOOSE l \in FirstLimits : l.id = id).max ELSE 0]
    /\ changed = 0
    /\ broken = {}
    /\ budget \in Budgets

Step(c) == \/ Resolve(c) \/ Admit(c) \/ ListLimits(c) \/ TakeQuota(c) \/ TakeCounters(c) \/ Refuse(c)
           \/ TakeFails(c) \/ Pace(c) \/ PaceEnds(c) \/ Release(c)
           \/ \E o \in Outcomes : Answer(c, o)
Registry == \/ \E w \in writes : Land(w)
            \/ \E s \in Scopes : LiftStart(s) \/ LiftRow(s)
            \/ Purge \/ Move
Rules == \/ \E l \in Limits : createLimit(l) \/ deleteLimit(l)
         \/ \E k, l \in Limits : updateLimit(k, l)

Next == \/ \E c \in Callers : Step(c) \/ \E in \in Inputs : Enter(c, in)
        \/ Update \/ Registry \/ Rules \/ Tick

Spec == Init /\ [][Next]_vars

-----------------------------------------------------------------------------
(* Properties.                                                             *)

\* No window counts more calls than the highest max its rule has had, whatever calls
\* take and give back concurrently and however stale the rules a worker enforces
\* (TakeCounters).
QuotaKept == \A id \in Ids, s \in Starts : counter[id][s] <= cap[id]

\* The calls a window is charged for: those on their way with the count taken, and
\* those that went out.
Charged(id, s) ==
    LET units(uses, tag) == UNION {{<<tag, i>> : i \in 1 .. u.n} :
                                      u \in {v \in uses : v.id = id /\ v.start = s}}
    IN  UNION {units(call[c].paid, <<c, "resolve">>)
               \cup IF call[c].at = "take" THEN {} ELSE units(call[c].uses, <<c, "main">>) :
                 c \in Callers}

\* A window counts exactly the calls that went out in it or are about to: a call is
\* counted by all its rules or none, and one refused or given up on is given back in
\* full.  Excepted are rules with a failed give-back or deleted meanwhile, and windows
\* old enough to purge.
CountsWhatGoesOut ==
    \A id \in Ids \ broken, s \in Starts :
        s >= now - CounterAge => counter[id][s] = Cardinality(Charged(id, s))

\* A call the guard refuses has spent nothing of any rule (README "A refused call, for
\* any reason, spends nothing"; guard.go "A call it refuses spends no quota").
RefusedSpendsNothing ==
    \A c \in Callers : call[c].at = "refused" => call[c].uses = {} /\ call[c].paid = {}

\* The paced writes of a session are booked at least PaceInterval apart, and none is
\* made before its slot (reserve, and the wait in admit).
PacedApart ==
    /\ \A c, d \in Callers :
          (c # d /\ call[c].slot # 0 /\ call[d].slot # 0)
              => \/ call[c].slot + PaceInterval <= call[d].slot
                 \/ call[d].slot + PaceInterval <= call[c].slot
    /\ \A c \in Callers : call[c].at \in {"sent", "answered"} => call[c].slot <= now

\* A cooldown in force is in the registry with at least that end, or a write under way
\* will put it there, so it survives the session moving (coolDown, SetCooldown) - unless
\* a write failed or the operator lifted the scope at the same moment.
CooldownRecorded ==
    \A s \in Scopes \ broken :
        Active(s) => ends[s] >= cool[s] \/ \E w \in writes : w.what = s /\ w.value >= cool[s]

\* A flag the registry does not show yet is being written (setFrozen, noteFreeze,
\* notePremium), unless two writes of it overlapped or one failed.
FlagRecorded ==
    \A f \in Flags \ broken :
        flag[f] # dbFlag[f] => [what |-> f, value |-> flag[f]] \in writes

\* A change of the rules is enforced once RuleRefresh has passed since, and as long
\* again as the read of the rules in use took: a call is then charged to exactly the
\* rules the operator's table ranks highest for its caller (limitRules, Applicable).
\* The cache is stamped when the read returns, so a change that lands during the read
\* waits longer than the ruleRefresh its comment in limits.go names.
ChargesInForce ==
    [][\A c \in Callers :
         (call[c].at = "rules" /\ call'[c].at # "rules" /\ budget' = budget
             /\ now - changed >= RuleRefresh + cache'.lag)
           => call'[c].uses = Charges(c, Ruling(limits, Session, kind, call[c].in.tok))]_vars
=============================================================================
