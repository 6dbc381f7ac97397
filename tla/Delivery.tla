------------------------------ MODULE Delivery ------------------------------
(***************************************************************************)
(* From an update of the account to the webhooks subscribed to it.         *)
(*                                                                         *)
(* The worker holding the session filters updates against a snapshot of    *)
(* the subscriptions (reloaded every second), queues them in a bounded     *)
(* in-memory outbox, and writes one delivery row per matching              *)
(* subscription.  The dispatcher of the worker the registry names as owner *)
(* claims due rows and posts them, one goroutine ("round") per             *)
(* subscription.  One session is modelled; it is handed from worker to     *)
(* worker as Ownership details.                                            *)
(*                                                                         *)
(* Source: internal/session/subs.go, deliver.go, manager.go,               *)
(* internal/store/store.go.                                                *)
(***************************************************************************)
EXTENDS Integers, FiniteSets, Sequences

CONSTANTS
    Workers,      \* worker ids
    Subs,         \* subscription ids
    Updates,      \* the updates the account will receive
    None,         \* no worker, no chat, no update
    Ticker,       \* the one-second sync loop, as opposed to a create handler
    Filter,       \* Filter[s]: the stored filter, [readable, types, chats]
    Content,      \* Content[u]: the update, [type, chat, messageChat]
    OutboxCap,    \* capacity of the outbox channel
    MaxAttempts,  \* maxDeliveryAttempts
    MaxInflight,  \* maxInflightSubs
    PerSubBatch,  \* perSubBatch
    MaxFaults     \* how many faults of each kind the environment may inject

Kinds == {"handover", "crash", "error", "revoke", "delete"}

ASSUME DeliveryAssumption ==
    /\ IsFiniteSet(Workers) /\ IsFiniteSet(Subs) /\ IsFiniteSet(Updates)
    /\ None \notin Workers \cup Updates
    /\ Ticker \notin Subs
    /\ OutboxCap \in Nat /\ MaxAttempts \in Nat \ {0}
    /\ MaxInflight \in Nat \ {0} /\ PerSubBatch \in Nat \ {0}
    /\ MaxFaults \in [Kinds -> Nat]

VARIABLES
    \* the registry
    sub,      \* sub[s]: the subscription row, off when its token no longer covers it
    charged,  \* charged[s]: the dropped column
    row,      \* row[s][u]: the delivery row
    owner,    \* the session's worker_id
    \* the live session
    holder,   \* the worker whose live map has the session
    snap,     \* its subscription snapshot
    drop,     \* its count of lost updates not yet recorded
    load,     \* load[a]: the subscription sync running in a
    \* a worker's memory
    outbox,   \* outbox[w]: the queue of updates
    flush,    \* flush[w]: the count being recorded, and whether its session is still held
    busy,     \* busy[w]: the dispatcher's tick, with the subscriptions it found in flight
    inflight, \* inflight[w]: the subscriptions being posted to
    rounds,   \* rounds[w]: the posting goroutines
    \* the outside
    arrived,  \* the updates received from Telegram
    lost,     \* lost[s]: updates matched to s that were never queued for it
    tried,    \* tried[s][u]: how often u was posted to s
    got,      \* got[s][u]: how many of those posts were answered 2xx
    budget    \* budget[k]: faults of kind k still to come

registry == <<sub, charged, row, owner>>
session  == <<holder, snap, drop, load>>
worker   == <<outbox, flush, busy, inflight, rounds>>
outside  == <<arrived, lost, tried, got>>
vars     == <<sub, charged, row, owner, holder, snap, drop, load,
              outbox, flush, busy, inflight, rounds, arrived, lost, tried, got, budget>>

Rows   == [st : {"none", "pending", "delivered", "failed", "gone"}, att : Nat, due : BOOLEAN]
Items  == [u : Updates, subs : SUBSET Subs]
Rounds == [sub : Subs, todo : SUBSET Updates, att : [Updates -> Nat],
           now : Updates \cup {None}, at : {"post", "mark", "fail"}]
Loads  == [at : {"none", "begin", "loaded"}, subs : SUBSET Subs]
NoRow  == [st |-> "none", att |-> 0, due |-> FALSE]
NoLoad == [at |-> "none", subs |-> {}]
NoFlush == [n |-> 0, held |-> FALSE]

TypeOK ==
    /\ sub \in [Subs -> {"absent", "on", "off", "deleted"}]
    /\ charged \in [Subs -> Nat]
    /\ row \in [Subs -> [Updates -> Rows]]
    /\ owner \in Workers \cup {None}
    /\ holder \in Workers \cup {None}
    /\ snap \subseteq Subs
    /\ drop \in Nat
    /\ load \in [Subs \cup {Ticker} -> Loads]
    /\ outbox \in [Workers -> Seq(Items)]
    /\ \A w \in Workers : Len(outbox[w]) <= OutboxCap
    /\ flush \in [Workers -> [n : Nat, held : BOOLEAN]]
    /\ busy \in [Workers -> [tick : BOOLEAN, subs : SUBSET Subs]]
    /\ inflight \in [Workers -> SUBSET Subs]
    /\ rounds \in [Workers -> SUBSET Rounds]
    /\ arrived \subseteq Updates
    /\ lost \in [Subs -> SUBSET Updates]
    /\ tried \in [Subs -> [Updates -> Nat]]
    /\ got \in [Subs -> [Updates -> Nat]]
    /\ budget \in [Kinds -> Nat]

-----------------------------------------------------------------------------
(* Routing.                                                                *)

Existing == {s \in Subs : sub[s] \in {"on", "off"}}

\* An unreadable filter is skipped rather than widened into everything.
NewSnapshot(fs) == {s \in fs : Filter[s].readable}

\* An empty list is no restriction.
TypeMatches(s, u) == Filter[s].types = {} \/ Content[u].type \in Filter[s].types

\* An update's chat: its own chat_id, else that of the message it carries.
UpdateChat(u) ==
    IF Content[u].chat # None THEN Content[u].chat ELSE Content[u].messageChat

ChatMatches(s, u) ==
    Filter[s].chats = {} \/ (UpdateChat(u) # None /\ UpdateChat(u) \in Filter[s].chats)

\* Variant of Wants: a subscription without a type list is overlooked.
WantsListedTypes(sn, u) == Content[u].type \in UNION {Filter[s].types : s \in sn}

\* The receiver's pre-check, from the snapshot's anyType and union of types.
Wants(sn, u) ==
    \/ \E s \in sn : Filter[s].types = {}
    \/ Content[u].type \in UNION {Filter[s].types : s \in sn}

Route(sn, u) == {s \in sn : TypeMatches(s, u) /\ ChatMatches(s, u)}

-----------------------------------------------------------------------------
(* A subscribed session held by one worker, nothing received yet; the      *)
(* subscriptions that are absent are created later.                        *)

Init ==
    /\ sub \in [Subs -> {"absent", "on"}]
    /\ charged = [s \in Subs |-> 0]
    /\ row = [s \in Subs |-> [u \in Updates |-> NoRow]]
    /\ owner \in Workers
    /\ holder = owner
    /\ snap = NewSnapshot(Existing)
    /\ drop = 0
    /\ load = [a \in Subs \cup {Ticker} |-> NoLoad]
    /\ outbox = [w \in Workers |-> <<>>]
    /\ flush = [w \in Workers |-> NoFlush]
    /\ busy = [w \in Workers |-> [tick |-> FALSE, subs |-> {}]]
    /\ inflight = [w \in Workers |-> {}]
    /\ rounds = [w \in Workers |-> {}]
    /\ arrived = {}
    /\ lost = [s \in Subs |-> {}]
    /\ tried = [s \in Subs |-> [u \in Updates |-> 0]]
    /\ got = [s \in Subs |-> [u \in Updates |-> 0]]
    /\ budget = MaxFaults

Spend(k) ==
    /\ budget[k] > 0
    /\ budget' = [budget EXCEPT ![k] = @ - 1]

Spent(k) == MaxFaults[k] - budget[k]

-----------------------------------------------------------------------------
(* Subscriptions and their snapshot.                                       *)

\* CreateSubscription; the handler then refreshes the snapshot if the session is
\* held where it runs.
CreateSubscription(s) ==
    /\ sub[s] = "absent"
    /\ sub' = [sub EXCEPT ![s] = "on"]
    /\ load' = [load EXCEPT ![s].at = IF holder # None THEN "begin" ELSE @]
    /\ UNCHANGED <<charged, row, owner, holder, snap, drop, worker, outside, budget>>

\* The subscription and, by cascade, its deliveries.
DeleteSubscription(s) ==
    /\ s \in Existing
    /\ Spend("delete")
    /\ sub' = [sub EXCEPT ![s] = "deleted"]
    /\ row' = [row EXCEPT ![s] = [u \in Updates |->
                 IF row[s][u].st = "none" THEN NoRow ELSE [NoRow EXCEPT !.st = "gone"]]]
    /\ UNCHANGED <<charged, owner, session, worker, outside>>

\* The subscription's token is disabled, or loses or regains the session.
ChangeToken(s) ==
    /\ s \in Existing
    /\ Spend("revoke")
    /\ sub' = [sub EXCEPT ![s] = IF @ = "on" THEN "off" ELSE "on"]
    /\ UNCHANGED <<charged, row, owner, session, worker, outside>>

\* syncSubscriptions reads the filters ...
LoadFilters(a) ==
    /\ holder # None
    /\ load[a].at = IF a = Ticker THEN "none" ELSE "begin"
    /\ load' = [load EXCEPT ![a] = [at |-> "loaded", subs |-> Existing]]
    /\ UNCHANGED <<registry, holder, snap, drop, worker, outside, budget>>

\* ... or fails to, and keeps the last good snapshot.
LoadFails(a) ==
    /\ load[a].at = "begin"
    /\ Spend("error")
    /\ load' = [load EXCEPT ![a] = NoLoad]
    /\ UNCHANGED <<registry, holder, snap, drop, worker, outside>>

\* Variant of ApplySnapshot: what was loaded is added to what was there.
ApplySnapshotMerges(a) ==
    /\ load[a].at = "loaded"
    /\ snap' = snap \cup NewSnapshot(load[a].subs)
    /\ load' = [load EXCEPT ![a] = NoLoad]
    /\ UNCHANGED <<registry, holder, drop, worker, outside, budget>>

\* ... and replaces the snapshot whole.
ApplySnapshot(a) ==
    /\ load[a].at = "loaded"
    /\ snap' = NewSnapshot(load[a].subs)
    /\ load' = [load EXCEPT ![a] = NoLoad]
    /\ UNCHANGED <<registry, holder, drop, worker, outside, budget>>

-----------------------------------------------------------------------------
(* The outbox.                                                             *)

\* updateHandler on the receiver goroutine.
UpdateSkipped(u) ==
    /\ ~Wants(snap, u)
    /\ UNCHANGED <<outbox, drop, lost>>

UpdateQueued(u) ==
    /\ Wants(snap, u)
    /\ Len(outbox[holder]) < OutboxCap
    /\ outbox' = [outbox EXCEPT ![holder] = Append(@, [u |-> u, subs |-> snap])]
    /\ UNCHANGED <<drop, lost>>

UpdateDropped(u) ==
    /\ Wants(snap, u)
    /\ Len(outbox[holder]) >= OutboxCap
    /\ drop' = drop + 1
    /\ lost' = [s \in Subs |-> IF s \in Route(snap, u) THEN lost[s] \cup {u} ELSE lost[s]]
    /\ UNCHANGED outbox

UpdateArrives(u) ==
    /\ holder # None
    /\ u \notin arrived
    /\ arrived' = arrived \cup {u}
    /\ UpdateSkipped(u) \/ UpdateQueued(u) \/ UpdateDropped(u)
    /\ UNCHANGED <<registry, holder, snap, load, flush, busy, inflight, rounds, tried, got, budget>>

\* EnqueueDeliveries: a row for each of the subscriptions that still exists.
Enqueue(ids, u) ==
    row' = [s \in Subs |->
              IF s \in ids \cap Existing
              THEN [row[s] EXCEPT ![u] = [st |-> "pending", att |-> 0, due |-> TRUE]]
              ELSE row[s]]

\* runOutboxWriter: the head of the queue goes to the subscriptions it matches.
WriteOutbox(w) ==
    /\ outbox[w] # <<>>
    /\ LET it == Head(outbox[w]) IN Enqueue(Route(it.subs, it.u), it.u)
    /\ outbox' = [outbox EXCEPT ![w] = Tail(@)]
    /\ UNCHANGED <<sub, charged, owner, session, flush, busy, inflight, rounds, outside, budget>>

\* A failed insert is as lost as a full queue; it is counted if the session is
\* still in the live map.
WriteFails(w) ==
    /\ outbox[w] # <<>>
    /\ Spend("error")
    /\ LET it  == Head(outbox[w])
           ids == Route(it.subs, it.u)
       IN /\ ids # {}
          /\ lost' = [s \in Subs |-> IF s \in ids THEN lost[s] \cup {it.u} ELSE lost[s]]
    /\ drop' = IF holder = w THEN drop + 1 ELSE drop
    /\ outbox' = [outbox EXCEPT ![w] = Tail(@)]
    /\ UNCHANGED <<registry, holder, snap, load, flush, busy, inflight, rounds, arrived, tried, got>>

\* flushDropped: the count is taken ...
FlushTake(w) ==
    /\ holder = w
    /\ drop > 0
    /\ flush[w].n = 0
    /\ flush' = [flush EXCEPT ![w] = [n |-> drop, held |-> TRUE]]
    /\ drop' = 0
    /\ UNCHANGED <<registry, holder, snap, load, outbox, busy, inflight, rounds, outside, budget>>

\* ... and charged to every subscription the session has,
AddDropped(w) ==
    /\ flush[w].n > 0
    /\ charged' = [s \in Subs |-> IF s \in Existing THEN charged[s] + flush[w].n ELSE charged[s]]
    /\ flush' = [flush EXCEPT ![w] = NoFlush]
    /\ UNCHANGED <<sub, row, owner, session, outbox, busy, inflight, rounds, outside, budget>>

\* Variant of AddDroppedFails: the count is not put back.
AddDroppedForgets(w) ==
    /\ flush[w].n > 0
    /\ Spend("error")
    /\ flush' = [flush EXCEPT ![w] = NoFlush]
    /\ UNCHANGED <<registry, session, outbox, busy, inflight, rounds, outside>>

\* ... or put back for the next round.
AddDroppedFails(w) ==
    /\ flush[w].n > 0
    /\ Spend("error")
    /\ drop' = IF flush[w].held THEN drop + flush[w].n ELSE drop
    /\ flush' = [flush EXCEPT ![w] = NoFlush]
    /\ UNCHANGED <<registry, holder, snap, load, outbox, busy, inflight, rounds, outside>>

-----------------------------------------------------------------------------
(* The dispatcher.                                                         *)

\* A tick with room looks at what is in flight ...
Tick(w) ==
    /\ ~busy[w].tick
    /\ Cardinality(inflight[w]) < MaxInflight
    /\ busy' = [busy EXCEPT ![w] = [tick |-> TRUE, subs |-> inflight[w]]]
    /\ UNCHANGED <<registry, session, outbox, flush, inflight, rounds, outside, budget>>

\* ClaimDeliveries: the due rows of a served subscription that is not busy.
Due(w, s) ==
    IF owner = w /\ sub[s] = "on" /\ s \notin busy[w].subs
    THEN {u \in Updates : row[s][u].st = "pending" /\ row[s][u].due} ELSE {}

Claimable(w) == {s \in Subs : Due(w, s) # {}}
\* The LIMIT of the batch may cut a subscription's share below perSub, never to
\* nothing.
Shares(w, s) == {us \in SUBSET Due(w, s) : us # {} /\ Cardinality(us) <= PerSubBatch}

StartRound(s, us) ==
    [sub |-> s, todo |-> us, att |-> [u \in Updates |-> row[s][u].att],
     now |-> None, at |-> "post"]

\* ... and starts a goroutine for each of the first free subscriptions.
ClaimDeliveries(w) ==
    /\ busy[w].tick
    /\ \E C \in SUBSET Claimable(w) :
         /\ LET free == MaxInflight - Cardinality(busy[w].subs)
                n    == Cardinality(Claimable(w))
            IN Cardinality(C) = IF n <= free THEN n ELSE free
         /\ \E share \in [C -> SUBSET Updates] :
              /\ \A s \in C : share[s] \in Shares(w, s)
              /\ rounds' = [rounds EXCEPT ![w] = @ \cup {StartRound(s, share[s]) : s \in C}]
         /\ inflight' = [inflight EXCEPT ![w] = @ \cup C]
    /\ busy' = [busy EXCEPT ![w] = [tick |-> FALSE, subs |-> {}]]
    /\ UNCHANGED <<registry, session, outbox, flush, outside, budget>>

ClaimFails(w) ==
    /\ busy[w].tick
    /\ Spend("error")
    /\ busy' = [busy EXCEPT ![w] = [tick |-> FALSE, subs |-> {}]]
    /\ UNCHANGED <<registry, session, outbox, flush, inflight, rounds, outside>>

-----------------------------------------------------------------------------
(* A round: deliverOne row by row, in no particular order.                 *)

InRound(w, r, at) == r \in rounds[w] /\ r.at = at

Become(w, r, q) == rounds' = [rounds EXCEPT ![w] = (@ \ {r}) \cup {q}]

EndRound(w, r) ==
    /\ rounds' = [rounds EXCEPT ![w] = @ \ {r}]
    /\ inflight' = [inflight EXCEPT ![w] = @ \ {r.sub}]

\* The receiver answers 2xx, or anything else: refused, timed out, undecryptable
\* secret.
Post(w, r, u, ok) ==
    /\ InRound(w, r, "post")
    /\ u \in r.todo
    /\ tried' = [tried EXCEPT ![r.sub][u] = @ + 1]
    /\ got' = [got EXCEPT ![r.sub][u] = IF ok THEN @ + 1 ELSE @]
    /\ Become(w, r, [r EXCEPT !.now = u, !.at = IF ok THEN "mark" ELSE "fail"])
    /\ UNCHANGED <<registry, session, outbox, flush, busy, inflight, arrived, lost, budget>>

Exists(s, u) == row[s][u].st \notin {"none", "gone"}

\* Variant of SetRow: an upsert.
UpsertRow(s, u, r) == row' = [row EXCEPT ![s][u] = r]

\* UPDATE ... WHERE id: nothing happens once the row is gone.
SetRow(s, u, r) == row' = [row EXCEPT ![s][u] = IF Exists(s, u) THEN r ELSE @]

\* Variant of NextRow: the row just handled is not taken off the list.
NextRowRepeats(w, r) == Become(w, r, [r EXCEPT !.now = None, !.at = "post"])

NextRow(w, r) == Become(w, r, [r EXCEPT !.todo = @ \ {r.now}, !.now = None, !.at = "post"])

MarkDelivered(w, r) ==
    /\ InRound(w, r, "mark")
    /\ LET old == row[r.sub][r.now]
       IN SetRow(r.sub, r.now, [st |-> "delivered", att |-> old.att + 1, due |-> old.due])
    /\ NextRow(w, r)
    /\ UNCHANGED <<sub, charged, owner, session, outbox, flush, busy, inflight, outside, budget>>

\* The error is dropped, the row stays due.
MarkFails(w, r) ==
    /\ InRound(w, r, "mark")
    /\ Spend("error")
    /\ NextRow(w, r)
    /\ UNCHANGED <<registry, session, outbox, flush, busy, inflight, outside>>

\* Variants of GiveUp: one attempt early, and one attempt late.
GiveUpEarly(r) == r.att[r.now] + 2 >= MaxAttempts
GiveUpLate(r)  == r.att[r.now] >= MaxAttempts

\* Judged by the attempts as they were when the row was claimed.
GiveUp(r) == r.att[r.now] + 1 >= MaxAttempts

\* The row after a failed attempt: given up, or rescheduled.
Failed(r, old) ==
    IF GiveUp(r)
    THEN [st |-> "failed", att |-> old.att + 1, due |-> old.due]
    ELSE [st |-> old.st, att |-> old.att + 1, due |-> FALSE]

\* A failure ends the round: the receiver is most likely down.
FailDelivery(w, r) ==
    /\ InRound(w, r, "fail")
    /\ SetRow(r.sub, r.now, Failed(r, row[r.sub][r.now]))
    /\ EndRound(w, r)
    /\ UNCHANGED <<sub, charged, owner, session, outbox, flush, busy, outside, budget>>

FailFails(w, r) ==
    /\ InRound(w, r, "fail")
    /\ Spend("error")
    /\ EndRound(w, r)
    /\ UNCHANGED <<registry, session, outbox, flush, busy, outside>>

\* Variant of RoundDone: the subscription stays marked in flight.
RoundDoneStaysBusy(w, r) ==
    /\ InRound(w, r, "post")
    /\ r.todo = {}
    /\ rounds' = [rounds EXCEPT ![w] = @ \ {r}]
    /\ UNCHANGED <<registry, session, outbox, flush, busy, inflight, outside, budget>>

RoundDone(w, r) ==
    /\ InRound(w, r, "post")
    /\ r.todo = {}
    /\ EndRound(w, r)
    /\ UNCHANGED <<registry, session, outbox, flush, busy, outside, budget>>

\* next_try_at passes.
BackoffOver(s, u) ==
    /\ row[s][u].st = "pending"
    /\ ~row[s][u].due
    /\ row' = [row EXCEPT ![s][u].due = TRUE]
    /\ UNCHANGED <<sub, charged, owner, session, worker, outside, budget>>

\* PurgeDeliveries removes any row after 24 hours, which a pending row reaches
\* only if it could not be sent all that time.
PurgeDelivery(s, u) ==
    /\ Exists(s, u)
    /\ row[s][u].st = "pending" => sub[s] # "on" \/ owner = None
    /\ row' = [row EXCEPT ![s][u] = [NoRow EXCEPT !.st = "gone"]]
    /\ UNCHANGED <<sub, charged, owner, session, worker, outside, budget>>

-----------------------------------------------------------------------------
(* The session moves (see Ownership).                                      *)

\* The live session goes, with its snapshot, its count and its running syncs.
DropLive ==
    /\ holder' = None
    /\ snap' = {}
    /\ drop' = 0
    /\ load' = [a \in Subs \cup {Ticker} |-> NoLoad]

\* shed: entry and ownership are given up, the process goes on.
Release(w) ==
    /\ holder = w
    /\ Spend("handover")
    /\ DropLive
    /\ owner' = None
    /\ flush' = [flush EXCEPT ![w].held = FALSE]
    /\ UNCHANGED <<sub, charged, row, outbox, busy, inflight, rounds, outside>>

\* The process dies with its outbox and its rounds, and is restarted.
Crash(w) ==
    /\ Spend("crash")
    /\ IF holder = w THEN DropLive ELSE UNCHANGED session
    /\ outbox' = [outbox EXCEPT ![w] = <<>>]
    /\ flush' = [flush EXCEPT ![w] = NoFlush]
    /\ busy' = [busy EXCEPT ![w] = [tick |-> FALSE, subs |-> {}]]
    /\ inflight' = [inflight EXCEPT ![w] = {}]
    /\ rounds' = [rounds EXCEPT ![w] = {}]
    /\ UNCHANGED <<registry, outside>>

\* A worker claims and rehydrates the session, subscriptions first.
Acquire(w) ==
    /\ holder = None
    /\ holder' = w
    /\ owner' = w
    /\ \/ snap' = NewSnapshot(Existing) /\ UNCHANGED budget
       \/ snap' = {} /\ Spend("error")
    /\ UNCHANGED <<sub, charged, row, drop, load, worker, outside>>

-----------------------------------------------------------------------------
Subscriptions ==
    \/ \E s \in Subs : CreateSubscription(s) \/ DeleteSubscription(s) \/ ChangeToken(s)
    \/ \E a \in Subs \cup {Ticker} : LoadFilters(a) \/ LoadFails(a) \/ ApplySnapshot(a)

Queue ==
    \/ \E u \in Updates : UpdateArrives(u)
    \/ \E w \in Workers :
          \/ WriteOutbox(w) \/ WriteFails(w)
          \/ FlushTake(w) \/ AddDropped(w) \/ AddDroppedFails(w)

RoundStep(w, r) ==
    \/ \E u \in Updates, ok \in BOOLEAN : Post(w, r, u, ok)
    \/ MarkDelivered(w, r) \/ FailDelivery(w, r) \/ RoundDone(w, r)

Dispatch ==
    \/ \E w \in Workers :
          \/ Tick(w) \/ ClaimDeliveries(w) \/ ClaimFails(w)
          \/ \E r \in rounds[w] : RoundStep(w, r) \/ MarkFails(w, r) \/ FailFails(w, r)
    \/ \E s \in Subs, u \in Updates : BackoffOver(s, u) \/ PurgeDelivery(s, u)

Move == \E w \in Workers : Release(w) \/ Crash(w) \/ Acquire(w)

Next == Subscriptions \/ Queue \/ Dispatch \/ Move

Spec == Init /\ [][Next]_vars

-----------------------------------------------------------------------------
(* What makes it correct.                                                  *)

\* A verdict is earned: a row is delivered only after a 2xx, and failed only
\* after maxDeliveryAttempts posts, whatever hand-overs and crashes let two
\* workers judge the same row (deliverOne, MarkDelivered, FailDelivery).
VerdictsEarned ==
    \A s \in Subs, u \in Updates :
       /\ row[s][u].st = "delivered" => got[s][u] > 0
       /\ row[s][u].st = "failed" => tried[s][u] >= MaxAttempts

\* A receiver that answered 2xx is sent the same delivery again only by another
\* worker that claimed it before the session moved, or after a registry write
\* failed or a process died in between (busy, the status filter of the claim).
CopiesBounded ==
    \A s \in Subs, u \in Updates :
       got[s][u] <= Cardinality(Workers) + Spent("error") + Spent("crash")

\* "Up to 10 attempts": while the session stays put, a row is posted no more
\* often than that, but for attempts the registry failed to record.
AttemptsBounded ==
    \A s \in Subs, u \in Updates : tried[s][u] <= MaxAttempts + Spent("error")

Recording(s) == charged[s] + drop + (IF holder = None THEN 0 ELSE flush[holder].n)

\* While the session stays put, every update lost before it was queued is in the
\* dropped count of each subscription it was meant for, or on its way there
\* (updateHandler, runOutboxWriter, flushDropped).
LossCounted ==
    \A s \in Existing : Cardinality(lost[s]) <= Recording(s)

\* The receiver's pre-check hides no update that a subscription of the snapshot
\* takes: what it skips, route would have sent to nobody (wants, route).
PreCheckCovers == \A u \in Updates : Route(snap, u) # {} => Wants(snap, u)

-----------------------------------------------------------------------------
(* Fairness: tickers fire, statements and posts return (deliveryTimeout),  *)
(* backoffs end, and an orphaned session finds a worker (FailsOver of      *)
(* Ownership).                                                             *)

Fairness ==
    /\ \A w \in Workers :
         /\ WF_vars(Tick(w)) /\ WF_vars(ClaimDeliveries(w)) /\ WF_vars(WriteOutbox(w))
         /\ \A s \in Subs : WF_vars(\E r \in rounds[w] : r.sub = s /\ RoundStep(w, r))
    /\ \A s \in Subs, u \in Updates : WF_vars(BackoffOver(s, u))
    /\ \A a \in Subs \cup {Ticker} : WF_vars(LoadFilters(a)) /\ WF_vars(ApplySnapshot(a))
    /\ WF_vars(\E w \in Workers : Acquire(w))

FairSpec == Spec /\ Fairness

\* Every queued delivery comes to an end while its subscription is served:
\* delivered, failed or purged (runOutboxDispatcher).
Resolves ==
    \A s \in Subs, u \in Updates :
       row[s][u].st = "pending" ~> (row[s][u].st # "pending" \/ sub[s] # "on")

\* Subscriptions created or removed anywhere reach the session's snapshot and
\* the snapshot settles on them (runSubscriptionSync, RefreshSubscriptions).
CatchesUp ==
    <>[](holder # None /\ (load[Ticker].at = "none" => snap = NewSnapshot(Existing)))

-----------------------------------------------------------------------------
\* What one delivery promises: see DeliveryContract.
Contract == INSTANCE DeliveryContract WITH
               phase <- [s \in Subs |-> [u \in Updates |-> row[s][u].st]]

\* While the session stays put, the rows implement the contract (EnqueueDeliveries,
\* MarkDelivered, FailDelivery, PurgeDeliveries, the cascade).
KeepsContract == Contract!Spec
=============================================================================
