----------------------------- MODULE Ownership -----------------------------
(***************************************************************************)
(* Which worker serves which Telegram session.                             *)
(*                                                                         *)
(* Workers share one Postgres registry (a session row names its owner, a   *)
(* worker row carries a heartbeat) and one data volume (a session's TDLib  *)
(* database, guarded by a file lock, the "binlog lock").  Every 3 seconds  *)
(* each worker runs one reconcile pass: expire abandoned logins, fence,    *)
(* adopt, balance (shed or claim).  Every registry statement and every     *)
(* TDLib call of the pass is a step of its own here; request handlers,     *)
(* heartbeats, peers and crashes interleave between them.                  *)
(*                                                                         *)
(* Source: internal/session/manager.go, internal/store/store.go.           *)
(***************************************************************************)
EXTENDS Integers, FiniteSets

CONSTANTS
    Workers,      \* worker ids; a restarted worker keeps its id (WORKER_ID)
    Sessions,     \* session ids
    Hosted,       \* the sessions already authorized when the model starts
    None,         \* the NULL of worker_id, and "no session"
    Capacity,     \* entries a worker takes in its live map before it stops claiming
    ShedPerTick,  \* shedPerTick
    ClaimBatch,   \* claimBatch
    Budgets       \* how many faults of each kind the environment may inject: the
                  \* alternatives an instance starts from

Kinds == {"crash", "shutdown", "lapse", "error", "delete"}

ASSUME ConstantsAssumption ==
    /\ IsFiniteSet(Workers)
    /\ IsFiniteSet(Sessions)
    /\ Hosted \subseteq Sessions
    /\ None \notin Workers \cup Sessions
    /\ Capacity \in Nat /\ ShedPerTick \in Nat /\ ClaimBatch \in Nat
    /\ Budgets \subseteq [Kinds -> Nat]

VARIABLES
    \* the registry
    row,     \* row[s]: the status column, or absent / deleted when there is no row
    owner,   \* owner[s]: the worker_id column
    path,    \* the sessions whose db_dir column is set
    alive,   \* the workers whose last_seen_at is within the staleness window
    \* the data volume and the TDLib instances on it
    dir,     \* the sessions whose database directory exists
    inst,    \* inst[w][s]: worker w's TDLib instance on the directory of s
    \* a worker's memory
    proc,    \* proc[w]: the process, and how far Manager.Shutdown has come
    live,    \* live[w][s]: the live-map entry
    retry,   \* retry[w]: the sessions in open-backoff
    shut,    \* shut[w]: the clients Shutdown snapshotted to close
    \* the reconcile pass of a worker
    pc,      \* pc[w]: where the pass stands
    cut,     \* cut[w]: the workers not alive at the pass's cutoff
    todo,    \* todo[w]: the rows of the current loop still to be processed
    cur,     \* cur[w]: the session the pass is opening, or closing to shed
    lim,     \* lim[w]: the LIMIT of the coming ClaimOrphans
    \* request handlers
    create,  \* create[s]: the CreateUser or CreateBot handler still writing the row of s
    del,     \* del[s]: the DeleteSession handler running for s
    \* the environment
    budget,  \* budget[k]: faults of kind k still to come
    unowned  \* history: the sessions created by a SetSessionOwner that failed

registry == <<row, owner, path>>
handlers == <<create, del, unowned>>
memory   == <<proc, live, retry, shut>>
pass     == <<pc, cut, todo, cur, lim>>
vars     == <<row, owner, path, alive, dir, inst, proc, live, retry, shut,
              pc, cut, todo, cur, lim, create, del, budget, unowned>>

Statuses == {"absent", "connecting", "authorized", "expired", "error", "deleted"}
Procs    == {"up", "stopping", "closed", "released", "left", "down"}
Entries  == {"none", "login", "failed", "opening", "ready"}
Insts    == {"none", "opening", "open", "closing"}
Steps    == {"idle", "fence", "fencing", "adopt", "adopting", "balance",
             "claim", "claiming", "shedding"}
NoCreate == [by |-> None, at |-> "none"]
Creates  == [by : Workers, at : {"path", "owner", "login"}]
NoDelete == [by |-> None, at |-> "none"]
Deletes  == [by : Workers, at : {"await", "close", "drop", "row", "dir"}]

TypeOK ==
    /\ row \in [Sessions -> Statuses]
    /\ owner \in [Sessions -> Workers \cup {None}]
    /\ path \subseteq Sessions
    /\ alive \subseteq Workers
    /\ dir \subseteq Sessions
    /\ inst \in [Workers -> [Sessions -> Insts]]
    /\ proc \in [Workers -> Procs]
    /\ live \in [Workers -> [Sessions -> Entries]]
    /\ retry \in [Workers -> SUBSET Sessions]
    /\ shut \in [Workers -> SUBSET Sessions]
    /\ pc \in [Workers -> Steps]
    /\ cut \in [Workers -> SUBSET Workers]
    /\ todo \in [Workers -> SUBSET Sessions]
    /\ cur \in [Workers -> Sessions \cup {None}]
    /\ lim \in [Workers -> Nat]
    /\ create \in [Sessions -> Creates \cup {NoCreate}]
    /\ del \in [Sessions -> Deletes \cup {NoDelete}]
    /\ budget \in [Kinds -> Nat]
    /\ unowned \subseteq Sessions

-----------------------------------------------------------------------------
(* Helpers.                                                                *)

Smaller(a, b) == IF a <= b THEN a ELSE b

Spend(k) ==
    /\ budget[k] > 0
    /\ budget' = [budget EXCEPT ![k] = @ - 1]

Exists(s)     == row[s] \notin {"absent", "deleted"}
Authorized    == {s \in Sessions : row[s] = "authorized"}
OwnedBy(w)    == {s \in Authorized : owner[s] = w}
LockHeld(s)   == \E v \in Workers : inst[v][s] # "none"
HeldN(w)      == Cardinality({s \in Sessions : live[w][s] # "none"})
ReadyAt(w)    == {s \in Sessions : live[w][s] = "ready"}
Running(w)    == proc[w] # "down"

\* UPDATE session SET status=... WHERE id: a no-op once the row is gone.
SetStatus(s, st) == [row EXCEPT ![s] = IF Exists(s) THEN st ELSE @]
SetOwner(s, w)   == [owner EXCEPT ![s] = IF Exists(s) THEN w ELSE @]

\* put and delete on the live map.
Put(w, s, e) == [live EXCEPT ![w][s] = e]

\* Variant of SeenNow: a pass judges liveness by what it saw at its start.
SeenFromNextPass(w) ==
    /\ alive' = alive \cup {w}
    /\ UNCHANGED cut

\* last_seen_at=now(): past everybody's cutoff.
SeenNow(w) ==
    /\ alive' = alive \cup {w}
    /\ cut' = [u \in Workers |-> cut[u] \ {w}]

\* The registry's view from the cutoff of w's pass.
LiveWorkers(w) == Workers \ cut[w]
\* Variants of Orphans: without the liveness test, and without the dead owners.
OrphansOfAnyone(w)   == {s \in Authorized \cap path : owner[s] # w}
OrphansWithoutOwner(w) == {s \in Authorized \cap path : owner[s] = None}
Orphans(w) == {s \in Authorized : /\ s \in path
                                  /\ owner[s] = None \/ owner[s] \in cut[w]}
ListOwned(w) == {s \in OwnedBy(w) : s \in path}
ForeignOwned(w) == {s \in Sessions : /\ live[w][s] # "none"
                                     /\ Exists(s)
                                     /\ owner[s] \in LiveWorkers(w) \ {w}}
\* ExpireStaleLogins: login rows nobody can complete, their owner is gone.  The
\* grace covers a session in the middle of being created.
StaleLogins == {s \in Sessions : /\ row[s] = "connecting"
                                 /\ owner[s] \notin alive
                                 /\ create[s] = NoCreate}

-----------------------------------------------------------------------------
(* The fleet starts: the hosted sessions were authorized by an earlier     *)
(* deployment and released, no worker has opened anything yet.             *)

Init ==
    /\ row = [s \in Sessions |-> IF s \in Hosted THEN "authorized" ELSE "absent"]
    /\ owner = [s \in Sessions |-> None]
    /\ path = Hosted
    /\ alive = Workers
    /\ dir = Hosted
    /\ inst = [w \in Workers |-> [s \in Sessions |-> "none"]]
    /\ proc = [w \in Workers |-> "up"]
    /\ live = [w \in Workers |-> [s \in Sessions |-> "none"]]
    /\ retry = [w \in Workers |-> {}]
    /\ shut = [w \in Workers |-> {}]
    /\ pc = [w \in Workers |-> "idle"]
    /\ cut = [w \in Workers |-> {}]
    /\ todo = [w \in Workers |-> {}]
    /\ cur = [w \in Workers |-> None]
    /\ lim = [w \in Workers |-> 0]
    /\ create = [s \in Sessions |-> NoCreate]
    /\ del = [s \in Sessions |-> NoDelete]
    /\ budget \in Budgets
    /\ unowned = {}

-----------------------------------------------------------------------------
(* Heartbeats and the clock.                                               *)

\* RegisterWorker from the heartbeat ticker.
Beat(w) ==
    /\ proc[w] = "up"
    /\ w \notin alive \/ \E u \in Workers : w \in cut[u]
    /\ SeenNow(w)
    /\ UNCHANGED <<registry, dir, inst, memory, pc, todo, cur, lim, handlers, budget>>

\* 30 seconds pass without a heartbeat: always so for a dead process, and a
\* fault for one that is merely paused or cut off from the registry.
GoStale(w) ==
    /\ w \in alive
    /\ \/ proc[w] = "down" /\ UNCHANGED budget
       \/ proc[w] = "up" /\ Spend("lapse")
    /\ alive' = alive \ {w}
    /\ UNCHANGED <<registry, dir, inst, memory, pass, handlers>>

\* A session's open-backoff runs out.
RetryReady(w, s) ==
    /\ s \in retry[w]
    /\ retry' = [retry EXCEPT ![w] = @ \ {s}]
    /\ UNCHANGED <<registry, alive, dir, inst, proc, live, shut, pass, handlers, budget>>

\* TDLib finishes a close: the binlog lock is released.
Closed(w, s) ==
    /\ inst[w][s] = "closing"
    /\ inst' = [inst EXCEPT ![w][s] = "none"]
    /\ UNCHANGED <<registry, alive, dir, memory, pass, handlers, budget>>

-----------------------------------------------------------------------------
(* The reconcile pass.                                                     *)

\* The pass moves to step q with the rows t to loop over.
Goto(w, q, t) ==
    /\ pc' = [pc EXCEPT ![w] = q]
    /\ todo' = [todo EXCEPT ![w] = t]

\* The pass is between two statements: nothing is being opened or closed.
At(w, q) ==
    /\ Running(w)
    /\ pc[w] = q
    /\ cur[w] = None

EndPass(w) ==
    /\ Goto(w, "idle", {})
    /\ cut' = [cut EXCEPT ![w] = {}]

\* A pass takes its cutoff and (0) reaps the abandoned logins: those older than
\* staleLoginGrace, which the model does not time.
ReconcileStart(w) ==
    /\ At(w, "idle")
    /\ proc[w] = "up"
    /\ cut' = [cut EXCEPT ![w] = Workers \ alive]
    /\ Goto(w, "fence", {})
    /\ \E old \in SUBSET StaleLogins :
         row' = [s \in Sessions |-> IF s \in old THEN "expired" ELSE row[s]]
    /\ UNCHANGED <<owner, path, alive, dir, inst, memory, cur, lim, handlers, budget>>

\* (1) fencing: which of my entries does the registry give to a live peer?
FenceQuery(w) ==
    /\ At(w, "fence")
    /\ Goto(w, "fencing", ForeignOwned(w))
    /\ UNCHANGED <<registry, alive, dir, inst, memory, cut, cur, lim, handlers, budget>>

\* The active holder re-asserts ownership; an entry without a client is dropped.
FenceReassert(w, s) ==
    /\ At(w, "fencing")
    /\ s \in todo[w]
    /\ live[w][s] = "ready"
    /\ Goto(w, "fencing", todo[w] \ {s})
    /\ owner' = SetOwner(s, w)
    /\ UNCHANGED <<row, path, alive, dir, inst, memory, cut, cur, lim, handlers, budget>>

FenceDrop(w, s) ==
    /\ At(w, "fencing")
    /\ s \in todo[w]
    /\ live[w][s] # "ready"
    /\ Goto(w, "fencing", todo[w] \ {s})
    /\ live' = Put(w, s, "none")
    /\ UNCHANGED <<registry, alive, dir, inst, proc, retry, shut, cut, cur, lim, handlers, budget>>

FenceDone(w) ==
    /\ At(w, "fencing")
    /\ todo[w] = {}
    /\ Goto(w, "adopt", {})
    /\ UNCHANGED <<registry, alive, dir, inst, memory, cut, cur, lim, handlers, budget>>

\* (2) ListOwned: what the registry assigns to me.
AdoptQuery(w) ==
    /\ At(w, "adopt")
    /\ Goto(w, "adopting", ListOwned(w))
    /\ UNCHANGED <<registry, alive, dir, inst, memory, cut, cur, lim, handlers, budget>>

\* rehydrateOne up to NewClient: the half-live entry replaces what was there.
Hydrate(w, s) ==
    /\ cur' = [cur EXCEPT ![w] = s]
    /\ live' = Put(w, s, "opening")

\* An owned row is opened unless it is held already or in backoff.
AdoptSkips(w, s) == live[w][s] # "none" \/ s \in retry[w]

AdoptOne(w, s) ==
    /\ At(w, "adopting")
    /\ s \in todo[w]
    /\ ~AdoptSkips(w, s)
    /\ Goto(w, "adopting", todo[w] \ {s})
    /\ Hydrate(w, s)
    /\ UNCHANGED <<registry, alive, dir, inst, proc, retry, shut, cut, lim, handlers, budget>>

AdoptDone(w) ==
    /\ At(w, "adopting")
    /\ todo[w] = {}
    /\ Goto(w, "balance", {})
    /\ UNCHANGED <<registry, alive, dir, inst, memory, cut, cur, lim, handlers, budget>>

\* (3) balance: WorkerLoad and the decision.
Mine(w)  == Cardinality(OwnedBy(w))
Share(w) ==
    LET total == Cardinality(Authorized)
        n     == Cardinality(LiveWorkers(w))
        liveN == IF n < 1 THEN 1 ELSE n
    IN (total + liveN - 1) \div liveN

ClaimLimit(w) ==
    Smaller(Smaller(Share(w) - Mine(w), ClaimBatch), Capacity - HeldN(w))

\* shed picks up to n entries with a client, in map order.
ShedPicks(w) ==
    LET n == Smaller(Mine(w) - Share(w), ShedPerTick)
    IN {ids \in SUBSET ReadyAt(w) :
          Cardinality(ids) = Smaller(n, Cardinality(ReadyAt(w)))}

MayClaim(w) == Mine(w) < Share(w) /\ HeldN(w) < Capacity /\ ClaimLimit(w) > 0

BalanceShed(w) ==
    /\ At(w, "balance")
    /\ Mine(w) > Share(w)
    /\ \E ids \in ShedPicks(w) : Goto(w, "shedding", ids)
    /\ UNCHANGED <<registry, alive, dir, inst, memory, cut, cur, lim, handlers, budget>>

BalanceClaim(w) ==
    /\ At(w, "balance")
    /\ MayClaim(w)
    /\ lim' = [lim EXCEPT ![w] = ClaimLimit(w)]
    /\ Goto(w, "claim", {})
    /\ UNCHANGED <<registry, alive, dir, inst, memory, cut, cur, handlers, budget>>

Balanced(w) ==
    /\ At(w, "balance")
    /\ ~(Mine(w) > Share(w)) /\ ~MayClaim(w)
    /\ EndPass(w)
    /\ UNCHANGED <<registry, alive, dir, inst, memory, cur, lim, handlers, budget>>

\* One UPDATE: up to lim orphans become mine.  Which ones (ORDER BY updated_at)
\* is left open.
ClaimOrphans(w) ==
    /\ At(w, "claim")
    /\ \E got \in SUBSET Orphans(w) :
         /\ Cardinality(got) = Smaller(lim[w], Cardinality(Orphans(w)))
         /\ owner' = [s \in Sessions |-> IF s \in got THEN w ELSE owner[s]]
         /\ Goto(w, "claiming", got)
    /\ lim' = [lim EXCEPT ![w] = 0]
    /\ UNCHANGED <<row, path, alive, dir, inst, memory, cut, cur, handlers, budget>>

\* A claimed row is opened unless it is in backoff.
ClaimSkips(w, s) == s \in retry[w]

ClaimOne(w, s) ==
    /\ At(w, "claiming")
    /\ s \in todo[w]
    /\ ~ClaimSkips(w, s)
    /\ Goto(w, "claiming", todo[w] \ {s})
    /\ Hydrate(w, s)
    /\ UNCHANGED <<registry, alive, dir, inst, proc, retry, shut, cut, lim, handlers, budget>>

\* The loops' continue.
SkipOne(w, s) ==
    /\ \/ At(w, "adopting") /\ AdoptSkips(w, s)
       \/ At(w, "claiming") /\ ClaimSkips(w, s)
    /\ s \in todo[w]
    /\ Goto(w, pc[w], todo[w] \ {s})
    /\ UNCHANGED <<registry, alive, dir, inst, memory, cut, cur, lim, handlers, budget>>

\* Variant of ShedClose: the client is left running.
ShedWithoutClose(w, s) ==
    /\ At(w, "shedding")
    /\ s \in todo[w]
    /\ Goto(w, "shedding", todo[w] \ {s})
    /\ cur' = [cur EXCEPT ![w] = s]
    /\ UNCHANGED <<registry, alive, dir, inst, memory, cut, lim, handlers, budget>>

\* shed, first half: the client is told to close.
ShedClose(w, s) ==
    /\ At(w, "shedding")
    /\ s \in todo[w]
    /\ Goto(w, "shedding", todo[w] \ {s})
    /\ cur' = [cur EXCEPT ![w] = s]
    /\ inst' = [inst EXCEPT ![w][s] =
                  IF live[w][s] = "ready" /\ @ = "open" THEN "closing" ELSE @]
    /\ UNCHANGED <<registry, alive, dir, memory, cut, lim, handlers, budget>>

\* Variant of ShedRelease: the entry stays in the live map.
ShedReleaseKeepsEntry(w) ==
    /\ Running(w)
    /\ pc[w] = "shedding"
    /\ cur[w] # None
    /\ owner' = SetOwner(cur[w], None)
    /\ cur' = [cur EXCEPT ![w] = None]
    /\ UNCHANGED <<row, path, alive, dir, inst, memory, pc, cut, todo, lim, handlers, budget>>

\* shed, second half: the entry is dropped and the row released, whoever owns it.
ShedRelease(w) ==
    /\ Running(w)
    /\ pc[w] = "shedding"
    /\ cur[w] # None
    /\ live' = Put(w, cur[w], "none")
    /\ owner' = SetOwner(cur[w], None)
    /\ cur' = [cur EXCEPT ![w] = None]
    /\ UNCHANGED <<row, path, alive, dir, inst, proc, retry, shut, pc, cut, todo, lim, handlers, budget>>

ShedReleaseFails(w) ==
    /\ Running(w)
    /\ pc[w] = "shedding"
    /\ cur[w] # None
    /\ Spend("error")
    /\ live' = Put(w, cur[w], "none")
    /\ cur' = [cur EXCEPT ![w] = None]
    /\ UNCHANGED <<registry, alive, dir, inst, proc, retry, shut, pc, cut, todo, lim, handlers>>

PassDone(w) ==
    /\ At(w, "claiming") \/ At(w, "shedding")
    /\ todo[w] = {}
    /\ EndPass(w)
    /\ UNCHANGED <<registry, alive, dir, inst, memory, cur, lim, handlers, budget>>

\* A registry statement of the pass fails: a failed fence or adopt query skips
\* its loop, a failed load or claim ends the pass.
QueryFails(w, q, next) ==
    /\ At(w, q)
    /\ Spend("error")
    /\ Goto(w, next, {})
    /\ UNCHANGED <<registry, alive, dir, inst, memory, cut, cur, lim, handlers>>

BalanceFails(w) ==
    /\ At(w, "balance") \/ At(w, "claim")
    /\ Spend("error")
    /\ EndPass(w)
    /\ lim' = [lim EXCEPT ![w] = 0]
    /\ UNCHANGED <<registry, alive, dir, inst, memory, cur, handlers>>

\* One row of a loop is skipped: a re-assert that failed, or an app, proxy or key
\* that could not be read, before anything is put in the map.
RowFails(w, s) ==
    /\ At(w, "fencing") \/ At(w, "adopting") \/ At(w, "claiming")
    /\ s \in todo[w]
    /\ Spend("error")
    /\ Goto(w, pc[w], todo[w] \ {s})
    /\ UNCHANGED <<registry, alive, dir, inst, memory, cut, cur, lim, handlers>>

-----------------------------------------------------------------------------
(* rehydrateOne from NewClient on.                                         *)

Opening(w, s) ==
    /\ Running(w)
    /\ pc[w] \in {"adopting", "claiming"}
    /\ cur[w] = s

\* The failing NewClient's clean-up: the half-live entry goes.
HydrateFails(w, s) ==
    /\ live' = Put(w, s, "none")
    /\ cur' = [cur EXCEPT ![w] = None]

\* TDLib takes the binlog lock of the directory.
OpenLock(w, s) ==
    /\ Opening(w, s)
    /\ ~LockHeld(s)
    /\ s \in dir
    /\ inst' = [inst EXCEPT ![w][s] = "opening"]
    /\ UNCHANGED <<registry, alive, dir, memory, pass, handlers, budget>>

\* The directory is gone: TDLib starts an empty database, which asks for a
\* phone number, and that is an expired session to a rehydrate.
OpenMissing(w, s) ==
    /\ Opening(w, s)
    /\ ~LockHeld(s)
    /\ s \notin dir
    /\ HydrateFails(w, s)
    /\ inst' = [inst EXCEPT ![w][s] = "closing"]
    /\ retry' = [retry EXCEPT ![w] = @ \ {s}]
    /\ row' = SetStatus(s, "expired")
    /\ UNCHANGED <<owner, path, alive, dir, proc, shut, pc, cut, todo, lim, handlers, budget>>

\* The lock is taken, by a peer or by another instance of this very process:
\* ownership is kept, the open is retried after a backoff.
OpenLocked(w, s) ==
    /\ Opening(w, s)
    /\ inst[w][s] # "opening"
    /\ LockHeld(s)
    /\ HydrateFails(w, s)
    /\ retry' = [retry EXCEPT ![w] = @ \cup {s}]
    /\ UNCHANGED <<registry, alive, dir, inst, proc, shut, pc, cut, todo, lim, handlers, budget>>

\* NewClient fails for another passing reason (network, proxy).
OpenFails(w, s) ==
    /\ Opening(w, s)
    /\ inst[w][s] = "opening"
    /\ Spend("error")
    /\ HydrateFails(w, s)
    /\ inst' = [inst EXCEPT ![w][s] = "closing"]
    /\ retry' = [retry EXCEPT ![w] = @ \cup {s}]
    /\ UNCHANGED <<registry, alive, dir, proc, shut, pc, cut, todo, lim, handlers>>

\* The database no longer authorizes: terminal.
OpenExpired(w, s) ==
    /\ Opening(w, s)
    /\ inst[w][s] = "opening"
    /\ Spend("error")
    /\ HydrateFails(w, s)
    /\ inst' = [inst EXCEPT ![w][s] = "closing"]
    /\ retry' = [retry EXCEPT ![w] = @ \ {s}]
    /\ row' = SetStatus(s, "expired")
    /\ UNCHANGED <<owner, path, alive, dir, proc, shut, pc, cut, todo, lim, handlers>>

\* setClient: if the entry was removed meanwhile, the client hangs on an entry
\* nobody can reach.
OpenReady(w, s) ==
    /\ Opening(w, s)
    /\ inst[w][s] = "opening"
    /\ inst' = [inst EXCEPT ![w][s] = "open"]
    /\ live' = [live EXCEPT ![w][s] = IF @ = "opening" THEN "ready" ELSE @]
    /\ retry' = [retry EXCEPT ![w] = @ \ {s}]
    /\ cur' = [cur EXCEPT ![w] = None]
    /\ row' = SetStatus(s, "authorized")
    /\ UNCHANGED <<owner, path, alive, dir, proc, shut, pc, cut, todo, lim, handlers, budget>>

-----------------------------------------------------------------------------
(* Logins, in the detail ownership needs (Login has the rest).  A session  *)
(* is created on the least loaded live worker.                             *)

Load(w)       == Cardinality(OwnedBy(w))
PickWorker(w) == w \in alive /\ \A v \in alive : Load(w) <= Load(v)

Creating(w, s, st) == Running(w) /\ create[s] = [by |-> w, at |-> st]
CreateStep(s, w, st) == create' = [create EXCEPT ![s] = [by |-> w, at |-> st]]

\* CreateUser and CreateBot write the row in three statements.  The INSERT leaves
\* worker_id and db_dir NULL; a failure of it ends the request with nothing done.
CreateSession(w, s) ==
    /\ row[s] = "absent"
    /\ proc[w] = "up"
    /\ PickWorker(w)
    /\ row' = [row EXCEPT ![s] = "connecting"]
    /\ CreateStep(s, w, "path")
    /\ UNCHANGED <<owner, path, alive, dir, inst, memory, pass, del, budget, unowned>>

\* The errors of the other two are discarded.
SetSessionDBDir(w, s) ==
    /\ Creating(w, s, "path")
    /\ \/ path' = (IF Exists(s) THEN path \cup {s} ELSE path) /\ UNCHANGED budget
       \/ Spend("error") /\ UNCHANGED path
    /\ CreateStep(s, w, "owner")
    /\ UNCHANGED <<row, owner, alive, dir, inst, memory, pass, del, unowned>>

SetSessionOwner(w, s) ==
    /\ Creating(w, s, "owner")
    /\ \/ owner' = SetOwner(s, w) /\ UNCHANGED <<budget, unowned>>
       \/ Spend("error") /\ unowned' = unowned \cup {s} /\ UNCHANGED owner
    /\ CreateStep(s, w, "login")
    /\ UNCHANGED <<row, path, alive, dir, inst, memory, pass, del>>

\* put, then NewClient in a goroutine, which makes the directory.
StartLogin(w, s) ==
    /\ Creating(w, s, "login")
    /\ create' = [create EXCEPT ![s] = NoCreate]
    /\ dir' = dir \cup {s}
    /\ live' = Put(w, s, "login")
    /\ inst' = [inst EXCEPT ![w][s] = "opening"]
    /\ UNCHANGED <<registry, alive, proc, retry, shut, pass, del, budget, unowned>>

LoggingIn(w, s) ==
    /\ Running(w)
    /\ inst[w][s] = "opening"
    /\ cur[w] # s

\* The last input was accepted: setClient.
LoginReady(w, s) ==
    /\ LoggingIn(w, s)
    /\ inst' = [inst EXCEPT ![w][s] = "open"]
    /\ live' = [live EXCEPT ![w][s] = IF @ = "login" THEN "ready" ELSE @]
    /\ row' = SetStatus(s, "authorized")
    /\ UNCHANGED <<owner, path, alive, dir, proc, retry, shut, pass, handlers, budget>>

\* failLogin, on a fatal error or an abort: TDLib's instance unwinds, the entry
\* stays in the map without a client.
LoginFails(w, s) ==
    /\ LoggingIn(w, s)
    /\ inst' = [inst EXCEPT ![w][s] = "closing"]
    /\ live' = [live EXCEPT ![w][s] = IF @ = "login" THEN "failed" ELSE @]
    /\ row' = SetStatus(s, "error")
    /\ UNCHANGED <<owner, path, alive, dir, proc, retry, shut, pass, handlers, budget>>

-----------------------------------------------------------------------------
(* DeleteSession: the gateway asks the live owner, or any live worker.     *)

DeleteTarget(s) ==
    IF owner[s] \in alive THEN {owner[s]} ELSE {w \in Workers : PickWorker(w)}

DeleteStep(s, w, st) == del' = [del EXCEPT ![s] = [by |-> w, at |-> st]]

\* m.get decides: no entry, nothing to close; a login is aborted first.
DeleteStart(w, s) ==
    /\ Exists(s)
    /\ del[s] = NoDelete
    /\ w \in DeleteTarget(s)
    /\ proc[w] = "up"
    /\ Spend("delete")
    /\ \/ live[w][s] = "none" /\ DeleteStep(s, w, "row")
          /\ retry' = [retry EXCEPT ![w] = @ \ {s}]
       \/ live[w][s] = "login" /\ DeleteStep(s, w, "await") /\ UNCHANGED retry
       \/ live[w][s] \notin {"none", "login"} /\ DeleteStep(s, w, "close") /\ UNCHANGED retry
    /\ UNCHANGED <<registry, alive, dir, inst, proc, live, shut, pass, create, unowned>>

\* abortLogin, then awaitLogin: until the login has unwound, or loginAbortWait.
DeleteAwait(w, s) ==
    /\ Running(w)
    /\ del[s] = [by |-> w, at |-> "await"]
    /\ \/ inst[w][s] # "opening" /\ UNCHANGED budget
       \/ inst[w][s] = "opening" /\ Spend("error")
    /\ DeleteStep(s, w, "close")
    /\ UNCHANGED <<registry, alive, dir, inst, memory, pass, create, unowned>>

\* The entry's client is closed: a usable one, or the one a login that did not
\* unwind in time has stashed.
DeleteClose(w, s) ==
    /\ Running(w)
    /\ del[s] = [by |-> w, at |-> "close"]
    /\ \/ inst' = [inst EXCEPT ![w][s] =
                     IF live[w][s] = "ready" /\ @ = "open" THEN "closing" ELSE @]
       \/ /\ live[w][s] = "login" /\ inst[w][s] = "opening"
          /\ inst' = [inst EXCEPT ![w][s] = "closing"]
    /\ DeleteStep(s, w, "drop")
    /\ UNCHANGED <<registry, alive, dir, memory, pass, budget, create, unowned>>

\* Variant of DeleteDrop: the entry stays in the live map.
DeleteKeepsEntry(w, s) ==
    /\ Running(w)
    /\ del[s] = [by |-> w, at |-> "drop"]
    /\ retry' = [retry EXCEPT ![w] = @ \ {s}]
    /\ DeleteStep(s, w, "row")
    /\ UNCHANGED <<registry, alive, dir, inst, proc, live, shut, pass, budget, create, unowned>>

DeleteDrop(w, s) ==
    /\ Running(w)
    /\ del[s] = [by |-> w, at |-> "drop"]
    /\ live' = Put(w, s, "none")
    /\ retry' = [retry EXCEPT ![w] = @ \ {s}]
    /\ DeleteStep(s, w, "row")
    /\ UNCHANGED <<registry, alive, dir, inst, proc, shut, pass, budget, create, unowned>>

\* A row without a db_dir leaves nothing to remove; a failed statement ends the
\* request with the entry gone and the row kept.
DeleteRow(w, s) ==
    /\ Running(w)
    /\ del[s] = [by |-> w, at |-> "row"]
    /\ row' = [row EXCEPT ![s] = "deleted"]
    /\ owner' = [owner EXCEPT ![s] = None]
    /\ path' = path \ {s}
    /\ IF s \in path THEN DeleteStep(s, w, "dir")
                     ELSE del' = [del EXCEPT ![s] = NoDelete]
    /\ UNCHANGED <<alive, dir, inst, memory, pass, budget, create, unowned>>

DeleteRowFails(w, s) ==
    /\ Running(w)
    /\ del[s] = [by |-> w, at |-> "row"]
    /\ Spend("error")
    /\ del' = [del EXCEPT ![s] = NoDelete]
    /\ UNCHANGED <<registry, alive, dir, inst, memory, pass, create, unowned>>

DeleteDir(w, s) ==
    /\ Running(w)
    /\ del[s] = [by |-> w, at |-> "dir"]
    /\ dir' = dir \ {s}
    /\ del' = [del EXCEPT ![s] = NoDelete]
    /\ UNCHANGED <<registry, alive, inst, memory, pass, budget, create, unowned>>

-----------------------------------------------------------------------------
(* Shutdown, crash, restart.                                               *)

\* stopping=true and the snapshot of clients; the pending logins are aborted.
ShutdownStart(w) ==
    /\ proc[w] = "up"
    /\ Spend("shutdown")
    /\ proc' = [proc EXCEPT ![w] = "stopping"]
    /\ shut' = [shut EXCEPT ![w] = ReadyAt(w)]
    /\ UNCHANGED <<registry, alive, dir, inst, live, retry, pass, handlers>>

\* The aborted logins have unwound (or loginAbortWait is over), the
\* snapshotted clients are told to close.
ShutdownClose(w) ==
    /\ proc[w] = "stopping"
    /\ \/ (\A s \in Sessions : live[w][s] = "login" => inst[w][s] # "opening") /\ UNCHANGED budget
       \/ (\E s \in Sessions : live[w][s] = "login" /\ inst[w][s] = "opening") /\ Spend("error")
    /\ proc' = [proc EXCEPT ![w] = "closed"]
    /\ inst' = [inst EXCEPT ![w] = [s \in Sessions |->
                  IF s \in shut[w] /\ @[s] = "open" THEN "closing" ELSE @[s]]]
    /\ shut' = [shut EXCEPT ![w] = {}]
    /\ UNCHANGED <<registry, alive, dir, live, retry, pass, handlers>>

\* A release or a deregistration that fails is logged and passed over.
ReleaseSessions(w) ==
    /\ proc[w] = "closed"
    /\ proc' = [proc EXCEPT ![w] = "released"]
    /\ \/ /\ owner' = [s \in Sessions |-> IF s \in OwnedBy(w) THEN None ELSE owner[s]]
          /\ UNCHANGED budget
       \/ Spend("error") /\ UNCHANGED owner
    /\ UNCHANGED <<row, path, alive, dir, inst, live, retry, shut, pass, handlers>>

DeregisterWorker(w) ==
    /\ proc[w] = "released"
    /\ proc' = [proc EXCEPT ![w] = "left"]
    /\ \/ /\ alive' = alive \ {w}
          /\ cut' = [u \in Workers |-> IF pc[u] = "idle" THEN cut[u] ELSE cut[u] \cup {w}]
          /\ UNCHANGED budget
       \/ Spend("error") /\ UNCHANGED <<alive, cut>>
    /\ UNCHANGED <<registry, dir, inst, live, retry, shut, pc, todo, cur, lim, handlers>>

\* The process ends: its memory and its TDLib instances (and locks) are gone,
\* and so are the requests it was serving.
ProcessEnds(w) ==
    /\ proc' = [proc EXCEPT ![w] = "down"]
    /\ live' = [live EXCEPT ![w] = [s \in Sessions |-> "none"]]
    /\ inst' = [inst EXCEPT ![w] = [s \in Sessions |-> "none"]]
    /\ retry' = [retry EXCEPT ![w] = {}]
    /\ shut' = [shut EXCEPT ![w] = {}]
    /\ EndPass(w)
    /\ cur' = [cur EXCEPT ![w] = None]
    /\ lim' = [lim EXCEPT ![w] = 0]
    /\ create' = [s \in Sessions |-> IF create[s].by = w THEN NoCreate ELSE create[s]]
    /\ del' = [s \in Sessions |-> IF del[s].by = w THEN NoDelete ELSE del[s]]
    /\ UNCHANGED <<registry, alive, dir, unowned>>

Exit(w) ==
    /\ proc[w] = "left"
    /\ ProcessEnds(w)
    /\ UNCHANGED budget

\* Also a Shutdown that ran out of its 15 seconds: the rest is skipped.
Crash(w) ==
    /\ Running(w)
    /\ Spend("crash")
    /\ ProcessEnds(w)

\* NewManager registers before the first pass.
Restart(w) ==
    /\ proc[w] = "down"
    /\ proc' = [proc EXCEPT ![w] = "up"]
    /\ SeenNow(w)
    /\ UNCHANGED <<registry, dir, inst, live, retry, shut, pc, todo, cur, lim, handlers, budget>>

-----------------------------------------------------------------------------
Reconcile(w) ==
    \/ ReconcileStart(w) \/ FenceQuery(w) \/ FenceDone(w)
    \/ AdoptQuery(w) \/ AdoptDone(w)
    \/ BalanceShed(w) \/ BalanceClaim(w) \/ Balanced(w) \/ ClaimOrphans(w)
    \/ ShedRelease(w) \/ PassDone(w)
    \/ \E s \in Sessions :
          \/ FenceReassert(w, s) \/ FenceDrop(w, s)
          \/ AdoptOne(w, s) \/ ClaimOne(w, s) \/ SkipOne(w, s) \/ ShedClose(w, s)

Open(w) ==
    \E s \in Sessions :
       \/ OpenLock(w, s) \/ OpenMissing(w, s) \/ OpenLocked(w, s)
       \/ OpenFails(w, s) \/ OpenExpired(w, s) \/ OpenReady(w, s)

Login(w) ==
    \E s \in Sessions :
       \/ CreateSession(w, s) \/ SetSessionDBDir(w, s) \/ SetSessionOwner(w, s)
       \/ StartLogin(w, s) \/ LoginReady(w, s) \/ LoginFails(w, s)

DeleteSession(w) ==
    \E s \in Sessions :
       \/ DeleteStart(w, s) \/ DeleteAwait(w, s) \/ DeleteClose(w, s)
       \/ DeleteDrop(w, s) \/ DeleteRow(w, s) \/ DeleteRowFails(w, s)
       \/ DeleteDir(w, s)

Shutdown(w) ==
    ShutdownStart(w) \/ ShutdownClose(w) \/ ReleaseSessions(w) \/ DeregisterWorker(w) \/ Exit(w)

Environment(w) ==
    \/ Beat(w) \/ GoStale(w) \/ Crash(w) \/ Restart(w)
    \/ QueryFails(w, "fence", "adopt") \/ QueryFails(w, "adopt", "balance")
    \/ BalanceFails(w) \/ ShedReleaseFails(w)
    \/ \E s \in Sessions : RowFails(w, s) \/ RetryReady(w, s) \/ Closed(w, s)

Next ==
    \E w \in Workers :
       \/ Reconcile(w) \/ Open(w) \/ Login(w) \/ DeleteSession(w)
       \/ Shutdown(w) \/ Environment(w)

Spec == Init /\ [][Next]_vars

-----------------------------------------------------------------------------
(* What makes it correct.                                                  *)

\* w answers calls for s: a running, registered process with a usable entry it
\* is not busy closing.
Serving(w, s) ==
    /\ proc[w] = "up"
    /\ live[w][s] = "ready"
    /\ ~(pc[w] = "shedding" /\ cur[w] = s)
    /\ del[s] # [by |-> w, at |-> "drop"]

\* No two workers ever serve the same account, whatever crashes, lapses and
\* deletions interleave with the hand-over (reconcile, shed, DeleteSession).
ServedOnce ==
    \A s \in Sessions : \A v, w \in Workers :
       Serving(v, s) /\ Serving(w, s) => v = w

\* An entry that claims to be usable really has an open TDLib instance behind
\* it: put, setClient, closeClient and delete never leave a ready entry on a
\* closed or missing client (rehydrateOne, shed, DeleteSession).
ReadyIsBacked ==
    \A w \in Workers, s \in Sessions : Serving(w, s) => inst[w][s] = "open"

\* While heartbeats keep up and nothing is deleted, the registry sends a
\* session's requests to the worker that holds it or is about to (claim, adopt,
\* shed and Shutdown keep worker_id and the live map together).  A session whose
\* create lost the error of SetSessionOwner is the exception, and the only one.
HolderOwns ==
    \A w \in Workers, s \in Sessions \ unowned :
       proc[w] = "up" /\ live[w][s] # "none" => owner[s] = w

\* While heartbeats keep up and nothing is deleted, no process keeps a TDLib
\* client (and its binlog lock) that no entry of its live map leads to.  The
\* sessions of a failed SetSessionOwner are excepted: their own worker claims them
\* and opens over the entry (the claim loop of reconcile does not look at it).
NoLeakedClient ==
    \A w \in Workers, s \in Sessions \ unowned :
       proc[w] = "up" /\ inst[w][s] = "open" => live[w][s] = "ready"

\* One step of HolderWins.
KeptByTheLiving ==
    \A s \in Sessions : owner[s] \in alive /\ owner'[s] # owner[s] =>
       \/ owner'[s] # None /\ live[owner'[s]][s] = "ready"
       \/ \E u \in Workers : pc[u] = "shedding" /\ cur[u] = s
       \/ proc[owner[s]] = "closed"
       \/ row'[s] = "deleted"

\* A worker whose heartbeat is fresh loses a session only to the worker that
\* holds the client, by a release, or to a deletion: a claim never takes from
\* the living, even on a cutoff taken long before (ClaimOrphans, fencing).
HolderWins == [][KeptByTheLiving]_vars

\* The active holder wins: while heartbeats keep up and nothing is deleted, only
\* its own shed takes a working client out of a worker's live map; no claim or
\* adoption replaces it, unless the create never recorded its owner (reconcile,
\* the comment on fencing).
ActiveHolderKept ==
    [][\A w \in Workers, s \in Sessions \ unowned :
         Serving(w, s) /\ proc'[w] = "up" => live'[w][s] = "ready"]_vars

\* The client DeleteSession closes is the one actually holding the session: when
\* it is done closing, no process is using the database it is about to remove.
DeleteClosesHolder ==
    [][\A s \in Sessions :
         s \in dir /\ s \notin dir' =>
            \A w \in Workers : inst[w][s] \notin {"opening", "open"}]_vars

-----------------------------------------------------------------------------
(* Fairness: tickers fire, statements return, TDLib closes what it was told *)
(* to close, and a worker that went down is not needed for progress.       *)

PassStep(w) == Reconcile(w) \/ Open(w)

Fairness ==
    \A w \in Workers :
       /\ WF_vars(PassStep(w))
       /\ WF_vars(Beat(w))
       /\ WF_vars(proc[w] = "down" /\ GoStale(w))
       /\ WF_vars(ShutdownClose(w) \/ ReleaseSessions(w) \/ DeregisterWorker(w) \/ Exit(w))
       /\ \A s \in Sessions : WF_vars(RetryReady(w, s)) /\ WF_vars(Closed(w, s))

FairSpec == Spec /\ Fairness

SomeoneUp == \E w \in Workers : proc[w] = "up"
Served(s) == \E w \in Workers : Serving(w, s) /\ owner[s] = w

\* The create of s recorded both its directory and its owner.
Recorded(s) == s \in path /\ s \notin unowned

\* Killing a worker, gracefully or not, fails its sessions over: as long as some
\* worker stays up, every authorized session whose create lost no error ends up
\* served by its registered owner and stays so (reconcile).
FailsOver ==
    <>[]SomeoneUp =>
       \A s \in Sessions : <>[](row[s] = "authorized" /\ Recorded(s) => Served(s))

\* Balancing settles: the fleet stops handing sessions around (shed, claim).
Settles == <>[][owner' = owner]_vars

=============================================================================
