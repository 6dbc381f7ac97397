# Verification of tg-control-api-server

TLA+ models of the session server, checked with TLC on small instances, and
theorems about them proved with TLAPS for every instance. Paths below are
relative to the repository; `M`, `S`, `D`, `U` stand for
`internal/session/manager.go`, `internal/store/store.go`,
`internal/session/deliver.go` and `internal/session/subs.go`.

## The system

A **gateway** authenticates requests and forwards each to the **worker** that
owns the session. Workers share a Postgres **registry** and a data volume. A
worker runs one TDLib instance per session it holds; the directory of a session
is guarded by TDLib's file lock (the binlog lock).

| Component | State | Operations | Hard about it |
|---|---|---|---|
| Ownership and fail-over (`M`, `S`) | session rows (status, `worker_id`), worker rows (`last_seen_at`); live map, open-backoff, stopping flag; TDLib instances | heartbeat, reconcile pass (expire logins, fence, adopt, shed or claim), rehydrate, Shutdown, crash, restart | a pass is a dozen statements interleaved with peers, handlers and shutdown; liveness is judged by an old cutoff |
| Deletion (`M` 1323) | the above and the directory | abort login, close, drop, delete row, remove directory | runs beside rehydrate, shed, login |
| Update delivery (`U`, `D`, `S`) | subscriptions, snapshot, outbox, delivery rows, rounds in flight, dropped counts | sync, receive, write, claim, post, mark, fail, purge, flush | rows are not marked when claimed; hand-over; writes that fail after a post |
| Interactive login (`M`, `authorizer.go`) | login state, code and password channels, attempt, cancel | create, submit, resend, abort, expire | submits, aborts and timeouts race TDLib's callbacks |
| Sends (`sends.go`, `uploads.go`) | send rows, outcome queue, directories by temporary id | register, resolve, record, purge | an outcome may overtake the call that made the send; temporary ids repeat; queue full |
| Uploads (`upload/store.go`, `router/files.go`) | upload directories and their ages | single shot, create, append, complete, abort, sweep | no lock between requests, or between them and the sweeps |
| Guard (`guard.go`) | cooldowns, flags, pace, in memory and in the registry | admit, observe, lift, load | asynchronous registry writes in any order; moves to another worker |
| Quotas (`quota.go`, `session/limits.go`, `store/limits.go`, `router/limits.go`) | rules, their cache, counters | rule selection, take, give back, create/update/delete a rule | all-or-none over several counters; stale rules |
| Tokens and access (`S`, `router.go`) | tokens, grants, subscriptions by owner | create, patch, delete, authenticate, list, subscribe, unsubscribe | a patch is several statements at READ COMMITTED; auth reads twice; a claimed batch is posted later |
| Migrations, secrets, downloads, raw calls, observability, wiring | - | - | I/O, cryptography or start-up code |

What makes them correct: a session is served by at most one worker and, as long
as some worker is up, by one eventually; registry and live map agree; no client
is leaked; every update a subscription takes is delivered, given up on after
the maximum of attempts, or counted as lost; a login costs one code, tells a
submitter its verdict and unwinds when aborted; quotas, pace and cooldowns hold
whatever overlaps; a token reaches what its scope covers and no more, and a patch
of its scope does what its lists say; a path given to a client leads to its whole file until the
send that uses it is confirmed, and the registry tells that send's outcome.

## Modules

| Module | Content |
|---|---|
| `Ownership` | registry, reconcile pass, creation, opening, shedding, login outcome, deletion, shutdown, crash, restart |
| `MCOwnership` | fault budgets of its runs |
| `OwnershipProofs` | its theorems |
| `Delivery` | subscriptions, snapshot, outbox, delivery rows, dispatcher, rounds, losses, hand-over |
| `DeliveryContract` | what one delivery promises; `Delivery` implements it while the session stays put |
| `MCDelivery` | filters, updates and fault budgets of its runs |
| `DeliveryProofs` | its theorems, and the proof that it implements the contract |
| `BoundsProofs` | its bounds on attempts, copies and uncounted losses; extends `DeliveryProofs` |
| `Login` | creating, submitting, resending, aborting, deleting logins of users and bots |
| `MCLogin`, `LoginProofs` | its instance and its theorems |
| `Quota` | the policy: what a rule covers, counts and replaces, and in which window |
| `Calls` | a td_api call through the guard and the quotas; extends `Quota` |
| `MCCalls`, `CallsProofs` | its instance and its theorems |
| `CounterProofs` | the counters agree with the calls; extends `CallsProofs` |
| `Uploads` | the upload store |
| `Sends` | sends and their outcomes; composes `Uploads` |
| `MCSends`, `SendsProofs` | its instance and its theorems |
| `Tokens` | tokens, their scope, the transaction of a patch, auth, subscriptions and their cascades |
| `MCTokens`, `TokensProofs` | its instance and its theorems |

`Ownership` and `Delivery` meet at the hand-over, `Ownership` and `Login` at the
outcome of a login: each keeps of the other only that (`LoginReady`,
`LoginFails`, `Release`, `Acquire`, `ExpireStaleLogin`), because their product is far beyond TLC.
`Calls` keeps a move of the session as one action (`Move`), `Sends` as `Crash`.
`Delivery` keeps of a token whether it covers the session, `Calls` whose rules a caller has;
`Tokens` has the scope itself and keeps of the rest that sessions come and go.
Definitions introduced as *variants* in the comments are plausible wrong versions of the definition
that follows; no specification uses them. They show that the properties can fail.

### Ownership

State and code: `row`, `owner`, `path` are the columns `status`, `worker_id` and `db_dir` (set or
NULL) of `session`; `alive` the
workers whose `last_seen_at` is younger than `workerStale`; `dir` and `inst` the
directories and TDLib instances; `live`, `retry`, `proc`, `shut` a manager's
live map (`login`, `failed`, `opening`, `ready`), backoff map, shutdown
progress and snapshot of clients to close; `pc`, `cut`, `todo`, `cur`, `lim` the
local variables of `reconcile`; `create` a running create handler, `del` a running
`DeleteSession`; `unowned` is history, the sessions whose `SetSessionOwner` failed.

Each registry statement and each TDLib call of the pass is one action, so
everything else interleaves between them: `ReconcileStart` (cutoff and
`ExpireStaleLogins`), `FenceQuery`, `FenceReassert`/`FenceDrop`, `AdoptQuery`,
`AdoptOne`, `BalanceShed`/`BalanceClaim`/`Balanced`, `ClaimOrphans`, `ClaimOne`,
`ShedClose`, `ShedRelease`, and for an open `OpenLock`, `OpenReady` or one of
the failures. `QueryFails`, `BalanceFails`, `RowFails`, `ShedReleaseFails` and
the failing disjuncts of `ReleaseSessions` and `DeregisterWorker` are the error
paths. A create is its three statements and the start of the login
(`CreateSession`, `SetSessionDBDir`, `SetSessionOwner`, `StartLogin`); the errors of the
second and third are discarded, as the code does. A deletion ends at `DeleteRowFails`
when its statement fails, and removes no directory when `db_dir` is NULL.

Abstractions:
- Time. A cutoff becomes the set `cut` of workers stale when it was taken; a
  heartbeat removes its worker from every `cut` (its `last_seen_at` is past any
  cutoff). Backoffs and closes end at some time (`RetryReady`, `Closed`).
- TDLib is external: `OpenLock`, `LockHeld`, `Closed` are modelled from how
  `rehydrateOne` and `closeClient` use it. A second open of a locked directory
  fails, in the same process too.
- A login is reduced to its outcome. `staleLoginGrace` is kept only as far as it spares
  a session in the middle of being created: any other login whose owner is gone may expire.
- The gateway's look-up of the owner and the start of a deletion are one step,
  and a session has one deletion at a time.
- ORDER BY in claims and map order in `shed` are left open.

### Delivery

State and code: `sub`, `charged`, `row`, `owner` are `update_subscription`
(with its `dropped` column and whether its token covers the session), the
delivery rows and the session's `worker_id`; `holder`, `snap`, `drop`, `load`
the live session's `subs` and `dropped` and its running syncs; `outbox`,
`flush`, `busy`, `inflight`, `rounds` a worker's memory. `lost`, `tried`, `got`
record what happened outside and are read by no action.

`UpdateArrives` is `updateHandler`, `WriteOutbox` the outbox writer,
`FlushTake`/`AddDropped` `flushDropped`, `Tick` and `ClaimDeliveries` one turn
of the dispatcher (the look at `inflight` and the query are separate steps),
`Post`, `MarkDelivered`, `FailDelivery` the steps of `deliverOne`. `*Fails` are
the error paths, where the code often drops the error.

Abstractions: one session; filters keep types, chats and readability; row order
within a round is open (the contract is unordered); `next_try_at` is the flag
`due`; a row is purged while pending only if it could not be sent, which the 24
hours of retention against less than an hour of retries justify; a token's
grants are one flag. `Release` and `Acquire` stand for the hand-over that
`Ownership` details.

### Login

State and code: `row`, `dir` are the status column and the directories; `td`,
`sends` TDLib's authorization state and the codes Telegram has sent; `held`,
`status`, `cl`, `logging` the live map and the fields of `liveSession`;
`attempt`, `slot`, `canceled`, `done` its channels (`attempt`, `codeCh` and
`passwordCh`, `cancel`, `loginDone`); `go`, `phoneSent`, `checking` the login
goroutine; `req`, `call`, `told`, `del` the requests, where `told` says which verdict a submit
got and of whose value. `ahead` is history: the submits whose value was still unchecked when
a submit armed its channel.

`CheckPending`, `CreateUser`, `CreateBot` and the `Bot*` steps are the create
handlers with a bot's 45-second wait and `failLogin`; `Handle*`, `TakeValue`,
`TakeCancel`, `CheckAnswered` are `authHandler.Handle` and `await`;
`NewClientReturns` to `AccountRead` the tail of the goroutine; `Submit`, `Arm`,
`Push`, `SubmitEnds` one `SubmitCode` or `SubmitPassword`; `Delete*`
`DeleteSession`. Every section under the session's mutex, channel operation,
statement and TDLib call is a step of its own.

Abstractions: TDLib and go-tdlib's `Authorize` are external, modelled from how
`authorizer.go` uses them; when somebody else closes the client, both ends of
`Authorize` are possible. Timers (45 s, `loginWait`, 10 s of `awaitLogin`) may
fire at any moment, the 10 s one at the price of a fault. `DeleteAwait` waits until the
login has unwound or that timer fires. The discarded errors of `SetSessionDBDir` and
`SetSessionOwner` are `Ownership`'s. Codes and passwords are the request that brought them.
`codeInfo` and `lastErr` (what a view shows) are left out.

### Quota and Calls

`Quota` is pure: `Matches`, `Count`, `WindowStart`, `Applicable`, `ValidLimit`
are the functions of those names; `Ruling` is the reference definition of which
rules count, in one sentence: of the rules of one signature that bear on a
call, those of the highest rank.

State and code of `Calls`: `limits`, `counter`, `ends`, `dbFlag` are the tables
`rate_limit`, `rate_counter`, `cooldown` and two columns of `session`; `cache`, `load`,
`cool`, `flag`, `next` the rule cache with its read under way and the guard; `writes` the registry
writes sent off by `coolDown`, `setFrozen`, `noteFreeze`, `notePremium`; `call`
the calls under way, with what they have taken.

A call runs `Enter`, `Resolve` (a `searchPublicChat` leg of its own), `Admit`,
`TakeQuota` (with `ListLimits` before it when the cache is stale), then `TakeCounters`, `Refuse` or `TakeFails`, `Pace`, `PaceEnds`,
`Answer`, and `Release` when it is refused or given up on. `Land` lets a write
arrive, in any order. `LiftStart`/`LiftRow` are `ClearCooldown`, `createLimit`,
`updateLimit`, `deleteLimit` the gateway's handlers, `Purge` the retention loop,
`Move` the load on another worker.

Abstractions: one session; one clock, with windows, waits and intervals of a
few ticks; a transaction is one step; texts of errors are their classes.

### Uploads and Sends

`Uploads`: `stage`, `length`, `file`, `there`, `old` are a directory's metadata,
its bytes and its age; `doomed` what a sweep has looked at and not yet removed;
`handed` the paths clients were told; `app` the chunk requests. A file is the sequence of
its bytes, byte *i* of the client's file being *i*, so that a hole, a shift or
an overlap shows. `AppendChecks`, `AppendReads`, `AppendWrites` are the three
steps of `Append`; a failed write leaves any prefix.

`Sends`: `td` and `news` are the messages in TDLib and the outcomes on its update stream;
`pending`, `queue`, `call` the worker's `pendingUploads`, `sends` channel and calls
between the answer and their end; `row` the table `sent_message`. `Send`,
`trackUpload`, `registerSends`, `updateHandler`, `runSendWriter`, `PurgeSends`
are the functions of those names, `Crash` what memory loses.

Abstractions: messages carry no content; names, the path check of
`guardLocalPaths` and size limits beyond `MaxTotal` are left out; an id of an
upload is never reused (it is random).

### Tokens

State and code: `tok` and `row` are the tables `api_token`, `api_token_app` and
`api_token_session`, `sess` the sessions that have a row, `sub` the rows of
`update_subscription`, named by the request that made them; `tx` the transaction
of a PATCH; `req` the requests. A grant in `row` carries the transaction that
inserted it, because two rows with equal columns, one removed and one inserted,
are two rows to a statement under way. `before`, `said` and `had` are history: the
grants when a patch began, the list last committed, and the requests whose token
had access at some moment since they arrived.

A request is `Arrive`, `ResolveToken` and `CheckScope` (the two reads of `auth`),
`ResolveSession`, then `Call`, `CreateSubscription`, `DeleteSubscription` or
`DeleteSession`; `RequestFails` is every error between. A patch is `UpdateToken` (the
UPDATE or the SELECT), then for each list `DeleteStarts`, `DeleteEnds` and one
`InsertGrant` per item, then `Commit`; `Rollback` may come at any point. `HasAccess` is
the reference definition of a token's scope, in the words of the README.

Postgres at READ COMMITTED is external, modelled by what the code relies on: a
statement sees what is committed when it starts (`seen`); a DELETE or INSERT waits for
transactions that have touched the same row and then skips rows that are gone; an
UPDATE holds its row (`Holds`); a foreign key's parent cannot go while an uncommitted
row refers to it (`Touched`); nothing shows before the commit. Deadlocks end in a
`Rollback`. Creating a token, and each deletion with its cascades, is one step: no
other statement depends on its parts.

Abstractions: a token is its id, so secrets and hashes are left out; an app is never
removed; the routes are a call, subscribing, unsubscribing and removing a session, the
others that only read being as the call; a session's deletion is its last
statement (`Ownership` has the rest).

## Runs

| Run | Shows |
|---|---|
| `fleet` | two workers, two sessions, a crash and two errors, those of a creation included: the registry names the holder (`HolderOwns`), no client is leaked (`NoLeakedClient`), never two servers of a session (`ServedOnce`), no claim or adoption replaces a working client (`ActiveHolderKept`); every authorized session whose row is complete ends up served (`FailsOver`) and balancing stops (`Settles`) |
| `teardown` | one session with shutdown, lapse, error and deletion: a usable entry has an open client (`ReadyIsBacked`), no claim takes from the living (`HolderWins`) |
| `steady` | the session stays put, with an error, a token change and a removal: bounded attempts (`AttemptsBounded`), counted losses (`LossCounted`), a pre-check that hides nothing (`PreCheckCovers`), final verdicts (`KeepsContract`, a refinement of `DeliveryContract`) |
| `moving` | hand-over, crash, error, removal: verdicts are earned (`VerdictsEarned`), bounded copies (`CopiesBounded`), every queued delivery ends (`Resolves`), the snapshot catches up (`CatchesUp`) |
| `login` | two logins of one phone, submits and deletions that overlap, a bot that times out, failing writes: one code per create and per resend (`EveryCodeAskedFor`), a checked value's verdict is lost or taken only by submits that overlap (`VerdictReachesSubmitter`), authorized means usable (`AuthorizedHasClient`), the row shows the status (`RowMirrorsStatus`), a deletion that aborted the login and had time to wait removes no directory in use (`AbortedIsGone`), an aborted login unwinds (`AbortUnwinds`) |
| `calls` | two calls of four kinds under three rules and a fourth that may be created, with floods, freezes, rule changes, lifts, errors and a move: no window exceeds its rule (`QuotaKept`), counters are exactly what goes out (`CountsWhatGoesOut`), writes are paced (`PacedApart`), cooldowns and flags reach the registry (`CooldownRecorded`, `FlagRecorded`), the rules applied are those the operator's table ranks highest, once the refresh interval and the last read's duration have passed since a change (`ChargesInForce`) |
| `sends` | an upload by either way, racing chunks, an album and a message with a colliding id, the sweep, a crash: whole files (`HandedIsWhole`), rows that tell the outcome (`RowTellsOutcome`), uploads kept until a confirmation (`UploadsKept`), outcomes that arrive (`SendsResolve`), a volume that empties (`UploadsGo`) |
| `access` | two requests of a token and the master on every route, beside two patches of flags and lists that overlap, commit and roll back, creations and deletions: who is beyond auth had access at one moment (`AdmittedHadAccess`), subscriptions have their token and session (`SubscriptionsRooted`), who removes may (`RemovalsEntitled`), a committed patch has revoked what it found (`PatchRevokes`), and where the token's row lock orders the patches the grants are the last list committed (`LockedListsReplace`) |

The type invariants are not among the runs' properties: each `TypeOK` is a theorem
(`TypeCorrect`) for every value of the constants.

Runs that document a disagreement between the code and what a comment or the
README says; TLC's counterexample is the evidence:

| Run | Violated | Because |
|---|---|---|
| `graceful` | `FailsOver` | `stopping` is read only at the start of a pass: a pass in flight re-asserts what Shutdown released; later the new holder claims its own session, leaks its client and locks itself out |
| `delete` | `DeleteClosesHolder` | a rehydrate in flight has no client to close and no login to abort |
| `flip` | `KeepsContract` | `FailDelivery` does not look at the status: after a hand-over a late failure revises `delivered` |
| `spends` | `RefusedSpendsNothing` | the resolve of a username is admitted and counted as a call of its own, and its count is kept when the call proper is refused |

Weaknesses met while modelling that are not runs of their own; most have a root one of
the runs above shows, or nothing documented contradicts them:
- a worker whose heartbeat lapsed claims its own sessions (`M` 509 has no
  `m.get` check), so `ActiveHolderKept` and `NoLeakedClient` need heartbeats
  that keep up;
- a create discards the errors of two statements (`M` 813-814, 908-909). Without
  `worker_id` the registry does not know the holder, requests do not find it and, once
  authorized, the holder's own `ClaimOrphans` returns the session and the claim loop
  opens it over the live entry, leaking its client (`M` 509 again); hence `HolderOwns`,
  `NoLeakedClient` and `ActiveHolderKept` are about the sessions outside `unowned`. Without `db_dir` neither
  `ClaimOrphans` nor `ListOwned` ever returns the session (`S` 704, 791), so it does not
  fail over: `FailsOver` is about sessions with both columns (`Recorded`);
- claimed sessions in open-backoff do not count against capacity (`M` 493), and
  adopting them later does not look at it;
- after a hand-over two workers may have claimed the same row (`S` 1058 marks
  nothing), so `AttemptsBounded` holds only while the session stays put;
- the dropped count goes with the live session (`U` 183), so `LossCounted` does
  too;
- a token is checked when a batch of deliveries is claimed (`D` 164) and the batch posted
  after that, although `README.md` 593-595 says it is checked at every delivery;
- a PATCH of a token that sets no column locks nothing (`S` 555): the DELETE of the second
  of two that overlap does not see what the first inserted and both lists stay, which is
  why `LockedListsReplace` asks for a column;
- a periodic sync that read before a subscription was created may overwrite the
  snapshot its create handler installed (`U` 173); `CatchesUp` says the next
  sync repairs it;
- two creates of one phone that overlap both pass the look for a pending login
  (`M` 876) before either has inserted its row (`M` 900), so both start and two codes are
  sent, although `README.md` 450-451 and `M` 871-873 say the second is refused. No property
  states it: one that excepts the overlap would repeat the guard;
- submits that overlap: a value is checked after a second submit armed its
  channel, so the verdict goes to the second submitter, whose own is then lost, and the first
  times out (`M` 226-247, 958-971), although `M` 223-225 says the caller learns whether
  Telegram accepted the value and `README.md` 420 that the submit answers with the
  refusal. `VerdictReachesSubmitter` says that this is the only way: a verdict is of the submitter's value
  or of one that was unchecked when it armed, and it is missing only for one who
  was disarmed;
- login: the second DELETE
  of a pending login does not wait for it (`M` 273), nor does the first beyond 10 s; a DELETE of a connecting bot
  has neither a login to abort nor a client to close; a bot that becomes ready
  while its request gives up ends authorized without a client, or in error with one;
- the rule cache is stamped when the read returns (`limits.go` 51-56): a change that
  commits during the read is not enforced for `ruleRefresh` and the rest of the read, although
  `limits.go` 19-21 gives `ruleRefresh` as the bound; `ChargesInForce` adds the read's duration;
- calls: two writes of one flag may land in either order and nothing repairs
  it; a write of a cooldown that lands after the lift brings it back; a lift
  removes the row of a cooldown imposed meanwhile; a move before the write
  landed forgets it; a cooldown that starts while a call is in its resolve or
  its pace does not stop it; a canceled write keeps its pace slot; a rule
  deleted under a stale cache lets a call through uncounted;
- sends and uploads: a confirmed message removes the uploads of another one with
  the same temporary id in another chat or session (`uploads.go` 77), and the
  first confirmed message of an album those of all; an outcome handled before
  `trackUpload` leaves entry and directory until the sweep; a full queue, a
  failed statement or a crash leaves a row pending until `SEND_TTL`; a chunk
  between a sweep's look and its removal is lost, and so is a single shot that
  takes longer than the TTL, whose path is still returned.

**Bounds.** Two workers are the smallest fleet with a peer; two sessions make
shares uneven so that workers both shed and claim; one session where deletion,
login and shutdown multiply the states. Every hazard needs at most one or two
faults, so the budget of each kind (`MaxFaults`, `Budgets`) is 0, 1 or 2 per run. `teardown`
starts from one of four budgets, each with all but one of shutdown, lapse, error and deletion
(crashes are `fleet`'s). For
delivery, one subscription, one to three updates (one of which its filter does
not take), an outbox of one and `MaxAttempts` 2 reach a full queue, a retry, a
give-up and two workers on one row. Workers are interchangeable, so `teardown`
(safety only) uses symmetry.

`Login`, `Calls` and `Sends` too start from one of several budgets (`Budgets`): each
says how many creates, requests, answers and faults of each kind a behaviour
may have. One run thus covers several small scenarios instead of the product of
all of them. In `login` these are two logins of one phone with a request or a
fault, one login with four requests, or two and a fault, and a bot with
two requests and a fault: a submit is disarmed by another, a value is
refused twice, two deletions overlap. In `calls` two calls (symmetric), a clock
of three ticks (`MaxTime`) with windows of two, waits of one and two, a pace of
two (`PaceInterval`) and `MaxPaceWait` one reach a full window, a window change
between take and give-back, a pace refusal, a stale cache (`RuleRefresh` one)
a change of the rules before, during and after their read, and a write overtaken by another. In `sends` one upload of two bytes, two
chunk requests of one or two bytes, an album of two and a scheduled message
with the id of one of them, and a queue of one (`SendQueue`) reach racing
chunks, a dropped outcome and a collision. In `access` one token,
one app with one session, two requests and two patches put every commit between every
two reads of a request and set the token on the master's subscription; of the three
bodies one sets no column, so that patches overlap, wait for each other's grants and meet
a rollback, a deleted token and a deleted session, and two set one, so that they queue.
Each token, session, patch and request is used at most once.

**Fairness.** Tickers fire and statements return: weak fairness on the steps of
a pass, heartbeats, the ageing of a dead worker, the steps of Shutdown,
backoffs, and closes (TDLib finishes what it was told to close). Nothing is
assumed of requests, faults or restarts. In `Delivery`: the dispatcher's tick
and claim, the writer, each subscription's round (posts end within
`deliveryTimeout`), backoffs, the periodic sync, and that an orphaned session
finds a worker, which is what `FailsOver` states. In `Login`: the login
goroutine runs, TDLib answers it and a close completes; nobody has to submit,
delete or retry, and no request's timer is assumed. In `Sends`: TDLib's receiver
and the outcome writer are loops, time passes and the ten-minute sweep comes
round; clients owe nothing. `Calls` and `Tokens` have safety properties only and state no
fairness.

**Deadlock** is checked except in the runs of `Login`, `Sends` and `Tokens`, where every
request is made a bounded number of times and the system may come to rest.

## Proofs

`OwnershipProofs` proves, for any finite sets of workers and sessions, any
capacity and batch sizes and any fault budgets (`ConstantsAssumption`):

- `TypeCorrect`: `TypeOK`.
- `Backed` and `Exclusive`: `ReadyIsBacked` and `ServedOnce`. The inductive
  invariant `Safe` adds `OneLock` (at most one instance per directory),
  `DownClean` (a dead process has no memory and no instance) and `Untouched` (a session
  that is absent, or whose create is not done with its row, is loaded, opened or queued nowhere). `ServedOnce` follows: two
  servers would be two open instances on one directory.
- `RoutedToHolder` and `NothingLeaks`: `HolderOwns` and `NoLeakedClient`, under
  `HealthyFleet` (no lapses, shutdowns or deletions in the budget), which is
  needed: the runs `graceful` and `delete` show what happens without it. Registry and open
  errors and crashes are allowed in any number; a session whose owner was never written
  (`unowned`) is excepted, and nothing that happens to it disturbs the others. The invariant
  `Healthy` adds that up workers are alive in every cutoff (`Calm`), and that
  what a worker holds, is creating, or a loop still has to process or is processing
  belongs to it (`Held`, `Queued`, `Current`, `Instances`).
- `NotTakenFromTheLiving`: the action property `HolderWins`, from `Cutoffs`:
  nobody who is alive is in anybody's cutoff, and a session has no owner before its create
  wrote one.
- `HolderKept`: the action property `ActiveHolderKept`, under `HealthyFleet`,
  from `Safe` and `Healthy`: what a claim still has to open is in no live map
  yet (`Queued`), and what an open that failed takes out was opening (`Current`).

`DeliveryProofs` proves for all constants and faults of `Delivery`
(`DeliveryAssumption`):

- `TypeCorrect`: `TypeOK`, with the outbox within its capacity.
- `EarnedVerdicts`: `VerdictsEarned`. The invariant `Earned` adds the ledger:
  the attempts a row counts plus the posts not yet recorded never exceed the
  posts made (`Ledger`, over the finite set `Unrecorded`), and what a round
  remembers is covered by posts that happened (`Honest`). Without the second
  summand a second worker's record would break it.
- `PreCheckSafe`: `PreCheckCovers`, for every filter.

`DeliveryProofs` also proves `ContractKept`: `Delivery` implements
`DeliveryContract` under `StaysPut` (no hand-over, no crash; `flip` shows it is
needed). The invariant `Stays` adds that only the owner has rounds and queued
updates, a subscription has one round (`OneRound`, from `TickSees`: a tick
in progress knows every subscription in flight), what a round still has to do
has no verdict (`StillOpen`), and a queued update is queued once and has no row
(`Waiting`, `Unseen`).

`BoundsProofs` proves the three bounds of the delivery, each from an invariant
that says where the units it counts are between two statements:

- `AttemptsStayBounded`: `AttemptsBounded` under `StaysPut` (the run `moving`
  does not check it: two workers judge one row there). `RoundBudget`: what a
  round remembers of a row's attempts is what the row counts, and covers its
  posts but for the one under way and those whose record failed; `RowBudget`
  says the same of a row nobody posts, so that a round that starts finds it.
- `LossesCounted`: `LossCounted` under `StaysPut`. `SnapshotsPresent`: no snapshot,
  load or queued update names a subscription before it exists, so none is
  charged for what it was not there to get; `FlushHeld`: a count on its way to the
  registry belongs to the session held. The step that
  writes the count down moves it from `flush` to `charged` for all of them.
- `CopiesStayBounded`: `CopiesBounded`, with no hypothesis on the faults. While
  a row is open, every accepted copy is about to be recorded by a round (`Marking`)
  or was lost to a fault; once it is closed, only the rounds that claimed it
  before (`Ahead`), one per worker, may add one (`CopyBudget`). A round
  that records passes from the first to the second, which is why neither count is
  inductive alone.

`LoginProofs` proves the type invariant and all five invariants of the run
`login` for any sets of users, bots, requests and any budgets
(`LoginAssumption`). The inductive invariant `LoginInv` has, per session, what
the goroutine's place implies: nothing exists before it starts (`StartInv`), a
second code needs a resend because `phoneSent` is set before the first
(`CodeInv`), the row lags the status only in `saving` (`RowInv`), the client is
stored before the status says so (`ClientInv`), a login past its
instance holds the client or the instance is gone (`InstanceInv`), and TDLib
checks a value exactly in `checking` (`CheckInv`). `DeleteInv` relates a deletion that waits
(`awaits`) to the finished goroutine. Of submits: one that is armed and has no verdict is the
one armed last and its value is in the channel or with TDLib (`SubmitInv`), a verdict is of the
submitter's value or one ahead of it (`OwnInv`), and every unchecked value was ahead of
whoever is armed or is its own (`AheadInv`): the last is what makes the second inductive.

`CallsProofs` proves the type invariant and five properties of the run `calls` for any rules, inputs,
windows and faults (`QuotaAssumption`, `CallsAssumption`): `QuotasHold`,
`WritesPaced`, `CooldownsRecorded`, `FlagsRecorded` and `RulesEnforced`, the last from
`InForceIsRuling`: for every rule set, what `Applicable` leaves in force is
`Ruling`. `CallsInv` adds to the properties that ids name one rule, caps
cover every rule known or charged, and rules whose read began after the last change are the
table's, in the cache and on their way to it (`RulesInv`), that the next pace slot is past
every booked one (`PaceInv`), and which flag writes may be under way (`FlagInv`).

`CounterProofs` proves `CountersExact`, which is `CountsWhatGoesOut`, for any number of calls,
from the same assumptions. Every step of a call does one of seven
things to its charges: keep, quote, take, drop, return one, break off, or set those of
the resolve aside (`Bill`). `Bills` has what these need: the cached rules and the
charges of a call name a rule once, so that a call contributes one run of units to a
window (`PartSize`); a call not quoted yet has no charges, and none are set aside before its
resolve, so that nothing is overwritten. `Shift` shows that the total then changes by what
the one call owes more or less (`Due`), and `DueStep` that the counter does too:
`GREATEST(calls - n, 0)` never cuts anything off, because the total includes `n`.

`SendsProofs` proves the type invariant, `WholeFiles`, `OutcomesTold` and `KeptUntilConfirmed` for any
uploads, chunks, messages and ids (`UploadsAssumption`, `SendsAssumption`). Its
invariant: a file is always a prefix of the client's (`FilesInv`), a chunk under way
starts within it and ends within the length (`ChunksInv`), a handed path is of a whole
file (`HandedInv`), a sweep looks at what has been old (`SweepInv`), queued outcomes
are TDLib's (`OrderInv`), an outcome is in the row, queued, on the stream or
lost (`OutcomeInv`), and what is kept under an id belongs to a call of that id
(`KeepInv`).

`TokensProofs` proves every property of `Tokens` for any tokens, apps, sessions,
bodies, patches and requests (`TokensAssumption`), from three inductive invariants
besides the types:

- `AdmittedFairly`, `SubscriptionsStayRooted` and the action property
  `OnlyEntitledRemove`, from `GateInv`: who has access while its request runs is recorded
  (`Covering`), so that the second read of auth, which looks at flag and grants at once,
  is itself the moment asked for; beyond the first read a scoped request is on a route
  open to it (`OnTarget`); the request of a subscription is done (`Settled`), so no later
  step moves it.
- `PatchesRevoke`: `PatchRevokes`, from `PatchInv`. `Sweeping` follows each grant a patch
  found when it began: once its list is begun it is seen, then removed (`Reached`). It is
  inductive because nothing that was there when a patch began can come back: an inserted
  row carries its transaction, and rows of a transaction are committed, in the table
  or in what another patch found, only when it is (`Authored`); a token's creation
  precedes its patches (`Begun`).
- `ListsStayReplaced`: `LockedListsReplace`, from `ListInv`. It is about the tokens
  whose patches so far each set a column (`Locked`); others may be patched in any way beside
  them. The UPDATE's lock makes an open transaction of such a token the only one and keeps
  the token there (`Alone`); so the transaction has seen or removed all grants of the
  lists it has begun (`Clearing`), and what it has inserted is what its lists have and it
  has not left to do (`Filling`). Any transaction touches only grants of its own token and
  of lists it has begun (`Own`), and inserts only for a token that is there
  (`RowsRooted`), so the unlocked ones disturb no one else. The step that replaces the list
  is the commit. A session's creation keeps it because no list names a session still to be
  created (`SaidKnown`).

Only model-checked: liveness (`FailsOver`, `Settles`, `Resolves`, `CatchesUp`,
`AbortUnwinds`, `SendsResolve`, `UploadsGo`), which needs fairness and is out of
the prover's reach. Every other property of a passing run is a theorem.

## Not modelled, and the plan

Of the gateway, the choice of a worker beyond deletion and creation is left open: a
request that is forwarded reaches some worker or fails.

Left out for good: migrations (scripts run in order under one advisory lock at
start-up), secrets (cryptography), downloads and raw calls (pass-through I/O),
observability, process wiring, and the handlers that only read (views, lists).
