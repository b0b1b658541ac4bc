# A formal model of the CubeTimer sync backend

The repository is a small Go service over PostgreSQL. Clients work offline, keep
their edits in an outbox, and exchange them with the server through
`POST /v1/sync`; a new or expired device bootstraps through `POST /v1/snapshot`;
a background job prunes the change log. Around this core stand authentication
with rotating refresh tokens, a rate limiter, telemetry that is flushed in the
background, statistics, and lists that are read page by page. This directory
models them in TLA+, checks them with TLC on small instances and proves part of
them with TLAPS for every instance.

## Inventory

| Component | State | Operations | Interacts with |
| --- | --- | --- | --- |
| Sync service (`internal/sync/service.go`, `httpapi/sync_handler.go`) | one open transaction per request | validation, cursor expiry check, pull, mutation transaction, page of changes, acknowledgement | all sync tables, the user's advisory lock |
| Snapshot service (`internal/sync/snapshot.go`) | none; the watermark travels with the client | device upsert, watermark, keyset page | `devices`, `change_log`, rows |
| Retention service (`internal/sync/retention.go`, `window.go`) | cutoff and minCursor of the current run | read the floor, prune `change_log`, prune `processed_mutations` | the same tables, without any lock |
| Sync tables (`db/migrations`, `db/queries`, `internal/store/db`) | `cube_sessions`, `solves`, `change_log`, `processed_mutations`, `devices`, the `change_id` sequence | the queries of `sync.sql` and `snapshot.sql` | everybody |
| Client (outside the repository, `docs/sync-protocol.md`) | cursor, replica, outbox | edit, sync, bootstrap, retry | the two endpoints |
| Statistics (`internal/sync/retention.go`) | none | a count, then one statement per average of n, with the DNF rule | reads `solves` while syncs write them |
| Authentication (`internal/auth`, `httpapi/auth_handlers.go`) | users, passwords, identities, refresh token families, one-time links | register, verify, login, refresh, log out, reset, change password, federated login, claim, link, delete, create-admin | its own tables, through row locks |
| Rate limiter (`httpapi/ratelimit.go`) | a token bucket per address | choice of the address, allow, evict | in front of the authentication endpoints |
| Admin telemetry (`internal/admin/service.go`) | two channels, two buffers | record a metric, record an error, flush, clean up, shut down | every request, the server process |
| Server process (`cmd/api/main.go`) | what is left to do | serve, drain, deferred calls | telemetry, retention, pool |
| History and error lists (`httpapi/history_handler.go`, `admin/service.go`) | a cursor that travels with the client | one keyset page | reads rows while they change |
| Configuration, mailer, routing, generated contract | none of their own | parsing, I/O, wiring | |

What is hard here is not any single function. It is that

- `change_id` is handed out before the commit, so id order and visibility order
  agree only because of the advisory lock;
- clients repeat requests whose answers were lost, possibly while the first
  attempt is still being served, possibly long after its record was pruned;
- retention, the expiry check, pulls and snapshots are sequences of statements
  that commit one by one, and each uses what an earlier one read;
- a cursor that a device holds is a promise about changes it has not seen;
- authentication is correct only under the row locks it takes, in an order that
  differs from method to method, and a revocation reaches only what its
  statement can see;
- telemetry must neither hold up a request nor lose what it has accepted when
  the process ends.

The properties that make the core correct are accordingly: the log is read in
commit order; a mutation takes effect at most once and its answer is true; rows
and log agree; a device that stays active can always catch up, and does; the
acknowledged cursor never runs ahead of the device. Around it: a token is
rotated once and a dead family stays dead, a claimed account keeps nothing that
its owner has not proved, no account loses its last login; each client has a
bucket of its own; an orderly shutdown loses nothing; averages follow their
rule; a listing shows every row once. `PROJECT.json` lists the
hazards one by one, with the line where each bites and the properties for it.

## Modules

| Module | What it models |
| --- | --- |
| `SyncDatabase` | the tables, one operator per query, the clock, other users |
| `ApiServer` | requests in flight: where each handler stands, its request and response, the content of mutations, the fault budget |
| `SyncService` | `Sync`, `pullOnly`, `applyMutation`, `applySession`, `applySolve`, one action per statement group |
| `SnapshotService` | `Snapshot`, `snapshotSessions`, `snapshotSolves` |
| `RetentionService` | `runOnce`, one action per statement |
| `SyncClient` | the client of `docs/sync-protocol.md` (external) |
| `CubeSync` | the composition, fairness, all properties and the inductive invariant of the order of the log |
| `CubeSyncInvariants` | the further inductive invariants: rows and log, cursors, outcomes, past states, catching up |
| `CubeSyncProofs` | type correctness, the order of the log, rows and log, mutations applied once |
| `OutcomeProofs` | outcomes and the order within a batch |
| `ReplicaProofs` | acknowledgements, what retention keeps, and what devices hold: past states of the server, and nothing missed |
| `AuthDatabase` | the tables of authentication, row locks and READ COMMITTED transactions, one operator per query |
| `AuthService` | the methods of `auth.Service`, one action per statement, deadlock and failure |
| `Authentication` | the endpoints and `create-admin` around it, the clock, the properties |
| `AuthInvariants` | the inductive invariant of `Authentication` |
| `AuthProofs` | lemmas and theorems about `Authentication` |
| `TokenBucket` | abstract: what the rate limiter promises to each client |
| `RateLimiter` | `clientIP`, `ipLimiter.allow`, `evictLoop`; the refinement of `TokenBucket` |
| `RateLimiterProofs` | lemmas and theorems about `RateLimiter` |
| `Telemetry` | channels, `flushLoop`, flushes, drain |
| `ServerProcess` | requests with `writeError` and `accessLog`, `serve` and its deferred calls; composes `Telemetry` |
| `ServerProcessProofs` | lemmas and theorems about `ServerProcess` |
| `Averages` | `computeAoNFromTimes`, and the same rule defined by counting |
| `Statistics` | `ComputeStats` and `computeAoN` beside edits of the solves |
| `StatisticsProofs` | lemmas and the theorem about `Statistics` |
| `HistoryPages` | `listSessions`, `listSessionSolves`, `ListErrors`, their client, and what changes the rows |
| `HistoryPagesProofs` | lemmas and theorems about `HistoryPages` |
| `MC...` | the TLC instances of the module they are named for |

### State and code

The core:

- `rows` is both entity tables; a row exists iff its version is positive, as the
  schema's `CHECK (version > 0)` says. A payload is abstracted to the mutation
  that supplied it (`data`), which is enough to tell right content from wrong.
- `log`, `processed`, `devices` are the tables of the same purpose; `seq` is the
  `bigserial` sequence, which is not rolled back; `lock` is
  `pg_advisory_xact_lock`. `OtherUserAppends` takes ids from the sequence for
  the other users, nothing else of them is visible to this user.
- `tx[h]` holds what the transaction of handler `h` has written and not
  committed. Only the lock holder writes rows, changes or processed records, so
  row locks between transactions never make anybody wait and are left out, with
  one exception: the row of a device whose upsert is not committed yet blocks
  the single-statement upserts and acknowledgements of other handlers
  (`DeviceRowFree`).
- `last_seen_at` and `created_at` are `now()`, which PostgreSQL fixes at the
  start of the transaction: `tx[h].began`.
- `history` and `tracked` are auxiliary: every change ever committed, and the
  devices that have been active ever since the bootstrap they are on began (a
  first page that its device gave up on does not count, `Tracks`). No action
  depends on them.
- A mutation's `valid` bit stands for `validateMutationEnvelope`,
  `validateSession` and `validateSolve`; `was` is the row the client edited, its
  version is `base_version`. Under `limit` and the byte budget a page ends
  anywhere after its first change (`PageEnds`), which covers `applyByteLimit`
  and the two `trim` functions.
- A violated foreign key aborts the PostgreSQL transaction; the services use no
  savepoints. `AbortOnForeignKey` is therefore the end of the request.
- `SyncFails`, `SnapshotFails`, `AckFails` and `RetentionStatementFails` let any
  statement fail, which also covers a cancelled context and a crash: nothing but
  the database survives, and the transaction is rolled back. `GiveUp` is a
  client that stops waiting; its handler runs on and `DropAnswer` loses the
  answer. All of them draw on one budget, `MaxFaults`.
- Stopping the retention loop (`Shutdown`) is the ticker that never fires again:
  `StartRun` is never forced.

Authentication:

- `db` maps every row to its committed value, `tx[h]` holds the uncommitted
  writes and the row locks of handler `h`. Lock modes are PostgreSQL's: FOR
  UPDATE and DELETE, an UPDATE of columns that are no key, and the key share
  lock that the foreign key of an INSERT takes. Unique indexes (`EmailKey`,
  `LinkedKey`) are locked the same way, because a second insert waits for the
  first.
- A method is the sequence of statements it has still to run (`Register`,
  `Refresh`, `ClaimUnverifiedAccount`, ...); a statement that branches replaces
  the rest, an early return rolls back. A statement that touches several rows
  (revocation, invalidation, the cascade of a deletion) fixes its rows when it
  starts (`todo`, a set) and then visits them one by one, waiting for each lock
  and testing its condition again, as READ COMMITTED does: a row inserted
  meanwhile is not among them. In which order it visits them PostgreSQL does not
  say; `NextRow` picks one by `CHOOSE`, so TLC checks one order and the proofs,
  which use nothing of the choice, cover all.
- A row of `users`, `refresh_tokens` or `one_time_tokens` that was deleted is
  `Gone` and never comes back, since its id is a fresh UUID; `NewId` takes one
  that neither a table nor an open transaction has. A password or an identity
  is named for its user or subject and can be inserted again.
- The hash of a token stands for its row. `via` and `from` are auxiliary.
- A client may present any token or link that was ever committed, any number of
  times. Access tokens are taken to be valid for good, which only adds requests.
- `scenario` bounds a behaviour; it never changes and no action reads anything
  from it but the bounds.

Rate limiter: a limiter counts in clock ticks, `Every` of them to a token, so
that no fraction is lost; `golang.org/x/time/rate` is external. The mutex is held
from the lookup to the answer, so a request is one action. A client writes what
it likes into the headers; each trusted proxy appends the address it was called
from.

Telemetry and process: what `flushLoop` has to do before its next `select` is a
sequence of stages, and every write is a step of its own. The test of the
shutdown flag and the send to a channel are two steps of a request. `process` is
the step that `serve` is at, and `Defers` says which deferred call follows which.
`open` is that connections may still bring requests: a signal ends that, because
`server.Shutdown` closes the listener and idle connections, but after a failed
listener `serve` returns and leaves open connections to their goroutines, so
requests go on starting until the exit. `overdue` is that `serve` went on without
waiting for requests, after the grace period or a failed listener.

Statistics: `solves` lists the rows in the order of the query. `edits` bounds
the edits still to come, so that users with 100 solves can be checked without
enumerating all their edits.

Lists: `rows` maps the rows that the WHERE clause selects to their time. The
first page starts at the year 9999, or at the server's clock for errors; rows
dated later are left out, and the server and PostgreSQL share one clock. `odd`
only keeps a page that leads back to itself from being a stuttering step.

## Runs

The instances of the core have two handlers and `Window` = 1. The sequence, the
clock and the faults are bounded by `MaxSeq`, `MaxTime`, `MaxFaults` and
`MaxForeign`; `MaxSeq` stops a device from sending mutations that could exceed
it, and never stops a request half way.

| Run | Instance | Checked | Shows |
| --- | --- | --- | --- |
| `retry` | 1 device, 1 session written and deleted, invalid data, 2 mutations, 3 clock values, 1 fault | `LogMatchesRows`, `AppliedAtMostOnce`, `HonestOutcomes`, `CoreInv` | retries beside the original and after its record was pruned (the latter needs two ticks, hence one device); a statement of the pruning that fails |
| `retention` | 2 devices that bootstrap with pages of one, protocol 2, a session with the larger id that is written and deleted and a solve in it, 2 mutations in batches of up to 2, 1 change of another user, 2 clock values, no faults | `TypeOK`, `SessionTravelsFirst`, `ReplicaIsPastState`, `CursorInv`, `NoLateChange`, `NoSilentGap`, `AckBehindClient`, `NewestChangeKept` | what the advisory lock is for; sorting and foreign key abort; rows that change behind a page; stripped deletions; pruning between any two statements; devices becoming inactive, expiry and new bootstrap |
| `catch_up` | 2 devices that bootstrap, 1 mutation, 1 fault, fair | `Converges`, `OutboxDrains` | liveness |
| `expired_cursor` | 2 devices, 3 mutations | `ServedInFull`, violated | see Findings |
| `unknown_session` | 1 device, 2 mutations | `RejectedNotFailed`, violated | see Findings |
| `auth` | 2 handlers, 3 refresh tokens, 3 links, 1 subject; scenarios `Sessions` (1 user, 3 clock values), `Claims` (an unverified and a verified account, 1 fault), `Registration` (no account, up to 4 users, 1 fault) | `TypeOK`, `RotatedOnce`, `EveryAccountHasALogin`, `SessionsAreVerified`, `DeletionIsComplete`, `DeadFamilyStaysDead`, `SpentLinkIsWorthless`, `ClaimDiscards` | every pair of methods that can meet on one account |
| `password_change` | 1 user, refresh beside a change of password | `PasswordChangeEndsSessions`, violated | see Findings |
| `rate_limit` | 2 clients, 2 proxies, routes of up to 2, a forged entry, 2 tokens of 2 ticks, 9 clock values | `TypeOK`, `ProxiesNotCharged`, `OwnBucketEach` | the limiter implements `TokenBucket`; long enough for a bucket to fill and a visitor to be evicted |
| `shutdown` | 2 requests, channels of 1, batches of 2, 1 failed write, only the requests fair | `TypeOK`, `CountedOnce`, `FlushedWhileOpen`, `OrderlyShutdownKeepsAll`, `DeliveryInv`, `RequestsNeverWait`, `ShutdownEnds` | full channels, every kind of flush, requests that outlive the grace period or come after the listener failed, a loop that hangs |
| `statistics` | the real windows 5, 12, 50, 100; up to 6 edits of a new user, 2 edits around the edges of the first two windows, 100 solves in 1157 compositions | `TypeOK`, `WindowsAreRight`, `MissingMeansTooFew` | trimming, DNF rule and rounding; solves that vanish between the count and the averages |
| `dnf_rule` | the same windows; users with 100 solves, 0 to 6 of them DNFs | `TwoDNFsMakeADNF`, violated | see Findings |
| `history` | 3 ids, 3 timestamps, pages of 1 and 2, all three lists, fair client | `TypeOK`, `UntouchedListedOnce`, `ErrorsNotRepeated`, `CursorDivides`, `ListingEnds` | equal timestamps across pages, rows that move across the cursor |

What no instance of the core reaches is left to the proofs, which have no bounds:
a failed pruning in front of two devices (`NoSilentGap` with faults), and an
entity that is deleted and revived under protocol 2.

The bounds are small but not idle: between them the passing runs evaluate every
conjunct of every action. Two handlers are enough for every pairwise race of
requests, and retention is a third actor. A rotation and a retry of it need
three tokens, a claim that fails at the identity needs two accounts. Symmetry is
used for handlers, mutations, clients and proxies, and for devices where they
start alike; the runs with liveness properties use none. Deadlock is checked
except where the system may stop: a server process that has exited, and
authentication when ids, clock and requests of the scenario are used up. Every
property is paired with a mutant of the code (`Mut...` operators, named for the
bug they contain) that makes TLC report it.

### Fairness

`FairSpec` of `CubeSync` assumes that a handler which can go on does (`SyncWork`,
`SnapshotWork`: a goroutine is scheduled and statements return), that
PostgreSQL grants the advisory lock to a waiter that keeps asking (strong
fairness of `AcquireLock`: its lock queue is first come, first served), that a
waiting client takes an answer, and that a client keeps its loop running
(strong fairness of `Turn`, because both handlers may be busy again and again).
Nothing is assumed about edits, faults, time, other users or retention. With
bounded mutations the premise "once everybody has stopped editing" is met by
every behaviour.

`FairSpec` of `ServerProcess` assumes only that a request that can go on does;
that is what `RequestsNeverWait` is about, since the flush loop may hang in the
database. `ShutdownEnds` adds its own premise, `ProcessFairness`: the loop and
the process are scheduled, writes return because they have a timeout, and a
`select` that finds `stopChan` ready again and again picks it in the end, since
Go chooses among ready cases at random (strong fairness).

`FairSpec` of `HistoryPages` assumes that a client in the middle of a listing
asks for the next page. Rows may change between any two pages.

## Findings

- `expired_cursor`: `docs/sync-protocol.md` promises 409 `cursor_expired` for a
  cursor older than the oldest retained change. `checkCursorNotExpired` compares
  with the smallest acknowledgement of the devices active now. A device that
  starts paging from cursor 0 while retention is between reading minCursor and
  pruning pulls that floor down to its own 0, and is then served from a cursor
  inside the pruned range. `NoSilentGap` holds for devices that came through a
  snapshot: upserting the device before taking the watermark protects them.
- `unknown_session`: `applySolve` turns a foreign key violation into a
  `rejected` outcome, but by then the transaction is aborted, recording the
  outcome fails, and the whole batch ends in HTTP 500, again on each retry.
- `password_change`: `docs/AUDIT_REPORT.md` says that a change of password
  invalidates all active families. `RevokeAllUserRefreshTokens` revokes the rows
  of its own snapshot. A refresh that has locked a token makes it wait, inserts
  the successor and commits; the UPDATE then revokes the old token and has never
  seen the new one, so the family lives on.

- `dnf_rule`: `docs/sync-protocol.md:125` says that more than one DNF in a window
  makes its average a DNF. `computeAoNFromTimes` trims 5 % of the times, rounded
  up, at each end, that is 3 of 50 and 5 of 100, and looks only at the last time
  left: up to 3 and 5 DNFs disappear, and the average is a mean.
  `WindowsAreRight` states the rule of the code's comment, which the code
  follows; `TwoDNFsMakeADNF` states the document's.

One sentence of a document holds only as far as one reads it narrowly.
`docs/AUDIT_REPORT.md:474` says that all remaining queued error events are
committed at shutdown. What is queued when the loop drains is; an event that is
queued after the drain, by a request that `serve` did not wait for, is not.
`OrderlyShutdownKeepsAll` states both.

## Proofs

`CubeSyncProofs` proves, for every set of devices, handlers, entities and
mutations and every bound,

- `TypeCorrect`: `Spec => []TypeOK`;
- `OrderCorrect`: `Spec => [](TypeOK /\ OrderInv)`;
- `CursorIsComplete`: `Spec => NoLateChange`.

`NoLateChange` is an action property and says nothing about states before the
commit, so it needs an invariant. `OrderInv` has three parts:
`IdsFromSequence` (every id and cursor is at most `seq`), `LockHeld` (a handler
past the lock holds it, and nobody else has uncommitted changes) and
`PendingAbove` (an uncommitted change is above every committed id, every cursor
a device or a request holds, and every cursor another handler is about to
return). A new id `seq + 1` is above everything by the first; while it is
pending, everything that is handed on comes from committed changes or from
cursors already known (`KnownCursors`, `QuietStep`), because by the second there
is no other pending change that could be listed; so at the commit it is still
above every cursor. `TypeOK` and `OrderInv` are proved together: the watermark
is `Max` of the log's ids, which exists because the ids are bounded by `seq`.
The proofs use the named assumptions on the constants (`EntityAssumption`,
`BoundAssumption`, `NullAssumption`, `ApiAssumption`, `ClientAssumption`), and
nothing about their sizes.

`RateLimiterProofs` proves, for any clients, proxies, headers, routes and rates,

- `ChargedToSender`: whatever a client writes into the headers, and whichever
  trusted proxies it comes through, `clientIP` yields its own address. Every
  entry to the right of the client's is a proxy, so the rightmost entry that is
  none is the client's;
- `LimiterTypeCorrect`: `Spec => []TypeOK`, with `last <= lastSeen <= now`;
- `NoProxyCharged`: `Spec => []ProxiesNotCharged`;
- `LimiterImplementsBuckets`: `Spec => OwnBucketEach`, the refinement of
  `TokenBucket` under `bucket[c] = BucketOf(c)`. A request of `c` is `Admit(c)`
  or `Refuse(c)` by `ChargedToSender`, a tick is `Refill`, and eviction is a
  stuttering step: a visitor that was not seen for `EvictAfter` has not been
  charged for as long, and its bucket is full again. This is where the
  assumption `EvictAfter >= Burst * Every` is used; the code has one hour
  against half a minute.

The rest of `CubeSyncProofs`, `OutcomeProofs` and `ReplicaProofs` build on
`OrderCorrect` and prove the whole safety of the core, again for every value of
the constants. Each property holds only together with what requests in flight, open transactions and
the retention job must satisfy; those invariants are in `CubeSyncInvariants`,
the run `retry` checks their conjunction `CoreInv`, and `retention` its part
`CursorInv` about cursors on a larger instance.

- `StoryCorrect`: `Spec => [](TypeOK /\ OrderInv /\ StoryInv)`. `StoryInv` says
  that the committed changes account for the committed rows, and together with
  the changes of an open transaction for the rows that transaction sees
  (`Explains`): an entity's versions are taken once each, in id order and without
  a hole, and the last one left the row as it is. A mutation that is applied
  appends the next version (`AppliedAs`); a commit is sound because, by
  `LockHeld`, nobody else has pending changes. Pruning keeps an end piece of the
  history.
- `LogCorrect`: `Spec => []LogMatchesRows`, from the above.
- `MutationsApplyOnce`: `Spec => []AppliedAtMostOnce`. Each change is caused by
  its mutation on top of the version the mutation was based on (`CausedBy`), so
  two changes of one mutation would have the same version. Nothing is used of
  the record of processed mutations: at-most-once rests on the version check and
  survives the pruning of that record.
- `AcknowledgementsCorrect`: adds `KeptInv` (no cursor anywhere points past the
  history) and `AckInv` (nothing the server was told of a device, or may be told by a
  request still in flight, is ahead of the device). The hard case is a bootstrap,
  which sets a device's cursor anew, in statements that commit one by one: by
  `KeptInv` the watermark is at or past every acknowledgement and the cursor of
  every request abandoned before (`WatermarkCovers`). Until the page arrives the
  device sends nothing, and what older requests still report was covered
  already, so the watermark stays ahead of it (`WaitsForOwn`).
- `RetentionKeepsNewest`: `Spec => []NewestChangeKept`. Retention prunes below
  the least acknowledgement, which some change reaches.
- `AcknowledgedIsApplied`: `Spec => []AckBehindClient`.
- `OutcomesCorrect`: adds `OutcomeInv`. No device, mutation or answer knows a
  version that was not committed (`VersionsKnown`), a mutation belongs to one
  device (`MutationsOwned`), a change within the window has its mutation on
  record (`ChangesRecorded`), and every outcome on record, pending or answered is
  true (`Truthful`). A refusal must stay true while rows go on changing: it comes
  from an invalid mutation, from a delete of what never existed, or from a row
  whose version is past the one the mutation was based on (`Hopeless`), and
  versions never go down.
- `AnswersAreHonest`: `Spec => []HonestOutcomes`.
- `SessionsComeFirst`: `Spec => []SessionTravelsFirst`. When a solve's turn comes,
  every session of the batch has an outcome, since sessions rank first; by
  `Truthful` one that creates a session left a row, and a row is never removed.
- `CoreCorrect`: `Spec => [](TypeOK /\ CoreInv)`, all of these invariants together
  with two about what devices hold, `PastInv` and `CatchUpInv`. Each step is
  proved from all of them.
- `ReplicasArePast`: `Spec => []ReplicaIsPastState`. `PastInv` says of everything
  that a device may build a row from that it is a past state: the row its user
  edited, outcomes on record and in answers, pages of rows and of changes. An
  answer may also rest on its own uncommitted transaction, and reaches the device
  only after the commit. The row that an accepted mutation leaves is known to the
  device only by its version, and by `StoryInv` a version of an entity belongs to
  one change. Protocol 2 strips the data of deletions, so `Shows` compares a
  deleted row without it.
- `ActiveDevicesMissNothing`: `Spec => []NoSilentGap`, from `CatchUpInv`. It says of
  each device in `tracked` that it is active, that the replica has every change
  up to the cursor (during a bootstrap: to the entities that the pages have gone
  past, `Passed`), and that every change after the cursor is in the log and not
  about to be pruned (`KeptAfter`). A page leaves no change out between its two
  cursors (`FullPage`); a page of a snapshot has every row it goes past, as new as
  its watermark (`PageFits`). Retention respects the cursor because the floor it
  read is at most the acknowledgement of every active device, which by `AckInv`
  is at most its cursor; between the upsert of a new device and its watermark
  there is nothing to protect, and the watermark has nothing ahead of it. A new
  change is above every cursor by `OrderInv`.
- `CursorsCorrect`: `Spec => []CursorInv`, the conjunction of `OrderInv`, `KeptInv`,
  `AckInv` and `CatchUpInv`.

`ServerProcessProofs` proves, for any requests, capacities, batch sizes, keys and
number of failed writes,

- `DeliveryCorrect`: `Spec => [](TypeOK /\ DeliveryInv)`. `MetricInOnePlace` and
  `ErrorInOnePlace` say where an item may be (not sent, in the channel, in the
  buffer, written) and that it is in no two places; inside a flush the set of
  aggregates not yet written tells what of the buffer is counted. `EndsInOrder`
  ties the stages of the loop to the steps of `serve`: the loop drains after
  `stopChan` is closed, and past the drain channels and buffers stay empty,
  because a process past its grace period with `~overdue` has no request left and
  accepts none (`open`). With `overdue` only what is sent after the drain stays
  behind;
- `ChannelsWithinCapacity`: `Spec => []TypeOK`, its part about types and capacities;
- `NothingCountedTwice`: `Spec => []CountedOnce`;
- `PoolOutlivesLoop`: `Spec => []FlushedWhileOpen`;
- `OrderlyShutdownIsComplete`: `Spec => []OrderlyShutdownKeepsAll`.

The only assumption is `TelemetryAssumption` (the capacity and the bound on
faults are natural numbers).

`HistoryPagesProofs` proves, for any number of rows, timestamps and page sizes,

- `PagesCorrect`: `Spec => [](TypeOK /\ CursorDivides)`. The cursor divides the
  untouched rows into those returned once and those to come. That a page keeps
  this rests on `FirstRowsCorrect` (ORDER BY and LIMIT select the first rows of
  those that match, all of them if they are fewer than the limit) and
  `NextCursorCorrect` (the rows below the last row of a page are the matching
  ones the page left out). Both need the first or the last of a set of rows;
  these exist because inclusion is well-founded on finite sets
  (`LowestAndHighest`), so no induction is needed. The extra row that
  `listSessions` reads is the least of those fetched, so leaving it out leaves a
  first part again;
- `PagesWithinLimit`: `Spec => []TypeOK`; no page is larger than `MaxLimit`;
- `ListingsAreComplete`: `Spec => []UntouchedListedOnce`;
- `NoErrorListedTwice`: `Spec => []ErrorsNotRepeated`. For errors the invariant
  also covers rows inserted meanwhile, because ids come from a sequence and
  times never change.

The assumption is `PagesAssumption`: limits are positive and the default is
among them.

`AuthProofs` proves, for any number of users, tokens, links, subjects, emails,
passwords and handlers, any times to live and any scenario,

- `AuthCorrect`: `Spec => [](TypeOK /\ AuthInv)`;
- `AuthTypeOK`: `Spec => []TypeOK`; a request that has returned holds no lock and
  has no writes;
- `RotatedOnceAlways`, `LoginAlways`, `VerifiedAlways`, `DeletionAlways`: the
  invariants `RotatedOnce`, `EveryAccountHasALogin`, `SessionsAreVerified` and
  `DeletionIsComplete`;
- `DeadFamilyAlways`, `SpentLinkAlways`, `ClaimAlways`: the action properties
  `DeadFamilyStaysDead`, `SpentLinkIsWorthless` and `ClaimDiscards`.

None of these is inductive: each speaks of committed rows, and what a commit
writes was decided statements earlier, on rows that others may have changed
since. `AuthInv` (in `AuthInvariants`) says what stands between the decision and
the commit, of the committed rows `D`, a handler's transaction `T` and its
request `C`:

- `Exclusive`: no two transactions hold locks that conflict or write the same
  row. A statement waits until nobody holds what it wants, so its locks are
  compatible with all others;
- `WritesLocked`: a transaction has locked what it writes, or has inserted it. So
  what another transaction has locked is not in a commit;
- `WritesFollow`: rows change only as the methods change them. A revoked token
  stays revoked, a used one used, a verified user verified, a deleted row gone;
- `WritesReference`: whatever references a user is written with a lock that keeps
  the user (the key share lock of the foreign key, or a stronger one), on a row
  that was already there and is locked, or with the user itself;
- `Progress`, `Parameters`, `UserKnown`: how far each method has come, and what it
  has found out by then;
- `Exchanges`, `SessionsSound`: the token or link that is exchanged for a session
  is locked and was good when it was locked, and the session issued for it rests
  on it until the commit;
- `Logins`: an inserted user gets a password or an identity in the same
  transaction;
- `Deletes`, `Claims`: a deletion or a claim has its user locked for update;
  everything of the user's is written, or among the rows still to be visited. A
  row that the statement did not see when it began cannot have come since,
  because inserting it needs a lock on the user;
- `RowsSound`: the committed rows reference users that are there, sessions and
  identities have trusted holders, families are named for their first token, and
  every account has a login.

The proof goes by one lemma for each statement, stated of `D`, `T` and `C`: what the
handler does keeps `Working`; what one handler does leaves `Working` of the
others, since their locks keep what they rely on; and a commit turns a `Working`
transaction into sound rows and leaves the others sound. A change of password is
the exception the findings describe: `Deletes` and `Claims` have no counterpart
for it, because it does not lock the user. TLC has checked `AuthInv` on the
instance of the run `auth`. The assumption is `AuthAssumption`: `None` and `Gone`
are no rows and no ids, ids are numbers, and the accounts of a scenario have
their types.

`StatisticsProofs` proves, for any windows, solves and edits,

- `MissingAlways`: `Spec => []MissingMeansTooFew`. The invariant `StatisticsInv`
  says that the auxiliary bounds enclose both the count that was read and the
  number of solves now (`BoundsEnclose`; an edit can only move them apart), that
  each average read so far is justified by a moment of the request
  (`AveragesAreJustified`), and that the loop ends at the last window or at one
  above the count (`LoopEndsForAReason`); the windows above that one are larger
  still. It rests on three facts about the operators: the two counts of
  `UserSolveStats` add up to the number of solves (`EverySolveIsCounted`), a
  window has `n` rows or all there are (`RowsOfAWindow`), and an average is none
  exactly for too few rows (`NoneMeansTooFewTimes`). The assumption is
  `StatsAssumption`, in particular that the windows ascend.

### Only model-checked

- Liveness (`Converges`, `OutboxDrains`, `ShutdownEnds`, `RequestsNeverWait`,
  `ListingEnds`): fairness and `ENABLED` are out of the prover's reach.
- `WindowsAreRight` and `TypeOK` of `Statistics`: what the averages compute, and in
  which range their means lie, is a sort and a fold over the solves, and
  induction over data is out of its reach too.

## Not modelled

- Mailer (I/O), configuration (parsing of environment variables), routing,
  headers, CORS and health checks (wiring), and the generated contract: no state
  and no order of events.
- Hashing of passwords and tokens, JWT signatures and the check of the identity
  provider's token: a password, a token and an assertion are taken to be what
  they say.
- Administrative statistics other than the error list, and the minimum, maximum,
  mean and deviation of `GET /v1/stats`: single SQL aggregates.
- That every authentication request ends: with PostgreSQL's deadlock detection
  taken for granted, what is left is that a request that has returned holds no
  lock, which `TypeOK` of `Authentication` states.
- Within the core: the layout of payloads, validation of single fields, device
  names, and negative cursors and nil ids, which are refused before anything
  happens. Each user has an own advisory lock key; a hash collision of two users'
  keys only makes them wait for each other, which the model does not show.

## Plan

Done: the sync core with its client, retention and bootstrap; authentication;
rate limiter, telemetry and server process; statistics and lists. Proved: the
whole safety of the core, of authentication, of the server process and of the
lists, the refinement of the rate limiter, and what a missing average means.

What is left, most important first:

1. `ReplicatedStore`, an abstract specification of what a device may observe (a
   sequence of committed versions, read in order), which `CubeSync` implements;
   `PastInv` and `CatchUpInv` have what its refinement mapping would need.
2. The averages for every input, with a prover that can do induction over
   sequences.
