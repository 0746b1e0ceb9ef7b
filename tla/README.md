# crispy-server: a TLA+ verification project

crispy-server is the backend of a media client: a Fastify API process and a BullMQ worker over
Postgres (state), Redis (buffers, queues, pub/sub, caches) and external services (Supabase auth,
Trakt, Simkl, TMDB, an LLM). This directory holds TLA+ models of the parts whose correctness hangs on
the order of things, the TLC configurations that check them, and TLAPS proofs of every safety property
that holds of them.

`PROJECT.json` is the machine-readable index: `components` (every part of the system, modelled or
not), `map` (which definition stands for which source lines), `runs`, `mutants` (for each checked
property a plausible bug in the code it catches), `findings`, `hazards` and `theorems`. Paths below
are relative to the repository (`src/` here is the repository root, so the code is under `src/src/`).

How to run, in this directory:

    tlc -workers 2 -config PlaybackBuffer.cfg MCPlaybackBuffer.tla
    tlapm PlaybackBuffer_proof.tla

## 1. Inventory

### 1.1 The parts, their state and how they interact

| Part | State | Operations | Interacts with |
|---|---|---|---|
| Playback write-behind buffer (`modules/watch/playback-progress-buffer.service.ts`, `bin/api.ts`) | Redis `cw:pos`, `cw:dirty`, `cw:processing`; one timer | `bufferProgress`, interval `flush`, `flushPendingOnBoot` | heartbeats come from `POST .../watch/events`; each flushed item calls `recordPlaybackState` |
| Watch state (`modules/integrations/local-user-watch.service.ts`, `local-provider-history-writer.ts`) | `user_state.watch_state`, one row per profile and title | playback report, dismiss, delete history, mark/unmark watched, watchlist, rating, whole-profile import, pages with a cursor | every request handler, the flush and the import worker write it; readers page over it |
| Watch changes (`modules/watch/watch-change.publisher.ts`) | Redis debounce key, one generation marker per surface, pub/sub; a count of open streams per profile in memory | `publishWatchChanged`, `watch/generations`, the SSE stream with its slots | called after every write of watch state, outside its transaction |
| Provider sync (`provider-import.service.ts`, `provider-sessions.repo.ts`, `provider-token-refresh.service.ts`, `provider-import-jobs.repo.ts`, `lib/queue.ts`, `worker/`) | `provider_sessions` (OAuth state, rotating token), `provider_import_jobs`, the projection queue | connect/reconnect, callback, import now, disconnect, token access, `runQueuedImport`, refresh job | API and worker share both tables and the queue; the worker replaces watch state |
| Device sign-in (`modules/auth/device-authorization.*`, `devices.repo.ts`, `personal-access-token.repo.ts`) | `device_authorization_codes`, `devices`, `personal_access_tokens` | create, poll, lookup, approve, deny, list, revoke | TVs poll while people approve; `deleteAccount` removes rows under both |
| Profile PIN and unlock (`modules/profiles/profile-pin.service.ts`, `lib/profile-unlock-store.ts`) | PIN hash with attempt counters, unlock entries in Redis | set, verify, change, remove, guard | unlock state is read by a route guard |
| Home (`modules/home/`) | versioned rails per profile and source, idempotency records; the rendered home, its epoch and the shared default snapshot in Redis | write a home, resolve, invalidate, rebuild the default | apps write through the home-write routes; every render reads the caches first |
| Apps: registry, grants, runs, batches, snapshots, change feeds (`modules/apps/`) | app, grant and run rows, leased snapshot items, cursors | CRUD, status updates, batch writes, listing a snapshot under leases | service principals; a batch upserts recommendation lists per profile |
| AI insights and search (`modules/ai/`) | cache rows, an AI queue with deterministic job ids | request, generate, bounded wait | API waits for the worker's completion event |
| Metadata (`modules/metadata/`) | TMDB cache tables and in-memory coalescing | read-through lookups that ingest a title in one transaction, warm and purge jobs | everything that renders a title |
| Infrastructure (`lib/db.ts`, `lib/redis.ts`, `lib/request-coalescer.ts`, `lib/rate-limit.store.ts`) | a bounded pool; in-flight promise maps; window counters | transactions, `coalesce`/`clear`, `hit` | used by all of the above |
| Content identity (`modules/identity/`) | `content_items`, provider refs, parent relations | ensure titles, seasons and episodes; canonicalize an episode | watch writes, imports, home writes and metadata all resolve their titles here |
| HTTP layer, admin UI, calendar, search, browse, resolver, add-ons | mostly none of their own | routing, rendering, proxying, reads | see `components` |

### 1.2 What is hard, and what makes each part correct

* **Buffer.** A crash at any await; a Redis command that fails half-way; a flush that outlasts its
  interval; an item whose write always throws. Correct when no accepted position is lost, positions
  reach the store in order, and each is stored in the end.
* **Watch state.** Late flushes against requests of several devices; thresholds (5 % floor, 90 %,
  runtime − 1); two import streams with ties; announcements made after the commit, debounced, and read
  by clients in two steps. Correct when bookmark and completion history stay coupled, playback never
  takes history away, and a returning client can tell that its resume list has changed.
* **Provider sync.** No row lock is held across the awaits on the provider; refresh tokens rotate; a
  job row, a queue entry and a session row are written at different times; either process may die.
  Correct when a pending authorization can complete, a job is imported once per grant and ends, and
  the user is asked to sign in again only for cause.
* **Device sign-in.** Polls race each other, approvals, denials, expiry, revocation and account
  deletion. Correct when a code mints one session, for whom approved it, and a refusal is final.
* **Home.** Writes overlap in READ COMMITTED transactions, their idempotency records are outside them,
  and renders fill a cache that writes empty. Correct when the active home is one write's, no write
  answers with a home that was never stored, and a stale render is neither shown to who wrote nor kept.
* **Profile PIN.** A row is read, compared for hundreds of milliseconds and written back without a lock.
  Correct, for requests that do not overlap, when every failure counts and the unlock flag belongs to the PIN last set.
* **Database pool.** Work that holds a client asks for another, or for many side by side. Correct when
  every request ends and gives back what it held, and nobody commits beside a query that is still out.
* **SSE slots.** The slot is taken before an await, the handlers that release it come after. Correct when
  the count matches the streams, but for connections that end in that gap.
* **Pages.** Rows move under a cursor with ties, missing times and a coarser clock than the column.
  Correct when no row that stood still is skipped, but by the cursor's rounding, and none comes twice
  unless an import has rewritten them all.
* **Snapshots.** Rows are leased a page at a time, one more than is returned. Correct when, requests apart
  that overlapped, no two clients hold one item and nobody misses an item that was never leased.
* **AI insights.** Deterministic job ids, a bounded wait, workers that die or stall. Correct when a job
  runs once, whoever waits for it is given its row, and no job occupies its id for good.
* **TMDB ingest.** Four kinds of rows in one transaction that may deadlock and be retried. Correct when a
  title is stored whole or not at all.
* **Content identity.** Calls race to give a title its id. Correct when every answer carries the id that was
  stored, with its parents, and a known identity is never taken away.

Each hazard is listed in `PROJECT.json` at the line where it bites, with the properties that cover it
or the reason none does.

## 2. Plan

### 2.1 Modules, in order

| # | Module | Models | Composes with | State |
|---|---|---|---|---|
| 1 | `WriteBehind` | abstract: what the playback buffer promises | implemented by `PlaybackBuffer` | done |
| 2 | `PlaybackBuffer`, `PlaybackBuffer_proof`, `MCPlaybackBuffer` | the Redis buffer and its flushes | refines `WriteBehind` | done |
| 3 | `WatchState`, `WatchState_proof`, `MCWatchState` | rows, writers, announcements, markers | uses of the buffer what `WriteBehind` promises | done |
| 4 | `DeviceAuthorization`, `_proof`, `MC...` | device sign-in, revocation, account deletion | stands alone | done |
| 5 | `ProviderSync`, `_proof`, `MC...` | sessions, tokens, import jobs, queue, worker | its import is `ReplaceImportedInteractions` of `WatchState` | done |
| 6 | `HomeWrite` | idempotency records, the write transaction, pruning | with 7-16 in `MCServing` | done |
| 7 | `HomeCache` | the rendered home's cache, its epoch, background refreshes | its writers commit as those of `HomeWrite` | done |
| 8 | `DefaultHome` | the shared default snapshot and its version | | done |
| 9 | `ProfilePin` | attempt counter, lock-out, unlock flag | | done |
| 10 | `DbPool` | bounded pool, clients taken one inside the other and side by side | the callers named in the deadlock hazard | done |
| 11 | `WatchStream` | SSE slots, subscription, close handlers | | done |
| 12 | `AiInsights` | cache rows, the queue's job ids, bounded wait, workers | | done |
| 13 | `SnapshotLease` | leased pages of a snapshot | | done |
| 14 | `WatchPages` | cursor pages over rows that change | writers as in `WatchState`, the import included | done |
| 15 | `TmdbIngest`, `MCTmdbIngest` | the ingest transaction on shared and separate clients | | done |
| 16 | `ContentIdentity` | racing ids, relations, canonical episodes | its result is `Cascade` of `WatchState` | done |
| 17 | `Requests_proof` | theorems about 9 to 12 | | done |
| 18 | `Home_proof` | theorems about 6 to 8 | | done |
| 19 | `Reads_proof` | theorems about 13 to 16 | | done |
| 20 | `Serving_proof` | `MCServing` is its components | 17 to 19 | done |

The request coalescer was on this plan and is left out: `clear()`, the operation that could race with a
fill, is never called.

The order is by what is lost when a part is wrong: a viewer's progress and history first, then who is
signed in and connected, then what can be recomputed.

### 2.2 Abstract specifications

`WriteBehind` is written and implemented. Worth stating next: a home per source that each write replaces
as a whole (for `HomeWrite`; runs that overlap break it, so the refinement would hold for runs that do
not), and a map from refs to ids in which an entry never changes (for `ContentIdentity`).

### 2.3 Theorems

Proved: every invariant, every action property and the refinement that a passing run checks (section 6);
what is left to TLC is liveness. `NothingLost`, the refinement and `IngestIsAtomic` each have a hypothesis,
which a run that expects a violation shows to be needed. To state and prove next: what the other
`violation` runs leave of their claims, each under the condition that keeps the race of its finding away
(one refresh of a token at a time, no revocation between an approval and its exchange), and the two
abstract specifications of 2.2.

## 3. Modules and the code

Every `await` between two effects that another actor can see is a step boundary. A database
transaction, or a single statement, is one step.

### 3.1 `PlaybackBuffer` — `playback-progress-buffer.service.ts`

| Model | Code |
|---|---|
| `pos`, `dirty`, `processing` | keys `cw:pos:*`, sets `cw:dirty:*`, `cw:processing:*` of one profile |
| `stored` | what the last successful `recordPlaybackState` of the item was given |
| `phase`, `unmoved`, `unread`, `taken`, `failed` | local variables of one activation of `flush` / `flushProfile` |
| `HeartbeatSet`, `HeartbeatAck`, `HeartbeatError` | `bufferProgress`: SET, then SADD, which may throw |
| `Tick` | the interval timer; it does not look whether the last flush has ended |
| `BootDrain` | `flushPendingOnBoot`, whose SMOVEs go from a set to itself |
| `Move`, `Read`, `WriteOk`, `WriteError`, `Finish` | the loops of `flushProfile` and its end (SADD failures, or DEL) |
| `Abort` | a Redis command throws out of `flushProfile` |
| `CrashRestart` | the API process dies and `bin/api.ts` starts it: boot drain not awaited, then the timer |

A position is its rank among the SETs of the item; what is made of it is `WatchState`'s subject.

### 3.2 `WatchState` — `local-user-watch.service.ts`, `local-provider-history-writer.ts`, `watch-change.publisher.ts`

`row` is `user_state.watch_state` with the columns that decide something: `played`, `play_count`,
`playback_position_seconds`, `is_favorite`, `liked IS NOT NULL`, and of `last_played_at` whether it is NULL,
further back than `continueWatchingTtlDays`, or not (`seen`: never, expired, recent). Continue Watching
lists recent bookmarks only (`InResume`). `TtlPasses` is time taking an entry off the list; an import gives a
row the provider's own day, which may already be past the TTL (`Age`), and a vote sets `last_played_at` to
now, which puts an expired bookmark back on the list.
`gen` and `debounce` are the markers and the `cw-dirty` key, `job[a]` the announcements a request or
the flush has still to make after its write has committed, `pend` the promise of the buffer (the newest
report of each item, delivered at least once).
`RecordPlaybackState` decides as `resolvePlaybackDecision` does, one action per request handler follows
(`DismissContinueWatching` ... `DeleteRating`), then `ReplaceImportedInteractions` for the import, and
`Announce`, `Debounced`, `Stamp` for `publishWatchChanged`. `ReadGenerations` and
`ListContinueWatching` are a client that comes back: markers first, then its list. `snap.marks` notes which
bookmarks there were then, listed or not, so that a property can tell an entry that ran out from one that was
written.

### 3.3 `DeviceAuthorization` — `device-authorization.service.ts` and its repositories

`auth`, `device`, `tokens` are the three tables; `poll[p]` is the row a poll has read and acts on
later. `CreateAuthorization`, `Approve`, `Deny`, `RevokeDevice`, `RevokeAllForUser` and `DeleteAccount`
are transactions. A poll is `PollFind`, then `PollRefused` or `PollExchange`, or `PollFails`. User codes
are drawn from a set that may give two codes the same one, because the table has no UNIQUE constraint.

### 3.4 `ProviderSync` — `provider-import.service.ts`, `provider-sessions.repo.ts`, `provider-token-refresh.service.ts`, `provider-import-jobs.repo.ts`, `lib/queue.ts`, `worker/`

| Model | Code |
|---|---|
| `session` | the `provider_sessions` row; `auth` is a history variable, the job created with a pending authorization |
| `status[j]` | `provider_import_jobs.status`; j is the rank of `created_at` |
| `queue[j]` | the BullMQ entry with the job id of import j; entry 0 is the profile's `provider-refresh` |
| `act[a]` | where a request or the worker stands and what it has read |
| `valid` | refresh tokens the provider accepts (external) |
| `StartAuthorization`, `StartCommit` | `startProviderAuthorization`: read and revoke, then the transaction |
| `CallbackFind`, `CallbackJob`, `CallbackExchange`, `CallbackCommit`, `Enqueue`, `Schedule` | `completeOAuthCallback` and what follows its commit |
| `ImportNow`, `CreateImport`, `Enqueue` | `importProviderNow` |
| `AccessToken`, `RefreshExchange`, `RefreshWrite` | `getAccessTokenForAccountProfile` and `refreshConnectedSession`, shared with `ImportNow` and the worker |
| `Disconnect`, `DisconnectCommit` | `disconnectProviderSession` |
| `WorkerTake` ... `WorkerReturn` | the worker's two processors and BullMQ's treatment of a completed and a failed job |
| `ApiCrash`, `WorkerCrash` | either process dies; the worker's entry is delivered again |

`overlap` records that an authorization committed, or a callback began, while a callback was in progress.

### 3.5 The serving components, composed in `MCServing`

Eleven modules that share no state are checked in one run: `part` says which of them moves and never
changes, and the others stay in their initial states, so the state graph is the union of theirs. Each
module has variables with a prefix of its own and can be instantiated alone.

**`HomeWrite`** (`home-write.service.ts`, `home-lists.repo.ts`, `home-write-idempotency.repo.ts`)

| Model | Code |
|---|---|
| `hwActive`, `hwVersions`, `hwStamp` | runs with active rails, runs with rows at all, their `created_at` |
| `HwCheck` | the idempotency record is looked up and its hash compared; the time of the run is taken |
| `HwUpdate`, `HwWrite` | the UPDATE selects in its snapshot, then deactivates and inserts |
| `HwPrune`, `HwCommit`, `HwSave` | `pruneSnapshots`, COMMIT, then the record in a statement of its own |
| `HwFail` | the transaction fails, or the process dies before the record is saved |

A run stands for all its rails, because rail ids are fresh UUIDs; the content of a rail is left out.
`hwMet` remembers which calls overlapped, for the properties that promise nothing to those.

**`HomeCache`** (`home-resolver.service.ts`, `home-cache.ts`). A home is the number of changes it
includes. `HcCommit`, `HcScan`, `HcDel`, `HcBump` are a write and the KEYS, DEL and INCR of its
invalidation; `HcGet` serves what is cached, stale or not, and starts a refresh; `HcResolve` is the
writer's own read; a build is `HcBuildEpoch`, `HcBuildRead`, `HcBuildCheck`, `HcBuildStore` (whose publish
may fail after the SET) or `HcBuildFail`; `HcAge` and `HcExpire` are the two ages of a payload.

**`DefaultHome`** (`default-home/`). `DhEdit` and `DhBump` are an admin's edit and its bump of the version,
`DhMiss`, `DhRead`, `DhStore`, `DhStoreMarked` a build that names its keys before it reads the templates.

**`ProfilePin`** (`profile-pin.service.ts`, `profile-unlock-store.ts`). `PinRead` reads the row and refuses
what the code refuses; `PinSet`, `PinWrong` and `PinRight` write its three columns back; `PinFlag` sets or
deletes the unlock flag; `PinLock` deletes it on request and `PinLockPasses` lets a window pass.

**`DbPool`** (`lib/db.ts`). `DbBegin` starts a request, `DbConnect` asks for a client inside the work of
those it holds, and `DbFanOut` is `Promise.all` over pool queries inside that work (`nextVersion` of every
list in `writeHome`'s transaction): all of them ask before any has a client, and each goes on by itself from
there. `DbServe` gives an idle client to the oldest waiter, `DbTimeout` is the connect timer, of a request or
of one query. `DbReturn` ends work whose queries have all succeeded, `DbFail` work of which a statement or
one query was rejected, while the other queries are still out; `DbRelease` (`finally`) and `DbEnd` follow.

**`WatchStream`** (`http/routes/watch.ts`). `WsOpen` takes a slot and begins to subscribe, `WsSubscribed`
registers the close handlers, `WsSubscribeFails` throws, `WsClientGoes` fires the events that are listened
to, `WsFinish` runs one of the two.

**`AiInsights`** (`ai-insights.service.ts`, `ai-generation.worker.ts`, `lib/queue.ts`). A call is `AiAsk`,
`AiReadCache`, `AiEnqueue` under a deterministic id, `AiReread` after the wait, however it ended. A worker
slot is `AiTake`, `AiResolve`, `AiStore`, `AiEnd`; `AiWorkerDies` and `AiStall` are a death and BullMQ's
check for jobs without a lock (`maxStalledCount: 0`). A job id coalesces callers only while its job is there.

**`SnapshotLease`** (`eligible-profile-snapshot.service.ts`, `.repo.ts`). `SlSelect` and `SlUpdate` are the two
halves of one statement, `SlLapse` the end of a lease, `SlResponseLost` a page that never arrives.

**`WatchPages`** (`local-user-watch.service.ts`, `watch-read-helpers.ts`). `WpPlay`, `WpMark`, `WpUnmark`,
`WpClear`, `WpDelete` are what requests do to a row's time and mark, `WpImport` replaces all rows by a
provider's with its past times, `WpPage` is the next page and its cursor, `WpRefuse` the 400 for a cursor
without a time.

**`TmdbIngest`** (`tmdb-ingest.service.ts`, `tmdb-cache.service.ts`). `TmFetch` or `TmMark` (not found), then
`TmBegin`, `TmWrite` per table, `TmCommit`; `TmWriteFails` with `TmRollback` and its retries, `TmLost` for a
connection that breaks. `ConnOf` says which client an ingest was given.

**`ContentIdentity`** (`content-identity.service.ts`, `.repo.ts`). `CiBegin`, then for each stage `CiSelect`
(what the statement's snapshot shows), `CiInsert` (row by row, waiting for calls that have not committed),
`CiSelected` (read back), `CiLink` (the parents), and `CiCommit` or `CiFail`; `CiAsk` is a canonicalization.

## 4. Runs

| Run | Question | Bounds | Result |
|---|---|---|---|
| `buffer` | with one flush at a time, is anything accepted ever lost, stored out of order, or never stored? | 2 items, one whose write always throws; 2 heartbeats each; 1 crash; 1 Redis failure | holds, 23,779 states |
| `buffer_overlap` | does "a crash mid-flush cannot drop buffered progress" survive two flushes at once? | 2 flushes, 1 heartbeat each, 1 crash | **violated** (finding) |
| `watch_state` | do reports, requests, imports and faults keep rows coupled, history safe, changes visible? | a show with one episode, no TMDB runtime; positions 0 and 18 of a reported 20 s, 0 of 1 s, 18 without a duration; an import of a finished or unfinished playback or an older history, with or without a vote of an expired day; 2 reports, 1 request or import, 1 fault | holds, 2,564,372 states |
| `watch_marked` | is a mark-watched final until a later report? | TMDB runtime 20 s; 1 report, 1 request | **violated** (finding) |
| `watch_markers` | does a surface's own marker cover its list? | TMDB runtime 20 s; 1 report, 1 request | **violated** (finding) |
| `device` | one session per code, for whom approved, none after a refusal | 2 codes, user codes, devices, accounts, polls; symmetry | holds, 413,372 states |
| `device_liveness` | does a TV that keeps polling get its session? | 2 codes, 1 account, 1 poll | holds, 140,451 states |
| `device_revoked` | does revoking a device end all its sessions? | as above | **violated** (finding) |
| `provider_sync` | pending sessions, single import, monotone status, and an end for every queued job | 2 requests at once, 3 in all, 3 tokens, 1 crash | holds, 177,408 states |
| `provider_reauth` | is reauthorization asked for only for cause? | 4 requests, 3 tokens, no crash; symmetry | **violated** (finding) |
| `serving` | do the eleven serving components keep their promises under races, crashes, timeouts and retries? | per component, below | holds, 664,499 states |
| `tmdb_shared` | is an ingest one transaction? | 2 titles ingested on one client, as `getTitles` does | **violated** (finding) |

Why the bounds are enough. *Buffer*: two items are needed for one to fail while another succeeds, two
heartbeats for one to overtake a flush that has read the first; a crash can fall between any two steps.
*Watch state*: the reports sit on each side of the 5 %
floor and of the 90 % threshold (18 of 20 s is not yet more than 90 %), include a runtime of one
second, whose position 0 is past runtime − 1, and a report with no duration at all; the two items are a
cascade and its member. One request is enough beside two reports and the import, because what requests do to
each other's rows is covered by the theorems, which bound neither.
Markers are compared for difference only, so two announcements are enough for
one to be lost. *Device*: every race of the code is between two actors over one row, and the second code
is there for user code collisions. *Provider*: the races are between a pair of requests, or a request and the
worker, over one row; a third request, in sequence, is the one that comes after.

*Serving*: each component has the smallest number of actors at which its hazard occurs, and one more where
a bystander matters.

| Component | Bounds |
|---|---|
| `HomeWrite` | 3 calls under one key, one of them with another body; 2 earlier runs, 2 runs kept: a run can be pruned while active |
| `HomeCache` | 2 server processes, 1 writer, 2 homes, 1 failed build: a build of either process straddles a write |
| `DefaultHome` | 2 admins, 2 builds, 2 edits or bumps: a build can miss one version and land in the next |
| `ProfilePin` | 2 PINs, 2 requests at once, lock-out after 1 failure, 1 tier, 3 failures in a row |
| `DbPool` | 2 clients; 3 requests: one client inside another, 3 inside each other (more than there are), and one with 2 queries side by side |
| `WatchStream` | 4 connections, 2 slots |
| `AiInsights` | 2 users, 2 versions, 2 slots: users share a job or change to each other's version |
| `SnapshotLease` | 3 items, 2 clients, pages of 1: first, middle and last page each with and without look-ahead |
| `WatchPages` | 3 rows, pages of 1, 2 instants per millisecond, 1 write or import between pages, of 2 imports: all in the past, or one row at now and one without a time |
| `TmdbIngest` | 2 ingests of one title on two clients, 3 tries |
| `ContentIdentity` | 4 calls: a transaction of titles and episodes, single statements, a canonicalization, an import that names the refs in another order |

The liveness runs use no
symmetry. `CHECK_DEADLOCK FALSE` throughout: every one of these systems may
rest, and the bounds end every run.

What the theorems say they say for every number of actors, so these bounds matter for the liveness
properties, for the findings and for telling that the models do something at all. Beyond them, TLC establishes the liveness properties, finds the shortest traces behind
the findings and, through the mutants, shows that a plausible bug would violate each property.

## 5. Fairness

* `PlaybackBuffer`: weak fairness of each step of a flush (the event loop runs what is begun, the timer
  fires again) and strong fairness of a successful write per item that is not poisoned: writes may fail
  again and again, but the database is not down for good. Heartbeats, crashes and aborts are not fair.
* `DeviceAuthorization`: strong fairness of a code's poll while it has no final answer, and of what a
  poll does with what it read: a TV polls until it is answered, and not all its polls fail. Approving,
  expiring and deleting are not fair.
* `ProviderSync`: weak fairness of what a request or the worker has begun (the provider answers in the
  end, if only with an error) and strong fairness of the delivery of each waiting entry, which is
  BullMQ's promise. Requests need not arrive. `QueuedJobEnds` speaks of behaviours without a crash,
  because nothing in the code sweeps jobs a crash has left queued or running.
* `HomeCache`: weak fairness of a build that has begun (queries return or fail), of time passing until a
  payload is stale, and of clients that ask again. Writes need not arrive. `StaleIsReplaced` would be false
  without the clients: nothing else starts a rebuild.
* `DbPool`: one weak fairness of all steps of requests that have begun, of their queries and of the pool
  that hands out idle clients: whoever has its clients goes on, and the connect timer fires for who waits, so
  the pool as a whole does not stand still.
* `AiInsights`: weak fairness of the slots as a whole, and of BullMQ's check for stalled jobs. Callers need
  not return.
* In `MCServing` these are conditions on the component that moves. `part` never changes, so one condition
  serves a different component in each of its disjuncts.

## 6. What is proved

All proofs are for arbitrary constants under the named assumptions of each module (`BufferAssumption`,
`WatchAssumption`, `DeviceAssumption`, `SyncAssumption` and one per serving component), which TLC evaluates
in the runs as well. They say that a "nobody" is none of the values, that a bound is a number, and what the
functions among the constants range over. Two say a little more: `HomeWriteAssumption`, that the runs stored
to begin with are at most as many as pruning keeps, and `ContentIdentityAssumption`, that what a call
ensures are titles, seasons and episodes as the `ensure*` methods send them (`IsStage`), in any number and
order. No set of actors is assumed to be finite.

**`PlaybackBuffer_proof`.** `BufferTypeCorrect`: type correctness. `NothingLostTheorem` and
`BufferRefinesWriteBehind` have the hypothesis `SingleFlight` (there is one flush at a time); the run
`buffer_overlap` shows that they fail without it. `NothingLost` is not inductive: one must know that a flush that is about to delete `processing` has
written every member of it. The invariant has two layers. `TypeOK` and `Tracking` (no number anywhere
is ahead of the buffered position, and whatever is named by a set or a flush has one) hold whatever
overlaps. With `SingleFlight` there are also `Phases` (a flush that is not flushing carries nothing, and
moves all before it reads), `FreshReads` (what a flush has read is no older than the store, nor than
what was accepted unless the item is dirty again), `LeftoversCovered` (after the drain on boot has begun,
a pending member of `processing` is dirty or in the hands of the flush) and `NothingLost` itself.
The refinement maps `offered` to `pos`: a write is a `Store` step because what the flush carries lies
between what is stored and what is offered.

**`WatchState_proof`.** `WatchTypeCorrect`, `RowConsistentTheorem`, `PlaybackKeepsHistoryTheorem`, and
`ResumeChangeAnnouncedTheorem`. The last needs two
facts besides types: a number drawn from the clock is used once, by no marker, client or other
announcement (`Fresh`); and every change since the client's list has its debtor (`Covered`), where a set
of markers is due (`Due`) if one of them has moved or an actor has still to announce nothing but them
(`Owes`). A changed bookmark makes the two resume markers due; a bookmark that is as it was but has come
back on the list makes one of the three due, because it is either written anew or voted for; and what is as it
was and has left the list has run out. For the rows the invariant is `RowsOK`, the types and the coupling
together.

**`DeviceAuthorization_proof`.** `DeviceTypeCorrect`, `SingleUseTheorem`,
`SessionFollowsApprovalTheorem`, `RefusalIsFinalTheorem`. The invariant: `Ledger` (a code has been minted
at most once, and then is consumed), `Ownership` (the device bound to a code is a row of the account
that approved it), `Sessions` (each token repeats the row of its code, which is consumed), `Readings`
(what a poll has read is behind the row by legal steps only) and `Refused` (a final answer was given only
for a code that has expired, was denied or is consumed).

**`ProviderSync_proof`.** `ProviderTypeCorrect`, `PendingHasItsJobTheorem`,
`ImportedOncePerGrantTheorem`, `JobsMoveForwardTheorem`, for any number of concurrent requests. The
invariant: `Numbered` (job numbers are given out once), `Control` (what each actor may assume of the job
it knows: it does not exist yet, it is pending unless callbacks overlapped, it has begun, it is running
while the worker holds it), `QueueKnows` (only jobs that were queued have entries), `SessionKnows` (a
pending session's own job is pending, which is why `PendingHasItsJob` holds whatever overlaps) and
`Budget`: imports made, plus one if the status is queued, plus one if the worker has taken it
up and not imported yet, never exceed the times it was queued.
The proof has a lemma per action; actions that leave jobs alone go through `CalmStep`, those of a
request that move a job through `JobStep`, those of the worker through `WorkStep`.

**`Requests_proof`** (`WatchStream`, `DbPool`, `ProfilePin`, `AiInsights`).

* `StreamsKeepSlots`. That the count equals the slots taken is not inductive: a second close handler would
  give a slot back twice. `WsClosing` says that a listener is left only on an open connection whose client
  went after it was made, and that a connection whose flag is set has not lost its slot.
* `PoolKeepsClients`. An idle client goes to the oldest waiter, so one must know of every
  waiter that it is still at work, waits once and has no queries out (`DbWaiting`), and of every holder that
  it has not ended (`DbHolding`). `DbOutlive` is the other half: a request that unwinds or has ended beside
  queries of its own is one that a rejected query has failed.
* `UnlockIsVerified`, `FailuresAreCounted`. `PinComparing`: unless a request is stale or the observations
  were given up (`pinTorn`), the row it compares with is the row that is stored, and below the limit.
* `InsightsRunOnce` (a job runs once; not that callers of one moment share a job, see section 8),
  `InsightsAreServed`. `AiJobs` (a job that is there was enqueued by a caller of its
  version, and has run only if active), `AiRuns` (a slot owns its job until a stall takes it away, and no
  other slot owns that job), `AiCalls` (a row stored while a caller waited is the one it asked for, unless
  settings changed).

**`Home_proof`** (`DefaultHome`, `HomeCache`, `HomeWrite`).

* `DefaultHomeIsCurrent`. `DhBehind`: no builder's key is ahead of the version, and what was read for the
  current version includes every edit that was bumped, because a builder names its key before it reads.
* `CacheIsNotStale`, `WriterReadsOwnHome`. `HcOrder`: a build whose epoch is still current has read at least
  every announced home; `HcLooked`: past its look at the keys a writer has no unmarked payload before it;
  `HcWriters`: the rebuild a writer awaits has read its home, or the writer is excused.
* `HomeComesFromOneWrite`, `PruneKeepsNewest`, `RecordedAnswersAreCommitted`. `HwOverlaps`: an open
  transaction has met every active run its UPDATE will not deactivate. For pruning, a set is to be named
  that no variable holds, the runs a statement kept: `HwKept` and `HwRemoved` say that one exists, of the
  size kept, no older than what is removed; the step of the COMMIT then counts.

**`Reads_proof`** (`TmdbIngest`, `SnapshotLease`, `WatchPages`, `ContentIdentity`).

* `TitlesAreAtomic` has the hypothesis `OwnClient`: no two ingests are given the same client, as every
  caller but `getTitles` sees to. `tmdb_shared` refutes it without. `TmTransactions`: a client has a
  transaction exactly while its ingest writes, and pending in it are the parts that attempt has written, of
  its own title only. The type invariant needs no such hypothesis.
* `LeasesKeepApart`, `TraversalsPassNothing`. `SlHolding`: who holds an item has met whoever has selected
  it and not updated yet; `SlReading`: every item up to a cursor was covered by a page, and a statement
  leaves an uncovered item out only beyond a full page. The first `PageLimit` of a selection are what moves
  the cursor: `FirstFew` counts them.
* `PagesMissNothingElse`. `WpReads`: until an import what the client has is above the cursor, and an unwritten
  row it has not is below the cursor or shares its millisecond (`WpImportStep`: an import writes every row).
  The arithmetic (a time cut to a block of `PerMilli`, the
  lexicographic order of a page, what a cursor made of its last row is above and below) is in
  `DivisionFacts`, `SameBlock`, `TruncatedFacts`, `EarlierOrders`, `FirstOfFacts`, `PageFacts`, `CursorFacts`.
* `AnswersAreStored`, `CanonicalItemsStay`, `StoredIdsStay`. The invariant is per call: what it has pending is new or its own
  (`CiOwn`), the ids it was given are the stored ones or those it is about to store (`CiGiven`), the stages
  behind it are related (`CiRelated`); and no ref is pending twice (`CiApart`), which is what waiting for
  rows of others is for. `Over`, which replaces a relation of the same child and type, never replaces
  anything: an item's parent of a type is one ref, and a ref has one id (`LinkUnique`, `OverIsUnion`). That is
  also why what is stored only grows (`CiGrows`), which gives the action property.

**`Serving_proof`.** `ServingIsComponents`: a behaviour of `MCServing` is a behaviour of each of the eleven
components, so the theorems above hold of the run; `ServingTypes`: `TypeOK` of the run.

## 7. What is only model-checked

`AcceptedIsStored`, `ApprovedGetsSession`, `QueuedJobEnds`, `StaleIsReplaced`, `EveryRequestEnds` and
`JobsLeave` will stay so: liveness under fairness is out of the
prover's reach (it has no rule for ENABLED). No module here has a RECURSIVE operator, and no statement
needs induction over data.

## 8. Abstractions, and what is not modelled

* **Buffer**: key TTLs, `stop()`, and the parsing of keys are left out. `NothingLost` and
  `AcceptedIsStored` speak of runs without an aborted flush (`aborts = 0`), since an aborted flush leaves
  members in `processing` that the next successful flush deletes (a listed hazard). Profiles are
  independent, so one is modelled.
* **Watch state**: the 90 % and 5 % thresholds are compared exactly in integers, where the code divides
  floating-point numbers; of the times only the side of `continueWatchingTtlDays` they are on is kept, and
  every announcement has a later `Date.now()` than the one before it. An expired row without a bookmark is told
  apart from a recent one only after an import, because nobody reads the age of such a row.
  `Stamp` is the SET of the marker and the forced SET of `cw-dirty` in one step. The import transaction is
  one step and chooses any set of rows its computation can produce. Writes that announce nothing by design
  (debounced ticks, imports) or by a fault set `silent`, and `ResumeChangeAnnounced` excludes them.
  It excludes two changes more, in which no bookmark is written: an entry whose time is over leaves the list with
  no marker at all, and a vote (`setRating`) brings an expired one back and moves the ratings marker only.
* **Device sign-in**: the poll interval, rate limits, code lengths and names are left out; a poll that is
  told to slow down is no step. Lookup and list do not write.
* **Provider sync**: the revocation at the provider and the read before it are one step. The provider
  never takes a token back on its own, and a connected session always has both its tokens. Whether a
  token expires soon is nondeterministic. `succeeded_with_warnings` counts as `succeeded`; progress rows
  and cursors are left out. The final status write does not fail. BullMQ's delivery of a job
  that is still running (a stalled lock) is not modelled. Marks that a transaction makes and rolls back by
  throwing (expired and denied authorizations) are no step. `JobsMoveForward` and `QueuedJobEnds` speak of
  runs without overlapping callbacks: two callbacks of one authorization do reopen its job (a listed
  hazard).
* **Home writes**: `nextVersion` reads the highest version of a list key that is a fresh UUID, so it is 1
  each time, and versions are left out. `clearHome` is called by nothing.
* **Home cache**: one key stands for the locales of a profile, and the queries of a build are one read.
  The promise of a background refresh resolves to undefined (`home-resolver.service.ts:91-106`), so a GET
  that finds no payload and joins one fails; the model answers `NoHome`, and `OwnWriteIsServed` excludes it.
* **Profile PIN**: bcrypt is a comparison; `pinTorn` marks histories in which requests overlapped or died half
  done, of which the properties promise nothing, because the code takes no lock. Settings that demand a PIN to
  add profiles, and the guard that reads the flag, are left out.
* **Pool**: a request acquires clients until it is as deep as it goes, or fails on the way, and then gives them
  back; one that releases an inner client and asks again is two requests. Queries run side by side once, at the
  deepest, and never nest. When the connect of one is rejected, the request rolls back and ends while the others
  still queue for clients and hold them: `NoClientLeaks` says that these alone outlive a request, and
  `EveryRequestEnds` that they end too. That their rejections or results reach nobody is not modelled.
* **SSE**: what is written to a stream, and the heartbeat, are left out.
* **Pages**: the cursor carries milliseconds where the column has microseconds, so rows of the millisecond
  of the last row that a page did not reach are passed over (marking a show or season watched stamps many rows at once), and a last row
  without a time yields a cursor that the next request refuses with 400. Both are in the model and are the
  two losses that `PagesMissOnlyByCursor` allows. An import under way rewrites every row with the provider's
  times, so a row already returned may fall below the cursor and come again; the property promises nothing about
  that once an import has run. An imported time is at most the last one `now()` may give. Continue-watching pages and next-up are left out.
* **AI insights**: a job stores its row under the version its user's settings give when it runs. Whoever
  waited for another version may then get a 504 though the job succeeded; `GeneratedIsServed` allows that
  when the user the job ran as has changed settings since asking. The comment at
  `ai-insights.service.ts:88-90` ("so a burst for the same content produces one LLM call") holds only of callers
  that enqueue while the job is there: one that missed the cache, and enqueues after the job has stored its row
  and been removed, generates a second time, because nothing looks at the row again between. The model has that
  behaviour; `JobRunsOnce` is about one job and denies it no more than the code does. The comment at `lib/queue.ts:9-14` mentions a job timeout that nothing sets.
* **Snapshots**: RETURNING has no order, so which of the leased rows is the look-ahead is open; nothing calls
  `markItemsCompleted`.
* **TMDB**: seasons, images and the rows of related titles are left out of the ingest. Reads
  of the cache are not modelled. Seen while reading and not checked: `getTitle` answers null for a not-found row
  whatever its age (`tmdb-cache.service.ts:66`), where `getTitles` ingests it again; a failed refresh job stays
  under its fixed id, so that title is refreshed no more by that path (`:72`); `purgeExpiredImages` has a LIMIT in a
  DELETE, and nothing enqueues the purge.
* **Content identity**: one show, one season, one episode under two namespaces; a canonicalization's three
  reads are one, since rows only grow. A TMDB id that arrives once a call has seen the add-on's ref stored is
  not recorded, because only missing refs are inserted; in a race the metadata of both are merged, and the
  loser leaves an item without a ref, which nobody reaches. That item is left out. How a TMDB id is derived from a payload (any numeric provider id of a film or show is
  taken for one) is left out.
* **Refresh job**: it re-enqueues itself under its own id while it is active, which BullMQ ignores
  (`provider-refresh.job.ts:6`); `ProviderSync` models an entry that is not renewed.
* **Not modelled at all**: see `components` in `PROJECT.json`, each with its reason. In short: stateless
  translation of provider payloads; request/response calls to external services; read-through caches over an
  external catalogue; single-statement CRUD; grants checked against slowly changing rows; app runs and batches, whose
  statuses are overwritten without a condition; rate limits, which are one counter per window; change feeds and
  the recommendation outbox, which have readers and nothing that appends; rendering. Most of the repository's
  lines are of this kind (generated API types, HTTP contracts and routes, the admin UI, SQL column lists and view builders), so the
  lines mapped to a definition remain a small share of them.

## 9. Findings

Six places where the code does something else than a comment, a document or a test says; `PROJECT.json`
quotes each.

1. `buffer_overlap`: overlapping flushes share one processing set, and the DEL of one covers members
   another has not written.
2. `watch_marked`: a position accepted before mark-watched and flushed after it undoes it.
3. `watch_markers`: deleting history changes the resume list and moves only the history marker.
4. `device_revoked`: revoking an approved device before the TV's exchange leaves the exchange to mint a
   live session.
5. `provider_reauth`: the loser of two concurrent refreshes of a rotating token wipes the winner's
   valid credentials.
6. `tmdb_shared`: ingests that run at the same time on one client share its transaction, and a title is
   stored without its relations.
