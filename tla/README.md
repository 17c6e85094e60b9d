# Verification project of the social media API

TLA+ models of the concurrent core of this FastAPI backend, TLC configurations
that check them on small instances, and proofs of their safety properties for
every instance. Each definition is translated from the code under `src/`; the
correspondence, line by line, is in `PROJECT.json` (`map`).

    tlc -workers 2 -config RefreshTokens.cfg MCRefreshTokens   # one run
    tlapm RefreshTokensProofs.tla                              # one module of proofs

## 1. The system

An asynchronous web application: several gunicorn workers, each an event loop in
which a request is suspended at every `await`; PostgreSQL at READ COMMITTED
through one SQLAlchemy session per request (`db.py:55-68` commits nothing by
itself and rolls back on the way out); Redis for caches, tokens' grace windows,
idempotency records, rate limits and pub/sub; RabbitMQ and Celery workers for
mail, notifications and periodic repairs. Requests of one user race with each
other all the time: a client retries after a timeout, a user clicks twice, two
devices share an account. Nothing in the process serialises them. What does is
row locks, unique keys, `version_id` columns, `SET NX` and `WATCH`, each used in
some places and not in others. That is what the models are about.

| Component | State | Operations | Interacts with |
|---|---|---|---|
| refresh-token sessions (`services/token_service.py`, `routes/auth.py`) | `refresh_tokens` rows, the Redis key `rotation_grace:{token}` | login, rotate, reuse detection, logout | PostgreSQL row locks, Redis |
| idempotency keys (`services/idempotency_service.py`) | one Redis record per user, endpoint and key | the decorator around every mutating route | every mutating route |
| votes and counters (`routes/like.py`, the trigger migration, `services/reconciliation_service.py`) | `votes` rows, `posts.likes`, `posts.dis_likes` | vote, toggle, switch; the reconciliation | notifications, the beat schedule |
| background tasks (`celery_app.py`, `tasks/`) | RabbitMQ queues, unacknowledged deliveries | publish, run, retry, reject, revoke, purge | every route that notifies or mails |
| rate limiter (`services/rate_limit_service.py`) | one Redis hash per user or address and scope | refill and consume under `WATCH` | every limited route |
| post views (`routes/posts.py`, `tasks/post_view_flush_task.py`) | the Redis set `post:views:queue`, `posts.views` | queue on a cache miss, flush, reconcile | the post cache, the beat schedule |
| one-time codes and passwords (`services/otp_service.py`, `routes/changepassword.py`, `routes/auth.py`) | `otps` rows, the versioned `users` row | issue, verify an address, reset, change | mail tasks, the transient-retry wrapper |
| follows (`routes/connect.py`, the trigger) | `connections` rows, two counters in `users` | follow, unfollow, remove | notifications, the caches |
| chat, sockets, presence (`messaging/`, `utils/socket_manager.py`, `main.py`) | one dictionary of sockets per worker, `messages`, `shared_posts` | connect, catch up, send, edit, delete, react, read receipt | Redis pub/sub |
| access tokens and the auth cache (`oauth2.py`, `routes/auth.py`) | signed tokens, token blacklist and cached users in Redis | issue, authenticate, drop the cached user, logout | every route, refresh tokens |
| response caches and feed versions (`services/redis_service.py`; `routes/posts.py`, `users.py`, `feed.py`, `comment.py`, `notifications.py`) | twelve kinds of cached bodies, version counters | read through, delete behind a commit, expire | every reading and writing route |
| posts, comments, saved posts, search, media, notifications, admin | rows and blobs | single-transaction reads and writes | the trigger, the caches |

What is hard, by component, and the property that answers it:

* **Refresh tokens.** Two rotations of one token, a retry between the rotation's
  commit and its grace key, a sweep (`UPDATE ... WHERE family_id`) that runs
  while a rotation inserts a row it does not see, two sweeps that lock each
  other's rows, a crash or a Redis failure between commit and answer. *A session
  never has two live tokens; retries agree; every request is answered.*
* **Idempotency.** The record is read, claimed, and settled by three separate
  Redis calls around a handler of any length; any of them may fail and is
  ignored. *The change is made once; a replay is a genuine, matching one.*
* **Votes.** The route decides on a vote it read without a lock. The repair
  counts in a snapshot and may wait for a row. *The counters are the votes.*
* **Tasks.** Late acknowledgement, retries published as new messages, a
  dead-letter queue the same workers consume, worker loss at every point. *No
  task is silently lost; it takes effect once unless it was hurt.*
* **Rate limiter.** The clock is read once, before an unbounded optimistic loop.
  *Admitted calls are paid for.*
* **Post views.** Two stores, no transaction across them, overlapping runs.
  *No queued view is lost; none is counted too often without a reason.*
* **One-time codes.** The check commits, which releases the lock its caller
  took. *A code is accepted once; a password change replaces what it checked.*
* **Chat.** Handlers of one user's sockets share a dictionary entry across
  awaits; a catch-up, edits, receipts and local fallbacks all move the read mark.
  *A content is taken as unread once; what is marked read was written; a closed
  socket leaves the dictionary.*
* **Follows.** One statement changes a row and, through the trigger, two user
  rows in an order that depends on who follows whom: users who follow each other
  deadlock. *The counters are the rows; the answers add up to what happened.*
* **Response caches.** A body is stored after the reads it was made of, and the
  deletion that should remove it may run in between, fail or be forgotten.
  *A stale body has one of four reasons, and is gone in the end.*
* **Access tokens.** The cached user stands in for the check of signature and
  expiry, and comes back after a logout deleted it. *Behind a logout the token is
  refused; past its expiry it is not accepted for long.*

## 2. Modules

| Module | What it is |
|---|---|
| `RefreshTokens` | the rotation protocol over rows, row locks and the grace key |
| `SessionChain` | its abstract specification: a session is a chain of tokens of which at most one is usable |
| `Idempotency` | the decorator and its record |
| `Votes` | vote requests, the trigger, the reconciliation |
| `TaskQueue` | broker, workers, retries, dead letters, beat |
| `RateLimiter` | the token bucket |
| `PostViews` | the view queue, the flush and the reconciliation |
| `OneTimeCodes` | codes, the three requests that consume one, the versioned user row |
| `Chat` | sockets, handlers, catch-up, commands, pub/sub |
| `Follows` | the graph of follows, the trigger's two counters, row locks |
| `ResponseCache` | every cached body and every write it shows, one key at a time |
| `AccessTokens` | issue, cached user, blacklist, logout, against the clock |
| `Posts`, `Requests` | the constants that two models share: posts and users; requests |
| `MC<module>` | the instance TLC checks: constants, and an order on interchangeable identifiers where liveness forbids symmetry |
| `RefreshTokensProofs`, `TaskQueueProofs`, `OneTimeCodesProofs`, `FollowsProofs`, `ChatProofs` | the theorems about one module, with their proofs |
| `RequestGuardProofs` | those about `Idempotency` and `RateLimiter`, the two guards in front of a mutating route |
| `PostCountersProofs` | those about `Votes` and `PostViews`, the counters of a post |
| `CacheProofs` | those about `ResponseCache` and `AccessTokens`, the two caches in Redis |

Common conventions. `pc[r]` is the await (or the statement) request `r` is
suspended at; everything the code does between two awaits is one action, with
all its assignments. A transaction's write, its trigger and its commit are one
action where the row lock makes them so, and several where a lock can be waited
for in between. "History" variables record what happened for the properties and
are never read by a guard. A definition marked `BUG variant` is a plausible slip
of the definition after it; it is in no next-state relation. Where one module of
proofs covers two models, the definitions of the second carry its name
(`BucketInit`, `ViewsSpec`, `AuthNext`, `BucketTypeOK`).

**RefreshTokens.** `issued`, `revoked`, `expired`, `family` are the columns of
`refresh_tokens`; `lockedBy` the row locks; `grace` the Redis keys; `snap[r]` the
rows an `UPDATE` saw when it began (READ COMMITTED: a row inserted later is not
revoked). `LockToken` is the `SELECT ... FOR UPDATE` with its branch,
`RotateCommit` the commit of successor and revocation, `SetGrace` what follows
it. `SweepLock` takes one row lock at a time in any order, so cyclic waits occur;
`DeadlockAbort` is PostgreSQL's choice of a victim, which this service does not
retry. `overtaken[r]` is history: the sessions of which a rotation committed while
the `UPDATE` of `r` had its snapshot and not yet its commit. `Faults` allows Redis failures and worker deaths.

**Idempotency.** `store[k]` names the request that wrote the record, which stands
for its hash and body. `GetMiss`/`GetHit`, `Claim`, `Commit`, `HandlerRaises`,
`Complete`, `Cleanup`, `Expire` are the decorator's calls in order. A failed
`SET NX` counts as won (`idempotency_service.py:119-130`), and both exits write
unconditionally, so a slow handler can overwrite another's record.

**Votes.** `ReadVote`, then `Remove`, `Switch` or `Add` by primary key on whatever
row is there; `SyncCounts` is the trigger with its `GREATEST(n - 1, 0)`. The
reconciliation is one statement per counter and one commit: `want` is what the
statement's snapshot computed, `fix` the uncommitted repairs, whose rows are
locked.

**TaskQueue.** `ready[q][m]` counts copies in a queue, `job[w]` is an
unacknowledged delivery. `Commit` and `Raise` split a task at its effect. The
worker of `docker-compose.yml` names no queue and so consumes the dead letters.
`reconcile` and `flush` are scheduled but in modules no worker imports, so
`Reject` is all that ever happens to them (`tasks/__init__.py:1-4`). A message also
leaves its queue early: `RetryFails` is a `self.retry` whose publication raises,
which Celery turns into a rejection without requeue; `TimeLimit` is the pool
killing a run, rejected too since `task_acks_on_failure_or_timeout` is off. `cut`
counts both. (Releases of Celery differ here: some requeue a killed run, which is
what `Crash` does. The soft limit raises in the task: `Raise`.) An administrator's
`Revoke` is remembered by the workers that hear it, which then `Discard` the task's
messages; a worker started later does not know, so `Take` stays possible.
`Terminate` is the same call with `terminate=True`. `Purge` spares retries whose
countdown runs, because a worker holds those already.

**RateLimiter.** Tokens are kept in units of `1/Window` call so that the
proportional refill stays exact in integers. `dirty` is what `WATCH` remembers.
`slip` adds up the time that was refilled twice because an older timestamp was
written over a newer one.

**PostViews.** `Open` queues the view and caches the post; `FlushStart`,
`FlushUpdate`, `FlushRemove` are `smembers`, the bulk `UPDATE` and `srem`. `again`
marks the views for which a second count is explained.

**OneTimeCodes.** One account. `copy[r]` is the user object in a session, loaded
under the lock or, for a password change whose auth cache missed, before it;
`Write` compares `version_id`. `CheckRead` and `Consume` are the two halves of
`checkOtp`; `Transient` is `run_with_transient_retry`.

**Chat.** One step of a handler per await. A message's content is an item
`<<m, version>>`; `Load` and `Claim` are the `SELECT ... FOR UPDATE SKIP LOCKED`
and the committed `UPDATE` of the catch-up, `Update` and `Commit` the two ends of
a command's transaction, during which its rows are skipped by catch-ups. `Push`
is what a send does to the dictionary: a payload with `sender_id` and
`receiver_id` raises in `get_presence_payload` and drops the recipient's socket,
a notice is written. `status` tells a scheduled close from a close and from a
client that left, because the handler's exit differs: `Depart` removes whatever
socket the user has by then, and after an error closes it. Three things are one
step although an await lies between them, since nothing reads what is between:
the two publishes of a command, registration with its presence notice, and the
exit with its notice. `written`, `marks` and `excused` are history variables of
the content stored now; an edit resets them.

**Follows.** `edges` are the committed rows of `connections`, `cnt` the two
counter columns. A request is one transaction: `Insert` or `Delete` on the row,
then `CountFollower` and `CountFollowed`, the two `UPDATE`s of the trigger, each
of which locks a user row (`lock`, with the uncommitted value in `draft`), then
`Commit`. `INSERT ... ON CONFLICT` waits for whoever holds the key; a `DELETE`
does not see an insert in progress and finds nothing. `Deadlock` is PostgreSQL's
choice of a victim, answered 400 without a retry; `CommitLost` gives the same
answer behind a commit that took place, `PublishFails` a 500.

**ResponseCache.** The GET routes are tables: the facts each `SELECT` reads
(`Statements`). So are the writing routes: the facts a commit changes and the keys
deleted behind it, in the order of the code (`Route`). A behaviour follows one
key. A body is represented by what it lacks, `unseen`: the writes that were not
committed when it was read. Each `SELECT` sees what is committed when it runs,
except that the session keeps the requester's own row from the authentication
(`Own`). `DeleteKey` deletes the followed key, `DeleteOther` another one;
`increment_cache_version` counts as another, since no GET route builds a key from
a version. `LoseDelete` is a swallowed Redis failure, a crash or an exception
before the deletion. `raced` remembers which deletions a fill crossed.

**AccessTokens.** Time is in ticks, TTLs in whole seconds. `CreateAccessToken`
cuts the expiry to a second; `GetAuthCacheAndBlacklist`, `IsBlacklisted`,
`DecodeToken`, `SelectUser` and `SetCache` are the steps of `getCurrentUser`,
each Redis call with its failing twin. A TTL is computed in one step and sent in
a later one (`from` remembers when), and `Tick` may come between. `DeleteCache`,
`DecodeAgain` and `AddToBlacklist` are the logout; the revocation of refresh
tokens that follows is `StartRevokeAll` of `RefreshTokens`. `out`, `after`,
`asked` and `accepted` are history variables.

## 3. Runs

Every passing run checks all properties of its component together. Deadlock
checking is off where requests are finite: when all have ended, the system of the
model rightly stops. It is on in `ResponseCache`, whose readers always come again.

| Run | States | What the bounds contain |
|---|---|---|
| `RefreshTokens` | 171k | 4 tokens, 2 sessions of one user, 4 requests, faults on. Enough for login + rotation + racing retry + logout, a chain of three tokens, and a cycle of two sweeps. Tokens and requests are used in a fixed order (they are interchangeable, and symmetry is unsound for liveness). |
| `Idempotency` | 129k | 1 key, 2 payloads, 4 requests, all faults; symmetric. Keys are independent. A first request, one that overtakes it, one that comes after both and one after the record lapsed. |
| `Votes` | 268k | 2 posts, 2 users, 3 requests; one post starts up to 1 off. A double click, another user, and a repair of the neighbouring row. |
| `TaskQueue` | 355k | 1 notification and 1 scheduled task, 2 workers, 1 retry (3 in the code), 2 faults (a worker death or a run cut short), any revocation and purge. Two faults are what it takes to give a task up early, one per queue; one retry tells the last run of a queue from those before it. Of two idle workers the first takes a message, and the scheduled task is published first. |
| `RateLimiter` | 234k | 4 requests, 1 call per window of 2 ticks, 4 ticks, faults on. A window of 2 makes half a call refillable; four requests are needed for a stale timestamp to be spent. |
| `PostViews` | 307k | 1 post, 2 users, 2 overlapping runs, 2 openings per user, 1 failure. |
| `Chat` | 482k | 1 worker, a socket of the sender and two of the receiver, one unread message and one not yet sent, 2 versions, and any 2 commands or faults besides the connects, displacements, catch-ups and signals. Two sockets are enough for a displacement and for two catch-ups; two events for an edit or a receipt beside a catch-up, or a command whose publish fails. A second worker changes only that nobody is displaced. |
| `OneTimeCodes` | 1.8M | 2 codes, 3 requests of all four kinds, 2 attempts, 2 profile versions; symmetric. |
| `Follows` | 540k | 3 users, four pairs (two who follow each other, and a ring of three, so deadlocks of two and of three), an empty and a partial graph, 3 requests, 1 fault. Requests start in a fixed order. |
| `ResponseCache` | 1.1M | each of the 12 bodies, 2 readers that come again without end, 2 writers: any write the body shows, beside one of four representative ones. Two readers let a late fill overwrite a fresh entry; a third write adds no new relation between two. |
| `AccessTokens` | 7.8M | 1 token of 2 seconds of 2 ticks, 2 ticks past its life, 3 requests besides logins that left nothing, 2 faults; symmetric. A fill, a logout and a later use; both lookups of one request failing. |

Bounds named in the modules: `MaxFails`, `MaxOpens`, `MaxClock`,
`MaxVersion`, `MaxDrift`, `MaxQueue`, `MaxEvents`, `MaxFaults`, `MaxTime`. They cap environment events, not the code;
`MaxRetries`, `MaxCalls`, `Window` and `MaxAttempts` are the code's own settings,
smaller.

Safety properties:

* `OneLivePerFamily`, `SameSuccessor`; `ChainSpec` (refinement).
* `FinalUnlessOvertaken`: what a revocation does guarantee beside the disagreement
  of section 5. After its answer the session has no usable token ever again,
  unless a rotation *committed* between the snapshot and the commit of the
  `UPDATE`. A rotation that has only read the row by then is shut out by the row
  lock; with a `SELECT` that does not lock, or an `UPDATE` that skips locked rows,
  it would bring the session back.
* `AtMostOnce` (except for the two failures its comment names), `ReplayIsGenuine`.
* `CountersExact`.
* `NothingLost`, `GivenUpLate`, `OnceUnlessHurt`. The first lists every way a task
  may end without its effect: given up, revoked or purged. The second counts
  failures and cuts: the dead-letter queue gives a message its remaining retries
  back, so a cut saves one failure only, unless there is one in each queue.
* `Budget`.
* `NotLost`, `NotInflated`.
* `AcceptedOnce`, `ReplacesWhatItChecked` (an action property).
* `MarkedOnce`, `ReadIsWritten`. The second excepts, in `excused`, what the code
  marks read without writing it: a receipt (the client says so), a catch-up that
  broke, and the mark behind a local send, which follows even if the send failed.

* `AnswersAddUp`: the follows answered with success, less the removals, are the
  change of the row, up to the requests whose client was not told the outcome.
  A property of answers of several requests against the rows, not of one step.
* `StaleIsExcused`: an entry hides a committed write only if the route leaves
  that body to its TTL (the table `LeftToTtl`), the deletion is still to come or
  was lost, or the fill crossed it. A forgotten or misspelt key, or a deletion in
  front of its commit, has none of these reasons. The table is the project's
  reading of the routes, each pair of it an actual gap; section 5 names those
  that contradict a docstring.
* `LoggedOutIsRefused`: a request that begins behind a logout that Redis obeyed is
  refused, unless Redis did not answer it on the blacklist, or did in the last
  second of the token, which `int()` cuts off the entry's TTL.
* `AcceptedInTime`: a token is accepted past its expiry by less than a second and
  the time between the computation of a TTL and its `SETEX`.

Liveness properties and the fairness they assume:

* `EveryRequestEnds` (of `RefreshTokens` and of `Follows`): weak fairness of each request's own steps. The event loop
  drives a started request, and PostgreSQL grants a lock that is free and aborts
  a victim of a cycle. Worker death is not fair: it may happen or not.
* `EventuallyFresh`: readers that are served go on and Redis expires keys. Nothing
  makes a client come back, or a writer go on: a write that is committed shows in
  the end for good although its deletions never run. It needs the TTLs.
* `DriftHeals`: requests and started reconciliations go on. That the
  reconciliation commits again and again is a hypothesis inside the property,
  since nothing in the deployed workers guarantees it (section 5).
* `EveryTaskSettles`: some free worker takes a message that stays ready, and runs
  end, at the latest by the exception of the soft limit. Which worker is left open.
  That the hard limit strikes, a publication fails or a worker dies is not fair.
* `EveryCheckEnds`: weak fairness of each request. Every failed `EXEC` is caused
  by another request's success, and requests are finite in the model. Under an
  unending stream of requests the loop has no bound.
* `DeadSocketsLeave`: the event loop of a worker goes on while any handler or
  listener can; which one is left open. A handler that ends before its loop is
  excepted: `chat.py:54-72` is outside the `try`, so nothing disconnects it.
* `QueuedIsCounted`: started runs end; that runs are started is a hypothesis.

## 4. Proofs

Every theorem holds for all values of the constants under the assumptions named
in the modules, which TLC evaluates in every run: identifiers that are not
confused with `None`, `NoValue` or `Nobody`, natural bounds, finitely many users
in `Votes` and `Follows`. `ClockAssumption` of `AccessTokens` counts whole ticks in
a second and seconds in a token's life, and bounds the clock at no less than a
second but a tick.

Every invariant that a run checks is a theorem, and so are the action property
and the refinement:

| Theorem | Argument |
|---|---|
| `RefreshTokensProofs!OneLive`, `OneAnswer`, `QuietRevocationEnds`, `TypeCorrect` | One inductive invariant `IInv`. A live token can be told apart only with the facts that a request past `LockToken` still holds the lock of its row, that a rotating request's row is live, that the grace key and the answers in flight name the one successor (`parent`), and that tokens not issued are mentioned nowhere. A revocation in progress that was not overtaken has every row of its sessions in its snapshot (`Covered`); when it commits it holds all their locks, so no request is left that could rotate one of them. |
| `RefreshTokensProofs!Refinement` | From `IInv`, step by step: a login begins a session, a rotation advances it, a commit of a sweep or an expiry ends a set of sessions, all else stutters. |
| `RequestGuardProofs!ReplayCorrect` | A completed record was written by a request that committed under that key. |
| `RequestGuardProofs!MadeOnce` | While a key has neither lapsed nor been hurt, whoever runs owns the processing mark, and the record shows what was committed. |
| `RequestGuardProofs!WithinBudget` | What was admitted plus what is in the bucket is at most what was paid up to the timestamp last written, plus `slip`. A read that is not dirty is still current. |
| `PostCountersProofs!AlwaysExact` | For a post that starts exact no repair is ever wanted (the snapshot agrees), so the trigger alone moves its counters; adding or removing one voter moves a cardinality by one. |
| `PostCountersProofs!ViewsNotLost`, `ViewsNotInflated` | `Owed`: a view that no two runs had is in the batch of one run at most, is still queued while that run has it to count, and while it is queued and not yet counted it was opened more often than it was counted. `Removable`: what a run removes it has counted. The batch is any set, but the two properties speak of one view at a time, so no sum over a batch is needed. |
| `TaskQueueProofs!NoTaskLost`, `LastResort`, `EffectOnce` | Counted copies: a task that is neither hurt nor retried has one copy, queued or held; the number of failures bounds the retries a message carries and pays for the queue it is in, unless a cut did (`Paid`). Each of the 14 actions is shown to keep the copies of every task accounted for. |
| `OneTimeCodesProofs!LockedIsOnce` | Whoever checks under the lock holds it from check to consumption, so the code it read has been accepted for none of its kind, and a stored code never was. |
| `OneTimeCodesProofs!ChangesWhatItChecked` | A copy with the current version has the current password, and past its check a change has checked its copy. |
| `FollowsProofs!AlwaysExact` | A request past `Insert` or `Delete` is the only one at its row, and the row is as it found it, so what it adds or removes is one row; a request past an `UPDATE` holds the user's row, so its draft is one step from the committed counter. Adding or removing a row moves two cardinalities by one, and `GREATEST(n - 1, 0)` never cuts. |
| `FollowsProofs!AnswersTrue` | `Balanced`: the sum with the committed changes in place of the answered ones. It moves with each commit by one request and one row together, while an answer moves neither; a request that ends without an answer leaves one set and enters the other. Only finitely many requests have begun, so the sets can be counted. |
| `CacheProofs!AlwaysExcused` | What is claimed of an entry is kept for every body under construction: a write it lacks is uncommitted, deletes nothing of this key, has its deletion ahead, or is in `raced`. A finite table lemma shows that a write without a deletion of a key that shows it is in `LeftToTtl`. |
| `CacheProofs!LogoutHolds` | `Barred`: a token that was logged out is on the blacklist to its last second, because the TTL a logout computed is at most a second short (`TtlFits`, integer division), however long ago. What a later request asked and was not told lies in that second. |
| `CacheProofs!AcceptedUntilExpiry` | `Ending`: a cached user ends at its token's expiry, but for the delay of its `SETEX` and the rest of a second. Every fill keeps this, also one that crossed the logout, since its TTL was taken from the token when the request read the clock. |
| `ChatProofs!NotMarkedTwice`, `ReadWasWritten` | What a catch-up has loaded (`Loaded`) and what an open transaction changes (`Open`) is locked, and is as it was found; so a claim and a receipt set to read only what is unread, and the content a claim takes is the content it will write. `MarkedIsRead` ties the count of marks to the column. The two properties fall out of the same invariant, whose step goes through 28 actions. |
| `TypeCorrect`, `BucketTypeCorrect`, `AuthTypeCorrect`, `ChatTypeCorrect` | From the same invariants. In `Chat` and `AccessTokens` they say more than types: only a handler that waits in a transaction holds a row lock; no TTL is computed below 0 or past the life of a token. |

The inductive invariants were checked with TLC on the runs' instances before they
were proved. Each is stronger than what it proves by what holds *between* two
awaits: what a suspended handler has read is still true, because it holds a lock
or because nobody else may write there, or else is marked as possibly stale
(`dirty`, `raced`, `again`, `excused`).

Only model-checked: the liveness properties (the prover has no ENABLED or
fairness reasoning). Not claimed at all: the number in `posts.views`, a sum over
whatever sets the runs read; `counted`, which the theorems are about, says how
often each view went into it.

## 5. Where the code and its documentation disagree

One disagreement has a run of its own, which finds the behaviour:
`RefreshTokensRevocation` (a rotation in flight survives a logout or a family's
revocation, which `token_service.py:206-207` and `FEATURES.md:111` exclude).

Three more are behaviours of the models, found by checking the sentence quoted:

* `token_service.py:73-75`: retries in the 60 seconds of the grace window 'return
  the same successor tokens instead of triggering full family revocation'. A
  retry that waited for the row lock resumes at the rotation's commit, before the
  grace key is set, and revokes the family.
* `FEATURES.md:150`: a retry replays the response 'without re-running the
  mutation'. A handler that raises behind its commit has its key deleted, and the
  retry makes the change again (`hurt` in `Idempotency`).
* `otp_service.py:57-58`: 'one-time use only'. Two resets of a forgotten password
  read the record without a lock and both pass; the row count of the `DELETE` is
  ignored. Hence `AcceptedOnce` speaks of the checks under the lock.

Observed while reading, without a run:

* `reconciliation_service.py:12` promises exact repairs; a vote that commits
  while the repair waits for its post row is overwritten by the older count until
  the next run. `DriftHeals` shows that it heals.
* `celery_app.py:41` keeps failed tasks for inspection; the workers consume that
  queue, and what fails there is gone.
* `notification_tasks.py:18-19` retries up to three times on failure. A run that the
  hard time limit kills, or that cannot publish its retry, is not retried but
  dead-lettered at once (`GivenUpLate` counts such runs as `cut`).
* The reconciliation and the view flush are on the beat schedule, but
  `tasks/__init__.py` imports neither module: no worker knows them.
* `rate_limit_service.py:19` refills in proportion to elapsed time; a stale
  timestamp makes the same time count twice. `Budget` bounds by how much.
* `FEATURES.md:231` counts unique views from `post_views`; nothing inserts there,
  each opening is counted, the reconciliation resets `posts.views` to zero, and a
  flush whose removal failed is counted again.
* `otp_service.py:57-58` deletes the record on a wrong code; the code keeps it. A
  check that read an old code accepts it after a new one was stored.
* Codes expire by the local clock and are cleaned up by the UTC clock.
* The forgotten-password reset leaves refresh tokens alive.
* `feed.py:27-28` says that the home feed is versioned, `posts.py:116-117` and
  `218-220` that new and edited posts show in the feeds at once, `connect.py:99-100`
  that an unfollowed user's posts disappear, `FEATURES.md:393-398` that every
  writing route clears the feeds. The keys of the feeds contain no version, so
  `increment_cache_version` has no effect; feeds are left to their TTL, except
  that a follow deletes the home feed's pages.
* `FEATURES.md:394` also has a post's edit clear `user:posts:*`; `update_post`, votes
  and comments do not. A profile's post count is not refreshed by a new or deleted
  post, comment authors not by a change of profile or picture: `LeftToTtl` lists all.
* `users.py:250-253`: the page of a user's posts is cached without the requester, so
  everyone sees the `is_liked` of whoever filled it.
* `oauth2.py:212-213` bounds the cached user by the token's expiry. The entry of a
  login is stored for the full lifetime computed after the token was signed, and
  every TTL counts from the arrival of its command: `AcceptedInTime` bounds by how
  much a token is accepted late.
* `redis_service.py:108-110` keeps a token on the blacklist for its remaining lifetime;
  `int()` in `auth.py:131` cuts the last second off.
* `changepassword.py:73` says the session is terminated. Deleting the cached user
  does not: the next request fills it again, and the access token lives on.
* An avatar's removal deletes `user_profile` but not the cached user of the token
  (`me.py:105`), which keeps naming a blob that is gone.
* `posts.py:188-197` deletes the post's media before the commit that removes the row. A
  profile update that is retried uploads again, with the file already read to its
  end, and leaves the first blob behind (`me.py:212-245`).
* `connect.py:65-68` logs `currentUser.id` behind a rollback, which expires the user
  unless it came from the auth cache: the 400 then becomes a 500.
* `saved.py` calls saving idempotent; of two saves at once one fails at the unique
  key, and nothing handles that.
* `connect.py:75` reports the following count of a user object that may come from
  the auth cache, without the column.
* `socket_manager.py:58` and `:83-87` use names that are not defined: a live
  message between two users raises, the sockets of both are dropped, and the
  message arrives with the next catch-up (`FEATURES.md:346`: "Instant delivery if
  online"). When Redis is down, `dm.py:71-77` marks it read behind the send that
  failed, and it never arrives.
* `load_missed_msgs.py` commits messages as read before they are sent: what a
  broken socket, an exception or a crash cuts off is lost (`FEATURES.md:347`).
  `m.reactions` is put into the payload as ORM rows, so a missed message with a
  reaction is such a break.
* `socket_manager.py:31-33` guarantees one connection per user. Two connects that
  await `accept` together both stay open; so does a socket that the exit of a
  displaced handler took out of the dictionary, and one on another worker.
* The Redis listener ends with the first error of its subscription and is not
  started again; publishing goes on without a fallback.
* `reply_msg.py:70` publishes a reply only if its receiver is on the same worker.
* A socket's database session is as old as the socket; a command that only
  selects leaves its pooled connection checked out.

## 6. Not modelled, and what is left

Left out because nothing of it is concurrent or stateful beyond a single
statement: search and listings, saved posts, configuration and schemas, logging,
formatting, mail and blob stores (external). Posts and comments are modelled as
far as the caches see them: what a commit changes, not the rows.

Not modelled although something could go wrong: the fields of the cached user
(how old a name is), the pool of database connections, which long-lived sockets
can exhaust, time zones (codes are compared by two clocks), and objects of the ORM
that a rollback expires.

Where the models could grow:

1. Shared posts, media and reactions of the chat, which follow the pattern of the
   commands of `Chat` on other rows.
2. Comment votes and the other counters of the reconciliation, instances of
   `Votes`.
3. More abstract specifications beside `SessionChain`: an idempotent operation that
   is made at most once, a cache entry that is fresh or excused, with refinements
   proved from the invariants above.
