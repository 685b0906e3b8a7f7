# StreamTorrent backend: TLA+ models, model checks and proofs

This directory holds a verification development of the StreamTorrent backend: TLA+
modules translated from `src/src/`, TLC configurations that check them on small
instances, and TLAPS proofs of their most important invariants. Paths below are
relative to `src/src/`; `README.md:n` is line n of the backend's own README.

    tlc -workers 2 -config Engine.cfg MCTimedEngine     # a model check
    tlapm TorrentEngineProofs.tla                               # a module of proofs

## 1. The system

One Node.js process (Express), a PostgreSQL database behind Prisma, a WebTorrent client
in the process, Redis with BullMQ for bulk mail, and an S3 object store. JavaScript runs
to completion, so a handler is atomic between two `await`s; everything below that is
concurrent is so because of `await`s, callbacks, timers, database transactions and the
processes dying and restarting.

| Component | Source | State | Operations | What makes it correct |
|---|---|---|---|---|
| Torrent engine | `services/torrent/torrentEngine.ts` | the Maps `torrents` and `pending`, the WebTorrent client, timers | `getOrAdd`, `waitForPeers`, `getFile`, `remove`, cleanup interval, torrent and client events | one addition per torrent, shared by its callers; every caller answered; handles neither lost nor kept for ever; limits |
| Sessions and streaming | `modules/stream/*` | stream tokens, open pipes | `getStreamSession`, `streamFile`, `parseRangeHeader` | a token leads to bytes; the bytes are those asked for |
| Torrents | `modules/torrents/*`, `modules/common/torrentLimits.ts` | rows of `Torrent` | upload, magnet link, upsert | nothing a token relies on is lost; size limit |
| Refresh tokens | `modules/auth/refresh.ts`, `auth.controller.ts`, `sessionCookies.ts` | rows of `RefreshToken` | issue, rotate, revoke one, a device's, all | a token is exchanged once; revocation is final |
| Registration, login | `modules/auth/users.service.ts` | rows of `User` | `createUser`, `verifyUser`, password and mail changes | one account per email; the lock comes when it is due; a new password ends old sessions |
| Two-factor guard | `modules/common/authGuard.ts` | rows of `ExpiredTwoFactorToken` | `twoFactorAuthGuard` | a mailed token works once |
| Bulk mail | `services/mail-service/bulkmailService.ts`, `emailWorker.ts` | BullMQ jobs, calls to SMTP | add, run, retry, alert | everybody served or reported, boundedly many mails, jobs end |
| Files, object storage | `modules/files/*`, `services/storage/*` | rows of `File`, objects, presigned URLs | init, confirm, download, delete | row and object agree; no upload is lost; deleted is deleted |
| Collections, saved torrents | `modules/collections/*`, `modules/user-torrents/*` | their rows | create, change, delete, idempotent add and remove | only the owner changes them; concurrent changes compose |
| Transactional mail | `services/mail-service/mailSender.ts`, `smtp.ts` | none | one SMTP call | pure I/O |
| Access tokens | `modules/auth/jwt.ts` | none | sign, verify | external library |
| Plumbing, configuration | `modules/common/*`, `server.ts`, `config/*` | none | validation, serialisation, start-up | stateless |

How they interact: a session or a stream request calls the engine and waits for a promise
that a WebTorrent event, an error or a timer settles (`getOrAdd`), then for a peer
(`waitForPeers`); the cleanup interval runs between any two of these. A session writes
what the engine found out to the row that uploads and magnet links write too, and mints a
token from it, which a later stream request turns back into the row. Requests about
refresh tokens meet only in the database, as transactions and single statements under
READ COMMITTED. Login requests meet in the user's row, between reading it and writing it
back. A registration or login goes on from the account to the sessions, a password change
from the two-factor guard to the clock that sessions are compared with. Confirmations of an
upload meet in the object store, which has no transactions, and in the unique key of the
`File` table; the client that holds the presigned URL goes on writing meanwhile. Changes of
a collection meet between the query that verifies its owner and the one that changes it.
The mail worker meets itself: the mails of a job that has thrown are still being sent when
the job is tried again.

The hard behaviours, each at its line, are the `hazards` of `PROJECT.json`, with the
properties that would catch them going wrong.

## 2. Modules

| Module | Models | Lines of the code it stands for |
|---|---|---|
| `SingleFlight` | abstract: what `getOrAdd` promises its callers | `torrentEngine.ts` 26-28, 62-151, 204-222 |
| `TorrentEngine` | the engine, WebTorrent as its environment, the two handlers as continuations | `torrentEngine.ts`, `stream.controller.ts` |
| `TimedEngine` | the engine with a clock on each request | the same |
| `StreamApi` | the HTTP flow over the database and the tokens, with `SingleFlight` as the engine | `stream.controller.ts`, `stream.service.ts` 9-28, `torrents.*` |
| `RangeRequest` | `parseRangeHeader`, the direct branch of `streamFile`, a player | `stream.service.ts` 30-77, `stream.controller.ts` 149-173 |
| `TokenExchange` | abstract: what `refresh.ts` promises its callers | `refresh.ts` 15-148 |
| `RefreshSessions` | refresh tokens under concurrent transactions and statements | `refresh.ts`, `auth.controller.ts` |
| `LoginLockout` | `createUser`, `verifyUser` | `users.service.ts` 5-56 |
| `TwoFactorGuard` | the guard and what runs behind it | `authGuard.ts` 41-90 |
| `Accounts` | `RefreshSessions`, `LoginLockout`, `TwoFactorGuard` composed: one account under all requests of `auth.routes.ts` | `auth.controller.ts`, `auth.routes.ts` 41-66, `users.service.ts` 82-100 |
| `Files` | files over the `File` table and the object store | `file.controller.ts`, `s3.service.ts` |
| `Library` | collections, their items, saved torrents | `collections.*`, `user-torrents.*` |
| `BulkMail` | splitting, worker, alerts, retries | `bulkmailService.ts`, `emailWorker.ts` |
| `MC...` | instances for TLC | |
| `...Proofs` | theorems about the module they extend | |

`PROJECT.json` maps each definition to its lines. Definitions called "Mutant of ..." are
not part of the models: each is a definition as a plausible bug would make it, and the
property it is listed with fails when it takes the place of the right one.

**TorrentEngine.** `torrents` and `pending` are the Maps; `pending[h] = "rejected"` is the
promise that `new Promise` rejected because `client.add` threw. `idle` is the age of
`lastAccessedAt`, `addTimer`, `peerTimer` and `sweepTimer` the code's timers, counted
down by `Tick`. `client`, `peers`, `duplicate`, `clientUp` are WebTorrent's side. A
request's `phase` says which continuation is next: `adding` (in `getOrAdd`), `added`,
`waiting` (in `waitForPeers`), `peered`, `streaming`, or its answer. `Drained` says that
no promise continuation is queued: events and timers come only then, as Node runs
microtasks first. A torrent object that WebTorrent destroyed may still be in the hands of
a request (`detached`); such a request gets no events any more.

**TimedEngine** extends it with a history variable: for how long a request has waited and,
once it streams, for how long it has streamed. No action reads these clocks, so that the
engine is the same, and its properties can be checked and proved on either. A clock stops
just beyond the last value that a property tells apart.

**StreamApi** takes the engine from `SingleFlight`, which `TorrentEngine` is shown to
implement, so that uploads, sessions, streams, token expiries and restarts can be
interleaved at all. A row is the set of its columns that matter: `magnet`, `file`, `list`, `size`.
Each handler keeps the copy of the row it read (`seen`), which may be old. An upload has a
`file`; whether it has a file list and a length is up to its body (`parsed.files ?? []`,
and `0n` for a length that cannot be used), so that each of the four combinations occurs.
What `TorrentEngine` calls the answer of a session is told apart here: the refusal of a
torrent that is too large, the failing update, the token.

**RangeRequest** follows the code number by number, with `Blank` for a missing one and
`Infinite` for one with so many digits that `Number.isFinite` refuses it. The reference
definition is the meaning of the header in RFC 9110 for the forms with a first number. The
player is a `<video>` element that asks for `bytes=<position>-`; between its requests any
other header may be tried (`Probe`).

**RefreshSessions.** A rotation is a transaction of four statements, each an action; it
holds the lock of the row it updated until it commits or is rolled back. The other
statements find their rows when they start (`Begin`), wait for those rows' locks and then
update them (`Revoked`): this is READ COMMITTED, and it is why a row inserted meanwhile
is not revoked. Time is the number of password changes, all that the code compares.
**TokenExchange** has none of this: a token is good or not, and an exchange takes one and
grants another in one step. The step that implements it is the commit of the rotation.

**LoginLockout** and **TwoFactorGuard** split a handler at its `await`s: read the row, spend
time, write what follows from the row that was read. A lock that another request has set
meanwhile is overwritten by a right password only.

**Accounts** extends `RefreshSessions` and instantiates the other two on the same request
slots; a request is in one of the three at a time (`OnePartAtATime`). It adds no control of
its own but the handing over: a login that is `accepted` begins with the statement of
`RefreshSessions!Login`, a password change that the guard has let through advances the
epoch. `since`, `checked` and `overtaken` are history variables: the password a login was
made with, and whether a request of a login was under way when the password changed. The
update of the password is one instant: `passwordChangedAt` is taken just before the
statement that stores it.

**Files** has the five calls of `confirmUpload` as steps, in the code's order: the object's
metadata, then checksum and key (no `await` between them), the copy, the deletion of the
source, the row. Each can fail by itself (`Fail`), and so can the process. The objects that
a client puts under one key are numbered, so that the row's `etag` says which of them it
describes. Keys are those that `init` made up, in two forms: as it returns them, and without
their leading slash, the form `confirm` accepts. To S3 the two are different keys, so that
no upload of this API can be confirmed at all (`FilesNeedCollapsingStore`); other stores
normalise them. `collapses` says which kind of store it is, so that what follows after the
key is accepted is modelled, too. `name`, `size` and type of a file are part of the object.

**Library** has each query as a step, with the unique indexes and cascades of the schema
inside the statements they belong to. `bereft` is a history variable: requests whose row
was removed after the index told them of it. Prisma's errors for a row that is gone (P2025,
P2003) are answered 500 as the code does (`failed`).

**BulkMail.** A job carries its state in the queue, its runs, how often it has thrown or
stalled, and what its destinations got. A call to SMTP (`sends`) remembers its run, since
it may outlive it.

## 3. Runs

Twelve runs; eight must find no error, four must find the violation they are about.

| Run | Checks | Instance and why it is enough |
|---|---|---|
| `engine` | `Consistent` (type and inductive invariant), `NeverNotActive`, `OvershootBounded`, `AnsweredInTime`, `RemovalSparesRequests`, `CleanupSparesYoungStreams`, `RequestsAnswered`, `ImplementsSingleFlight`, `IdleHandleRemoved` | `TimedEngine` with two torrents, a session and a stream, a limit of one torrent, every fault of WebTorrent. Two torrents contend for the one place; the session and the stream share an addition, a handle, a removal. Timers of one or two units keep the order 15 s < 30 min that matters; the others may expire in any order. `OvershootBounded` counts the slots used so far, so that one request after another is enough to break it. No symmetry, as it is not sound for liveness; the view leaves out what an answered request had asked for and got |
| `engine_capacity` | `ConcurrencyLimit` fails | two torrents, limit one |
| `engine_idle` | `IdleHandleDeleted` fails | one torrent, one stream; torrents and removals may fail |
| `range` | `ServesNamedBytes`, `ResponseFits`, `PlayedInOrder`, `PlaysToTheEnd` | files of 0 to 7 bytes, chunks of 3, all headers with numbers up to 8, missing or too long: empty file, one chunk, exact and inexact multiples, every bound and its neighbours |
| `stream_api` | `Consistent`, `NotReadyOnlyUnresolvable`, `OversizedOnlyUnmeasured`, `UnsizedIsUploaded`, `RequestsAnswered` | a torrent within the size limit and one above it, two requests; a handler has at most one copy of one row, so that a second request and the writers cover the interleavings. The view leaves out what an answered request had read, except for a "not ready" |
| `refresh` | `Consistent`, `OneLivePerLogin`, `RevokingEndsSessions`, `ImplementsTokenExchange` | three tokens, two devices, two requests, one password change: enough for a token rotated twice, for a rotation against each of the revocations, and for a chain of two rotations |
| `refresh_logout_all` | `LogoutAllIsFinal` fails | three tokens, one device |
| `accounts` | `AccountConsistent`, `PasswordChangeEndsSessions`, `LockOutlivesWrongPasswords`, `TokenWorksOnce` | two refresh tokens on one device, a two-factor token of each kind, two requests, two password changes, a limit of 2 failures of up to 4: a rotation or login overtaken by a password change needs one token and its successor and two requests; a login that read a count of 0 and fails under a lock needs a second one and a limit of 2. Symmetry: tokens, requests. The view leaves out what an answered request had presented, found and stamped, which no action and no invariant reads |
| `accounts_lock` | `LocksAfterMaxFailures` fails | `LoginLockout` by itself, with the real limit of 10 and two requests |
| `files` | `Consistent`, `RowNeverAhead`, `FilesNeedCollapsingStore`, `UploadNotLost`, `OrphanOnlyByFailure`, `RowsStay` | one key, two objects put under it one after the other, either kind of store, two requests of two users: no code relates two keys, a third confirmation finds what the second one finds. Symmetry: users, requests |
| `library` | `Consistent`, `GoneOnlyIfRemoved`, `OnlyOwnerChanges`, `PatchesCompose` | a collection, a torrent, two names, two users, two requests: every statement is about one collection, one torrent and one user, and the slots are used again. Symmetry: users, names, requests |
| `bulk_mail` | `Consistent`, `CompletedIsHandled`, `MailsBounded`, `JobsEnd` | one job of two mails with the real 3 attempts and 1 stall, any of its mails, alerts and runs failing. Deadlock is not checked: when all jobs have ended, the queue is empty and stops |

`Consistent` and `AccountConsistent` are conjunctions of named parts; parts that say something
of the code by themselves, as `NoStrandedWaiter` (whoever awaits `getOrAdd` awaits an
addition that still runs), `ReadyOrInFlight`, `RejectedByClientOnly` (only a failed client
leaves a rejected promise in `pending`), `RotatedOnce`, `OneAccount` and `NeverLockedEarly`,
are checked with them.

Other bounds: `MaxAttempts` (wrong passwords), `MaxResets` (password changes), `MaxPuts`
(objects put under a key), `MaxJobs`. Request slots are used again and again, so that
behaviours are infinite. The largest run, `accounts`, has about a million states.

### Fairness

- `TorrentEngine`: weak fairness of queued continuations (Node runs microtasks), strong
  fairness of "a due timer fires or time passes" (other events keep coming in between, but
  Node's timers phase gets its turn) and of the callback of `client.remove`. Nothing is
  assumed of peers, torrents or clients: a torrent that never becomes ready is answered by
  the 45 s timer, a peer that never comes by the 15 s timer.
- `StreamApi`: handlers that can go on do, and a load ends one way or the other, which is
  what `ImplementsSingleFlight` establishes of the engine.
- `RangeRequest`: the player goes on.
- `BulkMail`: the worker takes waiting jobs, a call to SMTP ends (nodemailer has timeouts),
  and BullMQ moves delayed and stalled jobs on.
- The other modules state no fairness and only safety is claimed of them: their handlers are
  straight lines of queries, which end if the database answers, and nothing more could be
  said of their progress than that.

### What the violations show

1. `engine_capacity`: the limit on concurrent torrents (README.md:262) counts ready handles
   only; requests for several torrents that arrive before one is ready all pass. What does
   hold is `OvershootBounded`: n requests at a time bring the torrents served and in loading
   to less than the limit and n together.
2. `engine_idle`: the cleanup calls `remove` for an idle handle, and `remove` deletes it only
   when WebTorrent reports no error. A torrent that failed after it was ready (its listener
   leaves `torrents` alone, `torrentEngine.ts:140`) and one whose removal reported an error
   (`:215`) are no longer known to WebTorrent, so that every later removal is an error, too:
   the handle keeps its place under the limit for ever. README.md:247-249 has an idle handle
   removed and deleted from the Map. What does hold is `IdleHandleRemoved`: such a handle
   (`Dead`) has lost its torrent, with its memory and disk space, and every other one goes.
3. `refresh_logout_all`: "Logged out from all devices." is answered while a rotation that
   was in progress leaves a live token behind. What does hold is `RevokingEndsSessions`: the
   tokens found are dead, and a token of the same logins is good only if it comes from a
   rotation that exchanged one of them before the answer for a row that was not there yet
   when they were looked for.
4. `accounts_lock`: "lock for 15 min after 10 failures" (`users.service.ts:38`), but
   concurrent wrong passwords are counted as one, so that ten of them in a row need not lock
   the account; how many may go by depends on how many logins overlap, which nothing bounds.
   The rate limit of the route (10 in 15 minutes for an address) is not in the model. What
   does hold is `NeverLockedEarly`, and that a lock, once set, outlives the wrong passwords
   that were being checked (`LockOutlivesWrongPasswords`).

What properties that hold say of weaknesses the code has:

- `CleanupSparesYoungStreams`: a stream may be cut by the cleanup while it runs, as nothing
  touches its handle, but only after 30 minutes.
- `PasswordChangeEndsSessions` has one exception, `overtaken`: a login or rotation that was
  under way when the password changed opens a session that is younger than the change.
- `NotReadyOnlyUnresolvable` has one exception: a torrent that was uploaded without files (a
  body that parses to a bare info hash is enough) and has no magnet link. Its session resolves
  nothing, mints a token all the same, and a stream with this token is told to "request a
  stream session first" (`stream.controller.ts:81`).
- `OversizedOnlyUnmeasured` has one exception to the maximum torrent size (README.md:263): an
  upload whose length cannot be parsed has size 0 and passes.
- `UnsizedIsUploaded`: an upload leaves a torrent listed with size 0 if its length cannot be
  parsed, or if it comes over a magnet link, as the update branch of `upsertTorrent` never
  writes `size`.
- `ServesNamedBytes` leaves out `bytes=-n`, the last n bytes, which the code serves as the first
  n + 1 although README.md:346 speaks of full Range support.
- `RowNeverAhead` lets a row describe an earlier object than the one that is stored: the
  presigned URL stays valid for 15 minutes, neither the size nor the checksum given to `init`
  is signed, and the metadata is read before the move. It is never the other way round.
- `FilesNeedCollapsingStore`: the key that `/files/init` returns is refused by
  `/files/confirm`. `initUpload` passes an empty prefix, as "prefix is already in key"
  (`modules/files/file.controller.ts:38`), the storage service puts a slash between prefix
  and key (`services/storage/s3.service.ts:18`), and `confirmUpload` wants a key that begins
  with `temp/`, not `/temp/`. The object is under the former key only if the store does not
  tell the two apart; S3 does.
- `OrphanOnlyByFailure`: a failure after the copy leaves an object at its final place that
  no row names and nothing deletes.

The models also contain the following, without a property of its own: a rejected promise
that stays in `pending` after a fatal client error; a torrent that WebTorrent goes on
loading after the 45 s timer gave up on it; a handle that is deleted although it was used
while its removal was under way; a second concurrent registration or confirmation, or a
change of a collection that has just been deleted, answered 500.

## 4. Proofs

TLC checks small instances; the theorems below hold for every value of the constants that
the modules' ASSUMEs admit. The assumptions are that the names for "nothing" are not
members of the sets they stand beside, that the two kinds of request slots are disjoint,
(for `LimitIsNearlyKept`) that there are finitely many slots, that limits are natural numbers and, the only ones with content, that
`PeerTimeout < IdleThreshold` (15 s and 30 min, both hard-coded) and that a list of bulk mail
names nobody twice. No theorem assumes how many requests there are at a time.

| Theorem | Statement | Argument |
|---|---|---|
| `EngineConsistent` | `[]Consistent` of the engine | see below |
| `AdditionsAreAwaited`, `TorrentIsAddedOnce`, `HashesAreNotPoisoned` | `[]NoStrandedWaiter`, `[]ReadyOrInFlight`, `[]RejectedByClientOnly` | conjuncts of `Consistent` |
| `HandleNeverLost` | `[]NeverNotActive` | `HandleIsThere` |
| `CleanupSparesRequests` | `RemovalSparesRequests`, an action property | `HandleIsFresh` |
| `EngineSharesLoads` | the engine's steps are steps of `SingleFlight` or stutter | a lemma per action, under `Consistent` |
| `LimitIsNearlyKept` | `[]OvershootBounded` | see below |
| `ClocksAgree` | the clocks of `TimedEngine` agree with timers and ages | a clock and what is left of the timer stay within the timeout |
| `RequestsAnsweredInTime` | `[]AnsweredInTime` | from it |
| `YoungStreamsSpared` | `CleanupSparesYoungStreams`, an action property | from it: a handle is no older than a stream from it |
| `ResponsesServe`, `ResponsesFit` | `[]ServesNamedBytes`, `[]ResponseFits`, for all sizes, limits and numbers | case distinction on which of the three limits cuts the range |
| `PlaybackInOrder` | the player has every byte up to its position | from the two above |
| `ApiConsistent` | `[]Consistent` of the HTTP flow | nothing a handler relies on in its old copy of a row is ever taken back (`SeenStays`) |
| `NotReadyHasOneGap`, `SizeLimitHasOneGap`, `SessionsMeasure` | `[]NotReadyOnlyUnresolvable`, `[]OversizedOnlyUnmeasured`, `[]UnsizedIsUploaded` | conjuncts of it |
| `SessionsConsistent` | `[]Consistent` of the refresh tokens | see below |
| `TokensRotateOnce`, `OneTokenPerLogin` | `[]RotatedOnce`, `[]OneLivePerLogin` | conjuncts of it |
| `RevokedLoginsEnd` | `[]RevokingEndsSessions` | see below |
| `SessionsExchangeTokens` | `ImplementsTokenExchange`: steps and initial states | see below |
| `AccountExchangesTokens`, `AccountLogoutsEndSessions` | both, of a whole account | `AccountImplementsSessions` |
| `AccountImplementsSessions`, `...Lock`, `...Guard` | the account's steps are steps of `RefreshSessions`, `LoginLockout` and `TwoFactorGuard`, or leave their variables alone | action by action |
| `AccountIsConsistent` | `[]AccountConsistent` | the invariants of the three parts, and `RowsAsYoungAsPassword` |
| `OldSessionsEnd` | `[]PasswordChangeEndsSessions` | see below |
| `EmailHasOneAccount`, `LocksOnlyWhenDue` | `[]OneAccount`, `[]NeverLockedEarly` | the unique index; the counter is one more than a value read before |
| `OnlyRightPasswordsUnlock` | `LockOutlivesWrongPasswords`, an action property | what a wrong password writes back has a lock or does not mention it |
| `GuardPassesOnce` | `[]TokenWorksOnce` | the unique index |
| `FilesConsistent`, `UploadsAreKept`, `OrphansAreFailures`, `DeletedFilesStay` | `[]Consistent`, `[]UploadNotLost`, `[]OrphanOnlyByFailure`, `RowsStay` | a final object is never taken away, so whoever comes after a copy finds one there |
| `RowsFollowObjects` | `[]RowNeverAhead` | objects become final in the order they were put, and a confirmation sees one before it copies (`CopiesAdvance`) |
| `SlashLosesFiles` | `[]FilesNeedCollapsingStore` | no confirmation gets as far as the copy |
| `LibraryConsistent`, `AdditionsSucceed` | `[]Consistent`, `[]GoneOnlyIfRemoved` | what a first query found (the owner, the torrent) cannot change, only go away |
| `OwnersDecide`, `PatchesTouchTheirFields` | `OnlyOwnerChanges`, `PatchesCompose` | `VerifiedStays` |
| `QueueIsConsistent` | `[]Consistent` of the mail queue | see below |
| `NobodyIsLost`, `RetriesAreBounded` | `[]CompletedIsHandled`, `[]MailsBounded` | from it |
| `ListsAreSplit` | `[]EachInOneJob`, for lists of any length | integer division |

*The engine's inductive invariant.* `NeverNotActive` is not inductive: that `getFile` finds
the handle depends on no cleanup having begun since `getOrAdd`, which depends on time. So
`Consistent` says how old a handle can be while a request is on its way (`HandleIsFresh`:
its age plus what is left of the request's timer is at most `PeerTimeout`), that a handle
is where its requests expect it (`HandleIsThere`), and what a removal under way may assume
(`RemovalOwnsHandle`). The assumption on the timers closes the argument: a handle waited
for is younger than what the cleanup removes.

*The engine's limit.* Each addition in flight has a request that awaits it and no other
(`ServedInv`), so that there is an injection of the additions into the slots in use. An
addition begins with fewer handles than the limit; every other step serves nothing new.

*Waiting and streaming times.* A request's clock and what is left of the timer it waits for
add up to the timeouts at most (`WaitedFor`): a turn of the event loop changes neither, or
takes the request on to a timer of its own, and a tick takes from the one what it adds to the
other. That no turn sets a running timer back is `TurnOnward`. The age of a stream's handle
is at most the stream's clock (`StreamIsOlder`), as `getFile` touched it.

*The refresh tokens' inductive invariant.* Between its update and its commit a rotation is
the only one to have its row in hand, and the row is still live (`LockIsRotation`), hence
the only live one of its login, and never rotated before (`Lineage`).

*Logouts.* Between the start and the end of a revoking statement, every live token of a login
whose token it found is one it found itself, or has an ancestor among them that was exchanged
since (`FoundOrLate`); when it ends, those it found are gone and stay so (`FoundAreGone`), as
it waits for the rows that rotations have in hand.

*Exchanges of one step.* The four statements of a rotation change nothing that others see until
the commit, and there the token is still good, thanks to the row's lock: the commit is
`Exchange`, all other statements of a rotation stutter. A revoking statement is `Revoke` when
it ends, of those of its rows that are still live.

*The password.* A rotation inserts a row no younger than the request that read the old one,
so a row that can still be exchanged has a chain of rows behind it, each at least as young
as the row after it, back to the login. `RowsAsYoungAsPassword` cuts this short: a row that
is not of an overtaken login is no younger than the password its login was made with. With
the row at least as young as the present password, so is the login's.

*The mail queue.* That nobody gets more mails than runs does not follow from the mails
delivered, as runs that have thrown go on sending. `MailsCounted` charges each delivered
mail to a run that is not sending it any more; `RunsCounted` says how every run has ended.

Only model-checked: every liveness property and the fairness half of the refinement
(liveness and ENABLED are out of the prover's reach): `RequestsAnswered` twice,
`IdleHandleRemoved`, the fairness of `ImplementsSingleFlight`, `PlaysToTheEnd`, `JobsEnd`.
Every safety property that a run finds to hold has its theorem. That a list is
split without loss (`EachInOneJob`) is proved for every length and not run. How late the lock comes is
neither proved nor checked, as it depends on how many logins overlap. No module uses RECURSIVE
operators, so that all can be proved about.

## 5. Not modelled

- Parsing of `.torrent` files and magnet links, WebTorrent, FFmpeg, BullMQ, PostgreSQL and
  SMTP are environments: modelled from how the code uses them, or (FFmpeg) as a stream
  that ends.
- Rate limits, validation, serialisation, logging, access tokens, single mails, start-up:
  stateless, or pure I/O.
- Lists and profiles (`listByUser`, `getUserInfo`): they read and change nothing. That
  `getById` of a collection is several SELECTs to PostgreSQL, between which items may change,
  is left out with them.
- Requests to `/files/*` with keys that `init` has not made up, and requests about two
  accounts at a time: no code relates one account, key or collection to another.
- The expiry of refresh tokens and two-factor tokens: a token that has expired is refused
  like one that never was.
- The mail worker's branches for retryable, blacklisted and fatal errors: `error.name` of
  nodemailer's errors is "Error", so that they are never taken (see `BulkMail`).

## 6. Plan

Done, in the order of importance: the engine and its abstraction, its proofs; range
requests; the HTTP flow over the abstract engine; refresh tokens; the account composed of
sessions, lock and guard; files and the object store; collections and saved torrents; the
bulk-mail queue; a theorem for each safety property; what a logout guarantees, and token
exchanges as an abstract specification; bounds on the engine's overload and on waiting times.

Left:

1. Two uploads of one file at a time and the garbage they leave, should the code get a
   collector for temporary objects.
2. The mail worker's categories, should `getErrorCategory` come to look at `error.code`:
   retries of single addresses would then add jobs from within a job.
