# A TLA+ model of imghost

imghost is a self-hosted image and video host: anonymous and registered users
upload media into albums, share them by link, reorder, download and delete
them; anonymous albums expire. One Python package (`src/imghost`) runs in three
roles (application, worker, scheduler) over PostgreSQL, an object store and,
optionally, Redis. This directory holds TLA+ modules for the parts of it where
ordering, concurrency and failure decide correctness, the TLC configurations
that check them and TLAPS proofs about them. Paths below are relative to the
repository unless they name a module here.

## 1. Inventory

For every component: the state it keeps, its operations, how it interacts, and
what makes it correct.

| component | state | operations | hard behaviour | correct when |
|---|---|---|---|---|
| Service (`service.py`) | none of its own; each request carries what it read | upload, update, reorder, delete item, delete album, prune, admin expiry, thumbnail job, ZIP | every `await` lets other requests run; several statements and object store calls per request, no transaction around them | rows and objects stay in step, acknowledged uploads survive, a deletion is announced once |
| Repository and schema (`repository_*.py`, `db/init/001-init.sql`) | tables users, albums, media, api_keys, sso links, nonces, ShareX capabilities, config | one statement or short transaction per method | full-row updates of rows read earlier; SELECT-then-DELETE at READ COMMITTED; cascades; row locks that deadlock | each method is atomic, foreign keys hold |
| Storage (`storage.py`) | objects by key | put, delete, get, ranges | may fail on its own; never in a transaction with the rows | put overwrites, delete is idempotent |
| Task queue (`tasks.py`, `task_catalog.py`) | a Redis list per queue, an in-process queue per process, worker coroutines | enqueue, pop, run, retry, join, stop | BLPOP loses the job with the worker, lost replies duplicate it, a fallback queue lives in memory, sentinels on stop | a job's item is done or failed in the end, at most `max_attempts` attempts per job |
| Application state (`app_state.py`), CLI (`__main__.py`) | process role | start, stop, recover thumbnails, retry-thumbnails, promote administrators | recovery races with jobs that are still queued | nothing unfinished is forgotten |
| Scheduler (`scheduler.py`) | next cleanup time; a lease in Redis | tick | several schedulers, lost lease replies, ticks that outlive the lease | a lease is taken once per interval, and a prune runs again and again |
| Redis handle (`redis_support.py`) | circuit breaker: blocked until | execute, ping | shared by queue, limiters, sessions, lease | an outage degrades, never blocks |
| Sessions (`sessions.py`) | signed cookie, session record in Redis | create, resolve, clear | outage: fail closed or fall back to the cookie | a cleared session does not come back |
| Upload limits (`rate_limits.py`), login limits (`auth_rate_limits.py`) | windows in memory, counters and locks in Redis | enforce, record failure, record success | check then increment; two places that do not see each other | no more than the limit per window, but for what overlaps |
| Accounts (`account_service.py`), OAuth (`web/oauth.py`, `oauth/*`) | users, API keys, SSO links, nonces | create, update, password, delete, login by provider, disconnect | read-modify-write of whole rows; check then create | a login method remains; a nonce works once; a deleted account stays deleted |
| ShareX links (`sharex_delete.py`, `web/pages.py`) | capabilities: consumed, revoked, expires | issue, visit, confirm, revoke, clean up | consumed before the deletion it authorises | one deletion per link, none after revocation |
| ZIP streaming (`zip_streaming.py`) | bounded queue, stop flag, producer thread | iterate, close | the reader leaves while the producer blocks; objects vanish | a finished archive is complete and in order |
| Runtime configuration (`runtime_config.py`) | one row per setting | list, patch | locked keys, a comparison with values read earlier | a patch is applied whole or not at all |
| Event bus (`events.py`), telemetry | observers; audit rows | emit | a listener that fails | no listener keeps an event from another |
| Processors, web layer, front end | none | pure functions, request parsing | | |

The components interact by direct calls inside a process (web layer to
service to repository and storage), by events delivered in the emitting
request (`MediaUploaded` enqueues a job), by the Redis lists between processes,
and above all by shared rows, objects and Redis keys.

`PROJECT.json` lists the components with what is modelled of each, and the
hazards of the code at the line where each bites.

## 2. Plan

Seven groups, in the order of what a defect would cost. All are written.

1. **Media life cycle**: `LibraryStore`, `MediaLifecycle`, the abstract
   specification `Catalogue`, `MediaLifecycleProofs`, `ConservationProofs`.
2. **Thumbnails**: `Thumbnails`, `ThumbnailsProofs`.
3. **Accounts**: `AccountStore`, `Accounts`, `AccountsProofs`.
4. **Redis**: `RedisHandle`, which the next three extend: `SignIn` with
   `SignInProofs` (sessions and login limits), `UploadLimits` with
   `UploadLimitsProofs`, `Scheduler` with `SchedulerProofs`.
5. **One album under load**: `AlbumRows` and `ZipBridge`, composed by `AlbumDesk`
   (positions, ShareX links, suspension, settings, events, archive);
   `AlbumDeskProofs`.

What would come next: byte ranges against a reference definition; telemetry
retention, should anything come to read it back.

## 3. Modules

| module | models | state and actions |
|---|---|---|
| `LibraryStore` | albums, media and users rows, originals in the object store | one operator per statement of the repository; `home` keeps `media.album_id` of deleted rows, `minted` the ids handed out, `lapsed` the albums that were ever expired (all three history) |
| `MediaLifecycle` | `UploadService` and `delete_user_by_id` as concurrent requests over the store | `pc` is the `await` a request stands at, `loc` the values it carries; one action per step between two awaits |
| `Catalogue` | what a visitor is promised | albums open and close once; items are listed once, in an open album; a closed album takes its items with it |
| `Thumbnails` | `generate_thumbnail`, `RedisTaskQueue`, its `AsyncTaskQueue` fallback, start-up recovery, `retry-thumbnails` | `run` is the job in the hands of each coroutine, `queue` the Redis list, `local` the in-process queues, `sweep` what a starting process has still to enqueue |
| `AccountStore` | users, api_keys, user_sso_links, oauth_state_nonces | one operator per statement, which says whether it succeeded |
| `Accounts` | `AccountService`, the OAuth routes and the authentication before them, as concurrent requests | `pc` and `loc` as above; a slot is free again when its request ends |
| `RedisHandle` | one process's handle with its circuit breaker | `Command`: a command is answered, lost after it took effect, failed or never sent |
| `SignIn` | `RedisBackedSessionBackend`, `RedisAuthRateLimiter` and their fallbacks, in several processes | one action per Redis command |
| `UploadLimits` | `RedisRateLimiter`, `InMemoryRateLimiter` | one action per Redis command, one for a check in memory |
| `Scheduler` | `SchedulerService`, its lease, the prune job in every queue mode and role | one action per Redis command, `Pass` for one poll interval |
| `AlbumRows` | positions, ShareX capabilities, suspension, settings, with row locks and transactions | `tx` is what each transaction has locked and written |
| `ZipBridge` | `AsyncIterableBridge` and the loop of `stream_album_zip` | the producer thread and the reader, step by step |
| `AlbumDesk` | everything requests do to one album together | composes the two |
| `*Proofs` | theorems | section 6 |

`MCMediaLifecycle`, `MCThumbnails`, `MCAccounts`, `MCSignIn`, `MCUploadLimits`,
`MCScheduler` and `MCAlbumDesk` instantiate them for TLC. An operator whose
comment begins with "Mutant" is a defective form of the definition below it
that the properties are tried against; nothing else uses it.

### MediaLifecycle

An `await` is a step boundary, so one handler becomes several actions: upload
is `Admit` (quota), `OpenAlbum` or `MakeAlbum`, `CountItems`, `StoreFile` or
`RejectFile`, `InsertRow`, `Rollback`, `UnwindList`, `UnwindDelete`,
`TouchAlbum`. A call that reads and one that writes the store never share an
action unless one statement does both. `delete_album` of the repository is two
actions, `SelectRows` and `DeleteAlbumRow`, because PostgreSQL runs the two
statements on different snapshots; where its result is not used (delete_media,
unwinding, prune's event) it is one. `TouchAlbum` writes `expires_at` back as it
was read, as `update_album` does with the whole row. `Crash` stops any set of
requests where they are: the process of all of them died, or clients went away.
`Fault`, a failed object store call or a commit whose reply is lost, shares its
bound with crashes. A statement that fails without effect ends its request like
a crash does.

Abstracted: titles and covers; positions (in `AlbumDesk`); sizes (an item is one
unit of quota); tokens and access rights other than expiry; thumbnails of
deleted items (in `Thumbnails`); the rate limiter's refusal (before any effect).

The initial states are any small library that earlier, completed requests may
have left.

### Thumbnails

`Take` is BLPOP or the in-process queue's get followed by `get_media`; `Mark`,
`Put`, `Finish`, `Tidy`, `Again`, `GiveUp` are the awaits of
`generate_thumbnail` in their order; `Requeue` is the queue's retry. `Push` is
`RedisTaskQueue.enqueue`: a call that fails falls back to the in-process queue,
and may have pushed the job all the same. `Delete` and `RemoveObject` are what
`delete_media` does to the item. `Start`, `Reset`, `SweepOne` are
`recover_thumbnails`, `Join`, `Stop`, `Leave` the end of `retry-thumbnails`:
the consumer is cancelled wherever it is and the in-process queue drains up to
the sentinel. The two SELECTs of the recovery are one step.

`cut` remembers that work was lost that no worker restart makes good: the
application or the command ended with a job in memory, BLPOP lost its reply.
`NothingForgotten` and `EverythingSettles` hold while `cut` is false and no
statement failed; the hazard list says what the code loses otherwise.

### Accounts

What an authenticated request carries is the users row it was authenticated
with, and `update_user` writes the whole row back; so every operation that
writes a row is a read (`BySession`, `LoadUser`, `ReadUser`, `ResetPassword`,
`Promote`) and `WriteUser`. A Bearer request reads key and user and then stamps
the key (`FindKey`, `LoadUser`, `StampKey`). An OAuth callback is `Callback`
(the nonce's `DELETE ... RETURNING`), `WhoAmI`, `Exchange`, then `Ticket` for
reauthentication or `FindLink`, `CheckMail`, `AddUser`, `AddLink`. `delete_user`
is `SelectUser` and `DropUser`, two statements at READ COMMITTED. `Abandon` ends
a request anywhere: the client left or the process died.

The browser is the environment: it presents any session, key, OAuth state or
reauthentication cookie that it was ever given. The provider answers with any
identity and address. `overwritten` remembers accounts whose row was written
over by a request that had read an older one: `LoginMethodRemains` and
`SuspensionStands` exclude those, the only exception the code forces, and the
hazard list names the lines.

A row is an address (which stands for the user name as well), a password and
the suspension; is_admin, quota and limits travel along unseen. Profile fields,
password hashing, PKCE and signatures are left out. What suspension does to
ShareX links is in `AlbumDesk`.

### RedisHandle, SignIn, UploadLimits, Scheduler

`RedisHandle` is shared by all that uses Redis. A command of a script may be
lost after it took effect; a script that began does not ask for the client
again; a success marks the handle available, an error opens the breaker for
five seconds (`Cooldown` ends that at any time).

`SignIn` has one client address and one account, several processes, and all
requests that pass through a session or a login limit. What differs between the
fallbacks is kept: `MemEnforce`, `MemCount`, `MemFailure`, `MemSuccess` act on the
memory of the process the request is in. The memory takes the time and looks at
its lock (`MemEnforce`), awaits its settings, and only then prunes, compares and
adds, with the time it took (`MemCount`); a failure is likewise counted after its
settings have been read. Its window is a sliding minute: of the attempts of
earlier minutes (`old`) a check may find any number still in it, those of this
minute (`new`) stay. `guesses`, `admitted` and `late` count what the limits are
about, apart from the counters of the code: `admitted` the attempts that took
the time in this minute, `late` those let through with the time of an earlier
one. Two consequences the model
shows and the code's readers may not expect: while Redis is out and sessions
fail closed, requests of real administrators are counted as denials and lock the
administrator scope; and a session that lives in a cookie alone ends only when
the browser forgets it.

`UploadLimits` keeps minutes and the window algorithm: `Prune` cuts the one
deque that both windows of a counter share. The commands of one upload against
Redis are `Ask` (GET), `Sum` (HGETALL, HDEL), `Bump` (INCR), `Book` (HINCRBY),
counter by counter; a failure anywhere does the check again in memory. An upload
takes its minute when it arrives, and the counter of that minute lives 120
seconds (`CountExpires`; the bytes of a counter 3720, `BytesExpire`), so an upload
that is slow to read its settings may find it gone. A counter is taken away only
while a request is under way that would notice. The keys
`anon:global`, `anon:...` and `user:...` differ, so `Global` is no user and no
address. `Booked` is the sum of the bytes of some minutes: the check of the hour
uses it, and so does `HourBounded`.

`Scheduler` has a process per role; `Pass` is one poll interval, and a tick may
take any number of them. An exception of SET or EVAL that is not `RedisUnavailable`,
which would leave `tick` and end the loop, is not modelled. `lease.left` is the time to live of the key, `due` may
be negative inside a tick that is late. `Stop` is a regular stop, which drains
the in-process queue, `Crash` loses it; both leave the lease behind with a token
nobody holds any more.

### AlbumDesk

`AlbumRows` models PostgreSQL as far as these handlers see it: a transaction
holds the rows it has written (`tx`), another writer of such a row waits
(`Free`), and of two transactions that wait for each other one is rolled back
(`Deadlock`). Upload takes the album row (`Place`: `SELECT ... FOR UPDATE`, then
the highest position plus the gap) and inserts; reordering writes positions in
the client's order, reads them back, commits, and does it once more if two are
too close. An event is announced listener by listener (`Hear`), each of which
may fail. A patch of the settings compares with the values it read at the
start, writes those that differ and commits. `ZipBridge` runs beside it over the
objects that deletions remove.

## 4. Runs

| run | bounds | shows |
|---|---|---|
| `lifecycle` | 2 albums (one owned), 2 items, 3 requests of any kind, 1 fault, clock 0..1, limit and quota of 2 items | `TypeOK`, `RowsKeepOriginals`, `NoOrphanInLiveAlbum`, `RefusedUploadLeavesNothing`, `AckedUploadSurvives`, `AlbumDeletedOnce`, and the refinement `ImplementsCatalogue` hold |
| `prune_failure` | 1 album, 2 requests, 1 fault | `NoDanglingRows` (`plan/DESIGN.md:1511`) is violated |
| `admin_expiry` | 1 album, 2 requests, no fault | `AdminExpiryStands` (`plan/DESIGN.md:566`) is violated |
| `thumbnails` | 1 item, the real 3 attempts, 1 worker, 1 crash, 1 failed Redis call, 1 failed statement or storage call | `TypeOK`, `DoneHasThumb`, `NothingForgotten`, `NoLeakedThumb`, and under fairness `EverythingSettles` hold |
| `retry_thumbnails` | 1 item, 2 attempts, 1 worker and the command, 1 failed Redis call, 1 failed statement or storage call | `NothingForgotten` holds with the command's sweep, cancellation and drain |
| `done_twice` | 1 item, 1 failed Redis call | `DoneIsFinal` (`plan/DESIGN.md:2392`, `:2398`) is violated |
| `accounts` | 2 users, 2 addresses, 1 password, 1 identity, 2 keys, 1 nonce; 2 requests at a time, 5 in all | `TypeOK`, `LoginMethodRemains`, `NonceOnce`, `GoneStaysGone`, `KeyIsLatest`, `SuspensionStands`, `LinksOnlyByConsent` hold |
| `sign_in` | logins, administrator requests and logouts, 2 at a time in 2 processes, 4 in all; 1 token, threshold 2, 1 attempt a minute, 2 minutes, 1 fault | `TypeOK`, `GuessesBounded`, `AttemptsBounded`, `CountersExpire`, `EndedStaysEnded` hold |
| `upload_limits` | 3 uploads of 1 or 2 bytes from one address, 2 at a time in 1 process; 4 minutes, an hour of 2; counters of uploads live 2 minutes, of bytes 3; 1 fault | `TypeOK`, `RpmBounded`, `HourBounded`, `NoneUncounted`, `RefusedSpendsNoneOfGlobal` hold |
| `hourly_bytes` | 3 uploads one after the other in 1 process, 2 minutes | `BytesPerHour` (`plan/DESIGN.md:747`) is violated |
| `scheduler` | 2 schedulers and a cleanup worker, every queue mode, with Redis, without, and required; interval 2, lease 3, queues of 2, 2 faults | `TypeOK`, `Spaced`, and under fairness `PruneRecurs` hold |
| `album_desk` | 2 operations of any kind on one album of at first 2 and at most 5 items (limit 3), 3 links, gap 4, uploads of up to 2 files; 3 settings, one locked; 1 failing listener; an archive of 2 chunks an item through a queue of 1 | `TypeOK`, `ItemsBounded`, `UploadsSpread`, `EveryListenerTold`, `ArchiveHonest`, `SpentOnce`, `SettingsWhole` hold |

Deadlock is not checked: requests and what may be handed out are bounded, so a
run of the system may end.

Why these bounds are enough. Every race of the life cycle is between two
handlers over one album, and a third request is room for the admin or the
second prune that turns a race into damage; two albums are needed for prune's
loop and for owned next to anonymous. Quota and item limit at 2 are reached and
refuse. Items of a thumbnail job share nothing but the queue, so one item with
several jobs shows every overlap; two jobs for it arise from a lost push reply,
from a restart's sweep and from the command's. The hazards of the accounts are
a request that carries a row and another that changes it, so two at a time; five
in all are a sign-in by OAuth (start, callback), the password it lacks, and the
two that race. The limits of `SignIn` and `UploadLimits` are small enough that
the second or third request meets them; with one fault a count is split between
Redis and a memory in every way. `SignIn` has two processes, whose memories do
not see each other; `UploadLimits` spends its states on a fourth minute instead,
so that counters run out under uploads that took the time in the first, and
leaves several processes to the theorems. The scheduler's lease is
longer than its interval, as by default, and a process can be a whole lease late.
`album_desk` runs any two operations in every interleaving, with enough room
(gap 4, places 3 and 4) that a reordering is too close and rebalances.

Symmetry is used for requests, items, users, processes, links and tokens where
nothing names one of them, and never in a run with liveness.
`ImplementsCatalogue`, `LinksOnlyByConsent`, `SpentOnce` and `SettingsWhole` are
safety properties and symmetric in what is permuted.

What the properties say beyond the obvious: `AckedUploadSurvives` lists every
way an acknowledged upload can disappear, and two entries are surprises: a
sibling item's deletion that found the album empty a moment before, and the
failing creator of the album. `RowsKeepOriginals` lists who may leave a row
without its object: prune, account deletion, and an INSERT whose reply was lost.
`DoneHasThumb` also says that an item whose thumbnail is not done names none.
The bounds of `SignIn` and `UploadLimits` count the places: with Redis up the
limit holds but for requests that overlap; once it was out of reach every
process's memory adds a limit of its own. Both kinds of limiter take the time
before they read their settings, and a request that is slow in between counts
for a minute that is over: its counter may have run out, its events may have
been pruned by others. `RpmBounded` therefore allows every request under way once
more when the minute is over, `HourBounded` when the hour is, and `AttemptsBounded`
has a bound of its own for such attempts (`late`). A limit of 1 may so be passed
by a handful of requests within one minute, though never by more than are under
way at a time.

### Disagreements

1. Prune deletes objects first "to prevent orphaned DB rows pointing to missing
   objects"; with a rescue by an admin in between, such rows are what it leaves
   in an open album (`prune_failure`).
2. An admin's change of expiry is undone by any handler that read the album
   before it and writes the row after it (`admin_expiry`).
3. A second thumbnail job is not a no-op when it looked before the first one
   finished (`done_twice`). The result is still right: `DoneHasThumb` holds.
4. Without Redis the limit of bytes per hour looks at one minute only: counting
   the minute's uploads prunes the deque the hour is summed over
   (`hourly_bytes`). `HourBounded` is therefore about Redis alone. The document is
   not of one mind: `plan/DESIGN.md:747` and `:751` name the hourly limits, while
   `:738` says that without Redis rate limiting is disabled entirely, and `:757`
   that it fails open in an outage. The code does limit in memory in both cases,
   correctly by the minute and wrongly by the hour.

Further differences between documents and code, met while modelling and too
small for a run: `plan/DESIGN.md:384` and `:757` say that sessions fail closed,
the default is to fail open (`config.py:126`); `docs/configuration.md:208` calls
the Redis window of login failures rolling, it is fixed; `docs/background-jobs.md:72`
says the scheduler does not run cleanup itself, which it does in the modes
`async` and `sync` and after a failed push; `:70` of the same file describes
`SCHEDULER_ENABLED`, the code reads the application's own switch
(`app_state.py:203`). Suspending a user revokes links and announces the change
before the row is written (`account_service.py:416`), so an upload with an API
key in between leaves a live link. The page for an album already deleted by a
link cannot be reached, as links go with their album. Two patches of the
settings that skip values equal to a stale reading can leave a pair nobody
asked for (`runtime_config.py:265`). Two reorderings that commit between each
other's readings can leave positions closer than two.

## 5. Fairness

All modules but two state safety only and assume no fairness. In `Thumbnails`,
coroutines that can go on are run by the event loop (`WF(Working(x))`), a
worker that is down is restarted (`WF(Start(p))` for workers: `restart:
unless-stopped` in `compose.yaml`), the event handler pushes, a sweep proceeds,
and the command ends. Nobody has to upload, delete, or run the command.

In `Scheduler` the clock goes on (`WF(Pass)`), so do the scheduler loop, the
worker loop, the job in a worker's hand and the in-process queue of each process
(`Step`, `Serve`, `RunJob`, `RunMemory`), a process that stopped is started again
(`Life`), and the breaker closes after its five seconds (`Closes`). Nothing is
assumed of faults, stops, crashes and enqueues that raise; they are only finitely
many.

## 6. Proofs

All proofs hold for every value of the constants that satisfies the named
ASSUMEs, which TLC evaluates in the runs.

`MediaLifecycleProofs`:

- `TypeCorrect`: `Spec => []TypeOK`. `TypeInv` adds that a request past the
  point where it chooses its media has one: without it, `InsertRow` could not be
  shown to insert a media id.
- `DeletedOnce`: `Spec => []AlbumDeletedOnce`. The property is not inductive:
  `delete_album` cleans up the objects between the deletion of the row and the
  event, and a request there still owes the event. `EventInv` says that an album
  that is announced or owed is gone for good (handed out, without a row; ids are
  not handed out twice), that it is not both, and that at most one request owes it.
- `Implementation`: `Spec => ImplementsCatalogue`. `ShelfInv` says what the
  mapping needs: every row's album has its row, an id not yet handed out never had a
  row, and neither had the id an upload is about to insert, which no other
  upload holds. Each action is then one catalogue step (creating, listing,
  removing, closing) or a stutter.

`ConservationProofs` proves the four properties of rows and objects: `RowsServed`
(`RowsKeepOriginals`), `NothingLeaked` (`NoOrphanInLiveAlbum`),
`RefusalLeavesNothing` (`RefusedUploadLeavesNothing`) and `AckedSurvives`
(`AckedUploadSurvives`). None is inductive by itself: whether a deletion may take
an object depends on what the request read several awaits ago. `MediaInv` joins
them with

- `StoreInv`: every row has its album, and an album that is expired is known to
  have been;
- `SoundInv`: what each request may rely on of the values it carries. The media
  about to be inserted has its object and no row; objects are deleted after
  their rows (`delete_media`, `delete_album`), or belong to an album that was
  expired (prune) or to the account that goes; an upload that unwinds or is
  refused has, without a fault, nothing left;
- `OwnMedia`: no two uploads have one media id;
- `Survives`: `AckedUploadSurvives` from the INSERT on.

The proof goes from steps to promises: `Path` says where a step leads its
request, `Writes` what it does to the store and why it may, and `StepKeeps` that
the two keep all of `MediaInv`, the other requests' part included. What is left
is one lemma per action (`AdmitKeeps` ... `DropUserKeeps`), which shows `Path`,
`Writes` and what its request may rely on afterwards.

`ThumbnailsProofs` proves every safety property of the `thumbnails` run.

- `TypeCorrect`: `Spec => []TypeOK`. `ShapeInv` adds what a job in hand relies on
  (`Sane`): its attempt is within the limit, it retries only while attempts are
  left, and the copy of the row it will write back never names a thumbnail.
- `DonePublished` (`DoneHasThumb`). `PublishInv` adds, for each job (`Honest`), that
  while nothing fails one about to finish has its thumbnail in place and one that
  deletes its own thumbnail does so because its item is gone: this is why no job
  takes what another one published.
- `NothingLost` (`NothingForgotten`). `KeptInv` is stronger in one place: an item a
  command has still to reset does not count as held. The command may abort there
  without a fault, when another item of its list was deleted.
- `NothingLeftBehind` (`NoLeakedThumb`). Here the jobs must not overlap, so `CalmInv`
  carries the whole account of them: an item is with its request, once on the
  queue or in one hand (`Single`), never when it is done; a thumbnail is its row's,
  its job's or on its way out (`Traced`).

Helper lemmas say once what each way to move a coroutine, to write a row and to
push or take a job does; there is then one lemma per action and invariant.

`SchedulerProofs`:

- `TypeCorrect`: `Spec => []TypeOK`. `DueInv` is needed for the range of `due`: a
  tick that holds the lease began when it was due, so that `Sleep` adds an
  interval to something that is not positive.
- `LeaseSpaced`: `Spec => Spaced`, the lease is taken again only a whole lease
  later or after it was given back. `LeaseInv` is the strengthening: the age of a
  lease and the time it has left make up its length, and a free lease has run out
  or was returned. It is what a release without the comparison of tokens breaks.

`AccountsProofs` proves every property of the `accounts` run: `TypeCorrect`,
`ExchangedOnce` (`NonceOnce`), `DeletionStands` (`GoneStaysGone`), `KeyLatest`
(`KeyIsLatest`), `SuspensionHolds` (`SuspensionStands`), `LoginKept`
(`LoginMethodRemains`) and the action property `Consent` (`LinksOnlyByConsent`).
None is inductive. `Inv` joins them with what makes them so:

- `IdInv`: ids are handed out once, nothing is remembered of those that are not,
  and `able` and `barred` name accounts that exist;
- `NonceInv`: a nonce that can still be redeemed was not exchanged;
- `OnePending`: no two requests stand between the redemption of one nonce and
  the exchange of its code;
- `Sound`: what each request may rely on of the values it carries, at each await.
  A request about to insert a link has a flow of its user's or has just created
  the account; one about to disconnect has seen a password that is still there
  (`KeepsPw`); one about to write a row changes the password only to another
  password, and the suspension only as a PATCH.

Requests that only read keep `Inv` if where they go is `Sound` (`ReadInv`); of the
statements it has to be shown that they are `Kept`, that is harmless to what the
other requests rely on (`WriteInv`, `LastInv`). One lemma per action, or per group
of reading actions, then gives `StepInv`.

`SignInProofs`: `TypeCorrect`, `WindowsClose` (`CountersExpire`) and `LogoutHolds`
(`EndedStaysEnded`). `PlaceInv` says which kind of request stands at each await and
that it has the values it needs there, `BreakerInv` that a breaker opens only after a
fault, `EndedInv` that an ended session has no record and was kept in Redis.
`CommandFacts` states once what a Redis command may do; there is one lemma
per action. A request at its `EXPIRE` is counted on by the counter it created,
so the lemmas of the actions that leave that place, or create a counter, carry
the weight.

- `AttemptsHeld` (`AttemptsBounded`). `AttemptInv` says that what was let through in
  the minute, with the requests that have been counted and are still on their way
  (`Owing`), is no more than Redis and the memories (`Recall`) have counted in it,
  and that Redis with the requests past its GET (`Bumping`) counts no more than the
  limit and the overlap. `LateInv`: what was let through late, with the requests
  that still carry the time of an earlier minute, is no more than the requests.
- `GuessesHeld` (`GuessesBounded`). `GuessInv` attributes every wrong password to the
  place that counts it: the failures of a place that is not locked are short of
  the threshold (`Noted`, `Tally`), and in a place that is locked (`Held`,
  `HeldInMemory`) only requests that were past their check can still add. A fault
  moves requests that were checked in one place to another, and the cooldown moves
  them back, which is why each fault is worth the requests twice (`Budget`). A
  request that is bound for the memory is judged by the memory's lock, wherever its
  breaker stands (`Shut`, `Stray`).

`UploadLimitsProofs` proves every property of the `upload_limits` run. Two things
come first. `SumFunctionOnSet` of the library is a recursive function, of which
nothing follows by unfolding; `SumIsPile` shows, by the well-founded order of the
subsets of a finite set, that a sum is the cardinality of a set of pairs
(`Pile`), and the laws of cardinality then give those of sums. And
`PruneShape` says what pruning a window leaves: a tail of it, the events of the span at least.

- `TypeCorrect` (`TypeOK`). `Shape` adds what a request carries: the counters of
  its user or address, of which those still to do are all, or the global one.
- `RpmHeld` (`RpmBounded`) and `NoneUncountedHeld` (`NoneUncounted`). `CountInv` says that
  a counter of Redis with the uploads past its GET is within the limit and the
  overlap, `WindowInv` that a window is within the limit, `CalmInv` that without
  a fault no memory is used. `TallyInv` ties them to what was let in: as long as
  the minute lasts (`First`), with the uploads that have counted already and are
  still under way, it is no more than Redis and the memories hold for the minute.
  When it is over, counters run out and windows are pruned, and `First` fails; from
  then on (`Ended`) only the uploads under way with that minute's time (`Going`) can
  add to it, which is what the bound allows for.
- `RefusedHeld` (`RefusedSpendsNoneOfGlobal`). `GlobalInv` is the converse for the
  global counter: it exceeds what was let in only by the uploads at their HINCRBY
  and by lost answers, as the global counter is the last that a request does.
- `HourHeld` (`HourBounded`). `HourInv`, while Redis counts everything: the bytes of an
  hour with those of the uploads past the check (`BytesClear`) are within the limit and
  the overlap. What was let in is no more than what Redis holds (`HourFirst`)
  while the hour lasts; once it is over its bytes may be deleted or run out, and
  nothing new comes into it but the uploads under way (`HourSecond`), all of them
  at most.

Attempting these proofs corrected bounds that the small instances had not
refuted. `GuessesBounded` counted the requests past their check once, and not
once for each place and twice for each fault; `RpmBounded` and `HourBounded` allowed
for the overlap once, though late uploads pass again when what had been counted
is gone. Each is false for more requests, processes or minutes than the run has.

Every invariant of the passing runs is proved, and so are the step properties
and the refinement. Only model-checked: the liveness properties
`EverythingSettles` and `PruneRecurs`, which are out of the prover's reach.

## 7. Not modelled

Rendering, validation and sanitising of media (they succeed or fail); cryptography
(passwords, signatures, PKCE, tokens are right or wrong); byte ranges and other
reads that change nothing; the contents of audit rows, and the metrics and
queries of telemetry (no modelled handler reads them back); HTTP parsing,
headers, CSRF tokens, templates, front-end code, container set-up; status and
health reports. The components marked `partly` in `PROJECT.json` say what of them
is left out.
