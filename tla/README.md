# RubeTunes: TLA+ specifications, model checking and proofs

RubeTunes downloads music and video outside Iran and hands the files to users
inside. This directory holds TLA+ models of the parts of it whose correctness
depends on interleavings, failures and message order, the TLC configurations
that check them on small instances, and TLAPS proofs of what matters most for
every instance. Paths below are relative to the repository.

- [The system](#the-system)
- [The modules](#the-modules), one section for each
- [Runs](#runs), with bounds and fairness
- [Proofs](#proofs)
- [Where code and documents disagree](#where-code-and-documents-disagree)
- [What is not modelled](#what-is-not-modelled) and [the plan](#plan)

To check: `tlc -config <cfg> <module>` for each run (`PROJECT.json` names its
module), `tlapm <...>Proofs.tla` for each proof module.

## The system

Two servers exchange JSON text messages through two Rubika accounts
(`RTUNES::` prefix, `kharej/contracts.py` and `iran/contracts.py`) and files
through an S2 bucket: the *site* in Iran and the *worker* outside ("Kharej"). A
third program, the legacy *bot* `rub.py`, does everything in one process.

| Component | State | Operations | Modelled by |
|---|---|---|---|
| Job queue of the site (`iran/api/jobs.py`, report handlers in `iran/main.py`, force-cancel in `iran/api/admin.py`) | `jobs` table in PostgreSQL; pending one-hour expiry tasks | submit, cancel, force-cancel, handle accepted / progress / completed / failed, promote from the queue, expire | `IranJobs` |
| User access on both sides (`iran/api/auth.py`, `admin.py`, `deps.py`, `kharej/access_control.py`) | `users.status`, registrations; the worker's whitelist, blocklist and `access_state.json` | register, approve, block, unblock, delete; control messages; access check | `UserAccess` |
| Event stream (`iran/event_bus.py`, `job_events` in `jobs.py`) | subscriber queues per job | subscribe, publish, close | `EventStream` |
| Search and health (`iran/api/search.py`, `admin.py`, the worker's searchers) | pending requests and results in memory, pictures in the store | ask, answer, time out | `SearchRelay` |
| Runtime settings (`kharej/settings.py`, `iran/api/admin.py`, `on_admin_ack`) | settings table; the worker's dictionary and file | update, apply, acknowledge | `RuntimeSettings` |
| Rubika link (`iran/rubika_client.py`, `kharej/rubika_client.py`) | connection, reconnect back-off, de-duplication window | send, receive, reconnect, stop | `RubikaLink`; the worker's side in `KharejDispatcher` |
| Dispatcher of the worker (`kharej/dispatcher.py`, `worker.py`) | registry of asyncio tasks per job_id | handle job.create / job.cancel, run, time out, report, shut down | `KharejDispatcher` |
| Downloaders (`kharej/downloaders/`, `zip_split.py`) | track states, temporary files, refs | single track, collection, batch, ZIP, upload | `JobDownloads` |
| S2 clients (`kharej/s2_client.py`) | multipart uploads in S2 | upload with retry, abort | `ObjectUpload` |
| Proxy pool (`kharej/proxy_manager.py`) | working list and score records under a lock, cache file | refresh, pick, mark succeeded / failed, evict | `ProxyPool` |
| Bot (`rub.py`, `main.py`) | `download_queue`, `is_downloading`, pending selections, snapshot file | commands, selection, run and hand off, expire, cancel, save / restore | `BotQueue`, `DownloadLine` |
| Upload retry of the bot (`rubetunes/upload_retry.py`) | queue, its file, a directory of kept files | enqueue, tick, cancel, load | `UploadRetry` |
| Provider waterfall (`rubetunes/downloader.py`, `circuit_breaker.py`) | breaker states | rank, try sources in order, record outcomes | `ProviderWaterfall` |
| YouTube notifications (`rubetunes/yt_notify.py`) | channels, subscribers, seen videos, file | subscribe, unsubscribe, poll | `YtNotify` |
| Qobuz credentials (`rubetunes/providers/qobuz.py`) | credentials in memory and in a file, user token | request, refresh, fall back | `QobuzCredentials` |
| Monochrome (`rubetunes/providers/monochrome/`) | access token with its lock | search, stream address, download | `MonochromeTracks` |
| Logins, other providers, caches, pages, migrations | | | not modelled, see [below](#what-is-not-modelled) |

What is hard in it, and what makes each part correct:

- **Coroutines that interleave at awaits.** Every process is one asyncio loop.
  A coroutine is atomic between awaits, and nearly every handler awaits a
  Rubika send between reading a state and writing it. The registry of the
  dispatcher must stay exact although job.create awaits before it registers;
  cancellations must reach the task they mean.
- **Transactions that overlap.** Each request of the site holds a database
  session open across a Rubika send, and commits when it is done. Queued jobs
  must not be dispatched twice, not be left behind, and not be promoted past
  older ones; decisions must survive what happened during the send.
- **Two copies of one truth.** Job status on the site and running task on the
  worker, user status on the site and lists on the worker, lists in memory and
  in the file: the copies are connected by unacknowledged messages.
- **Failure and restart.** Sends fail with or without having delivered,
  connections drop, handlers raise half-way, both processes restart.
- **Progress.** Tasks must end, a stopped worker must exit, sessions must not
  wait for each other's row locks, queues must drain.
- **Threads beside the loop.** Proxy refreshes, downloads, providers and the
  state of subscriptions run in threads that share records with the loop; some
  use a lock, some only look as if they did.
- **Retries and fallbacks.** Uploads, requests to providers and downloads are
  repeated, some after the first try had done its work; what a failed or
  cancelled attempt leaves behind must be cleaned up or accounted for.

`PROJECT.json` lists the hazards with the line where they bite and the
properties that cover them.

## The modules

| Module | Models | Theorems in |
|---|---|---|
| `KharejDispatcher` | the worker's dispatcher, its tasks, message handlers, shutdown | `KharejDispatcherProofs` |
| `IranJobs` | the job table and all sessions that write a status | `IranJobsProofs` |
| `UserAccess` | user status on the site, the control channel, the worker's lists and file | `UserAccessProofs` |
| `BotQueue` | the bot's menus, timers, download queue, runner and snapshot | `BotQueueProofs` |
| `DownloadLine` | abstract: what the bot's queue promises; `BotQueue` implements it | `BotQueueProofs` |
| `ProxyPool` | the proxies, their refreshes in threads, and the downloads that borrow them | `ProxyPoolProofs` |
| `ObjectUpload` | uploads of the worker, and the store as the client uses it | `JobDownloadsProofs` |
| `JobDownloads` | the downloaders; its uploads are those of `ObjectUpload` | `JobDownloadsProofs` |
| `UploadRetry` | uploads of the bot that failed and are tried again every hour | `UploadRetryProofs` |
| `ProviderWaterfall` | choice of a source, order of fallbacks, circuit breakers | `ServicesProofs` |
| `YtNotify` | subscriptions to a channel and the poll | `ServicesProofs` |
| `QobuzCredentials` | credentials and token that download threads share | `ServicesProofs` |
| `MonochromeTracks` | downloads that share a token and its lock | `ServicesProofs` |
| `SearchRelay` | searches and pings of the site and their answers | `ServicesProofs` |
| `RubikaLink` | the supervisor and de-duplication of the site's link | `ServicesProofs` |
| `EventStream` | the streams of one job's events | `ServicesProofs` |
| `RuntimeSettings` | settings updates and their acknowledgements | `ServicesProofs` |

`MCKharejDispatcher`, `MCIranJobs`, `MCProxyPool` and `MCJobDownloads` extend a
module with what TLC needs (permutations for symmetry, owners, lists and sizes of
an instance), `MCUserAccess` and `MCBotQueue` with the names of users and chats.
`MCServices` runs the eight small modules
`ProviderWaterfall`, `YtNotify`, `QobuzCredentials`, `MonochromeTracks`,
`SearchRelay` (once with searches, once with pings), `RubikaLink`, `EventStream`
and `RuntimeSettings`, which share no state: the variable `part` is chosen at the
start, never changes, and says which of them a behaviour is one of, so the states
of the parts are added and not multiplied. It extends `SearchRelay`, whose
variables keep their initial values while another part runs, and takes the others
in by INSTANCE.

In each module an operator whose comment begins with "Mutant" is the definition
after it with a plausible mistake. No specification uses it: it documents, and
lets one check, that a property notices the mistake.

### KharejDispatcher

An action is the code between two awaits. `handler[d]` is the coroutine that
`kharej/rubika_client.py` starts per delivery (`idle`, `accepting` while
`report_accepted` is awaited, `rejecting` while `report_failed` is, `done`),
`run[r]` the `_run_job` task (`created` until its first step, `running` in
`asyncio.wait_for`, `completing` or `failing` in a report, `ended`; `stillborn`
if it was cancelled before its first step, in which case asyncio never enters
the coroutine body), `registry` is `_tasks`, `main` the main coroutine from
`worker.run()` through `Dispatcher.shutdown` to `RubikaClient.stop`.
`sent[j]` is the history of what reached Rubika about job `j`.

| Code | Actions |
|---|---|
| `handle_job_create` 283-409 | `CreateRefused`, `CreateAllowed`, then `CreateUnsupported`, `CreateDuplicate`, `CreateSpawns` or `AcceptFails`; `RejectSent`, `RejectFails` |
| `handle_job_cancel` 411-425 | `CancelNoop`, `CancelTask` |
| `_run_job` 617-708 | `RunStarts`, `RunStillborn`, `DownloadReturns`, `CompletedTooLong`, `DownloadFails`, `FailedTooLong`, `DownloadCancelled`, `CompletedSent`, `CompletedSendFails`, `CompletedCancelled`, `FailedSent`, `FailedSendLost` |
| `shutdown` 597-615, `worker.run` | `StopSignal`, `DrainFinished`, `DrainTimesOut`, `GatherFinished`, `CloseTransport`, `CancelRest`, `Exit` |
| link | `Disconnect`, `Reconnect` |

Whether sends can fail at all is chosen at the start and never changes
(`faulty`): some promises are made only where they cannot. A message can be too
long on any link: `encode` raises before the send suspends, for a job.completed
that names too many objects (`CompletedTooLong`: the except clause reports a
failure) and for a job.failed that quotes a long exception (`FailedTooLong`:
nothing is reported, and the code `TooLong` remembers it). Between the closing of
the transport and the end of `run()` the tasks that the drain did not wait for live
on, and their sends raise.

Abstractions: what a message carries besides its job matters only through the
verdicts of the access check and the platform lookup, which are chosen freely.
A download is one await that returns, raises or times out. Progress messages
are left out (no property of this module tells them apart). A failed send may
or may not have been delivered.

### IranJobs

The environment is the worker: after a job.create went out, any report about
the job may come, in any order and any number of times. Each coroutine with a
database session is a slot `session[s]`; an action runs from one await (query,
commit, send) to the next. The database is PostgreSQL at READ COMMITTED, as
SQLAlchemy uses it: `seen` is the status the session loaded and `new` the one it
assigns; the column is written only if they differ, and flushed at the next
query or at the commit; a flushed row is locked (`lock`) until the commit;
`SELECT ... FOR UPDATE SKIP LOCKED` returns and locks the oldest row that nobody
else has locked. `View(s, j)` is what a query of `s` sees.

| Code | Actions |
|---|---|
| `create_job` (jobs.py 420-566) | `CreateBegin`, `CreateRefused`, `CreateAdmitted`, `CreateDecides`, `CreateSent`, `CreateSendFails`, `Commit` |
| `cancel_job` (jobs.py 605-678), `force_cancel_job` (admin.py 505-530) | `CancelBegin`, `CancelSent`, `CancelSendFails`, `ForceSendFails` |
| report handlers (main.py 68-232) | `ReportBegin` |
| `_maybe_dequeue_next_job` (jobs.py 238-292) | `Flush`, `FlushNothing`, `Tally`, `PickNone`, `Pick`, `PromoteSent`, `PromoteSendFails` |
| expiry task (main.py 160-205) | `ExpireBegin`, `ExpireFails` |
| `get_async_session` (engine.py 183-209) | `Commit`, `SessionAborts` |
| death of the process | `Restart` |

`stale` is history: some session has committed while another, still open, had
counted the running jobs or loaded a status. Three remarks of the code are true of
requests that do not overlap only (see
[below](#where-code-and-documents-disagree)); the properties say how far they are
true of those that do, by `stale` (`StrandedOnlyWhenStale`, `PromotedInOrder`) or by
what the cancelling session had loaded (`SilentCancelsAreOvertaken`).

Abstractions: `created_at` is the rank of the start of the transaction that
inserts the row; the rate limit and the quota are one refusal that may happen;
`Requests` restricts an instance to some of the operations.

### UserAccess

`request[s]` is an admin request: the user is loaded, the control message sent,
the status committed, in this order. The channel keeps order. The worker's
handlers run to the end one after the other; `lists` is what it decides by and
`disk` the state file. `verdict[u]` is what the access check said of the last
job of `u`. A message remembers (for the property only) whether the owner was
blocked on the site when the job was dispatched.

| Code | Actions |
|---|---|
| `register` (auth.py 333-408) | `Register` |
| `patch_user`, `patch_registration` (admin.py 258-345, 394-455) | `RequestBegin`, `ControlSent`, `ControlSendFails`, `RequestCommit`, `RequestAborts` |
| `get_current_user` (deps.py 36-78) | `JobAdmitted` |
| job.create, at once or from the queue | `JobDispatched` |
| `AccessControl` handlers (access_control.py 181-247) | `ControlHandled`, `ControlNotPersisted` |
| `check_access` (145-164) | `JobChecked` |
| loss, death of the worker | `MessageLost`, `WorkerRestarts` |

`lossy` and `disturbed` are history: a message was lost or a write failed; two
admins worked on the same user at once or one of them saw an error. No action
looks at them.

### BotQueue

The bot is one asyncio process; an action is the code between two awaits. A
request `r` is one menu of a chat and the download that a selection from it may
lead to; `pc[r]` is where the task that carries it is, first the handler of the
command (`fetching`, `searching`), then the selection (`announcing`), then the
entry (`waiting`, `restored`), then the runner (`downloading` or `futile`,
`notifying` or `mutated`, `greeting`). `pending`, `queue` and `busy` are
`pending_selections`, `download_queue` and `is_downloading`, `timers` the live
`_expire_selection` tasks, `next[r]` the local `next_entry` of a runner,
`snapshot` the file. `dispatched` is history.

| Code (rub.py) | Actions |
|---|---|
| `download_handler`, `spotify_handler` and the other commands, `search_handler`, `_show_platform_menu`, `_ask_quality`, artist menus | `RequestBegin`, `MenuShown`, `MenuFails` |
| `selection_handler` | `SelectMenu`, `SelectDownload`, `AnnounceSent`, `AnnounceFails`, `Cancel` |
| `_expire_selection` | `Expire` |
| `_run_download_and_queue`, `_run_music_choice_and_queue`, `_run_music_and_queue` with `_notify_queue_positions` and `_dispatch_queue_entry` | `DownloadEnds`, `Notified`, `NotifyRaises`, `Dispatch` |
| `_handle_sigterm`, `_restore_queue_snapshot`, death of the process, `main.py` | `Terminate`, `Killed`, `Start` |

Abstractions: which menu leads to which, and what a download does until it
ends, successfully or not. A runner notifies for a while and then raises if the
deque was changed meanwhile, since the iterator of a deque checks that before
it looks for a further element. `Start` is one step, although the handler of SIGTERM
is installed before the queue is restored; that the snapshot cannot be removed, or
was cut short because its writing was interrupted, is left out. `_enqueue_music` is never called; its runner
`_run_music_and_queue` is what restored entries get.

`DownloadLine` is what that amounts to: a line, one server, and a copy of the
line that outlives a shutdown. `ImplementsLine` maps `queue`, `dispatched`,
`snapshot` and `up` to its variables, and the runner (which request it serves,
calls, or was lost with) to its `service`. Opening a menu, announcing a position,
expiring and cancelling are steps that leave the line alone or let someone leave
it. The abstract line has a step `Hang` because the bot has one (see
[below](#where-code-and-documents-disagree)): the abstraction does not hide it.

### ProxyPool

Refreshes run in threads, one at a time under `_refresh_lock`; while one
fetches and validates, downloads take proxies from the pool and evict them.
`waiting` and `holder` are who wants and who has the lock, `phase` how far the
refresh is, `working` and `records` the two structures under `_lock`, `disk`
the cache file. `jpc[j]`, `held[j]` and `attempt[j]` are a download.

| Code (kharej/proxy_manager.py) | Actions |
|---|---|
| `start`, `_refresh_loop`, `_trigger_background_refresh` | `Start`, `PeriodicDue`, `Trigger` |
| `_refresh_locked`, `_refresh` 1245-1448 | `Acquire`, `Skip`, `FetchNothing`, `Fetch`, `Valid`, `Invalid`, `Validated`, `Commit`, `SaveLast`, `Release` |
| `scan_and_get_proxy` 1140-1185, `get_proxy` | `ScanEmpty`, `ScanBackup`, `ScanPublic`, `Rescan` |
| `mark_proxy_succeeded`, `mark_proxy_failed` | `Succeeds`, `Fails` |
| downloaders (`youtube.py` 349-472 and the like) | `Begin`, `NextAttempt`, `Over` |
| death of the worker, `_load_proxy_cache` | `Restart` |

Abstractions: of a record only the consecutive failures are kept; any eligible
proxy may be chosen, since speeds and counters only weigh a random choice; any
record may be fresh or stale when it is looked at.

### ObjectUpload and JobDownloads

An uploader of `ObjectUpload` is a thread in `upload_file`. `upc[u]` is the
request it waits for, `tries[u]` how often it was sent, `store` what is stored
under each key, `opened` the multipart uploads that the store knows. The store
may do what it is asked and lose the answer, refuse for now, or refuse for good.

| Code (kharej/s2_client.py) | Actions |
|---|---|
| `_upload_single` 555-603 | `PutDone` |
| `_upload_multipart` 605-696 | `CreateDone`, `PartDone`, `CompleteDone`, `CompleteAgain`, `Abort` |
| `_retrying`, `_should_retry` | `Refused` with `Erred`, `Repeatable` |

`JobDownloads` is what happens between job.accepted and the answer. `kind` is
the form of the job (single, collection, batch) with what its run does
(`TidalRun` ... `BatchRun` give, for each platform, the attempts it makes, in
order, and which of them use a proxy), `tpc[i]` and `at[i]` where each track is,
`files` what was downloaded, `archive` the parts not yet uploaded, `refs` the
objects that the answer will name. Its `upload` variables are those of an
instance of `ObjectUpload`, whose steps are steps of `JobDownloads`, with one
uploader, since a job uploads one object after the other.

| Code (kharej/downloaders) | Actions |
|---|---|
| `run` up to the first download | `Resolve` |
| one track: attempts, fallbacks, semaphore | `TrackStarts`, `AttemptFails`, `TrackDone`, `TrackFails`, `SkipTrack`, `NextTrack` |
| `batch.py` 318-394, `zip_split.py` | `BuildArchive` with `SplitFiles`, `Packed` |
| uploads, thumbnails | `Upload`, `Sent`, `NotSent`, `Cover`, `CoverSent` |
| `_run_job` cancelled or timed out, `report_progress` raising | `Cancel`, `ReportRaises` |
| threads that a cancelled job leaves behind | `StrayEnds`, and the steps of the upload |

Abstractions: a file is its track and size, an object is whole or not. Several
media files of one track of a batch are one. Of progress messages only that sending
one may raise is kept, also after the last upload.

### UploadRetry

`phase[u]` is the handler that sends the document of `u`, `pending` is `_queue`,
`saved` the file, `kept` the files in `UPLOAD_RETRY_DIR`, `tick` where the
hourly pass is, `told[u]` what the user saw, `end[u]` how the retries of `u` ended.
The handlers of `rub.py` that send a file and queue it when the send fails are
actions of their own, with one common end. A message to the user may not arrive,
which the tick swallows; a file may fail to be removed, which the tick and the
cancellation swallow; and a crash may fall between the move of a file and the save
of the queue, or between the removal and the save.

| Code | Actions |
|---|---|
| handlers of `rub.py` | `Begin`, `BeginBatch`, `FileSent`, `TrackFails`, `SingleFails`, `VideoFails`, `SoundcloudFails`, `BandcampFails`, `MusicdlFails` with `Enqueue`, `HandlerRaises`, `Promise`, `PromiseRaises` |
| batch 1423-1506 | `Advance`, `PartSent`, `PartFails`, `Stop` |
| `run_retry_tick`, `_attempt_entry` | `Wake`, `Attempt`, `RetryWorks`, `RetryFails`, `CleanUp`, `TickEnds` |
| `cancel_entry` | `CancelEntry` |
| death of the bot, `load_on_startup` | `Crash`, `CrashEnqueuing`, `CrashCancelling`, with `Restart` |

`exposed` and `left` are history. `exposed` are entries that the disk refused or
took without their file; promises about them cannot be kept and are left out of
the properties. `left` are the files that a crash between move and save, or a
failed removal, has left without an entry: nothing removes them, and
`RetryFilesAreAccounted` says that there are no others, and no more than one for
each crash and fault.

### ProviderWaterfall

`breaker[s]` is the circuit of source `s` with the ticks since its last failure
and since it opened, up to the durations they are compared with, so there is no
clock to bound. `dl[d]` is a download: where it is, the track's identifiers, the
quality, the list of sources and the position in it. `streak` is history.

| Code | Actions |
|---|---|
| `build_platform_choices` (downloader.py 69-182) | `Ask`, `ReadCircuits` with `RankedChoices`, `Closed` |
| `download_track_from_choice`, `_do_waterfall` 536-720 | `PickAuto`, `PickSource`, `Trying`, `Got`, `Fail`, `Finish` |
| `_is_circuit_open`, `_record_provider_outcome` (circuit_breaker.py) | `Reading`, `Record` with `Succeeded`, `Failed` |
| `_expire_selection` | `Dismiss` |
| time | `Tick` |

The parameter `force_open`, which no download passes, is left out.

### YtNotify

Channels share nothing but the file, so one is modelled. `record` is its entry
in `_state`, `call[u]` the command of a user that runs in an executor thread,
`poll` the poll with the copies it made before it fetched. Threads take no lock: an
action is what one does between two accesses to the record, so another may replace
or remove the record that a thread holds, which then goes on with one that is no
longer in `_state` (`JoinAstray`, `LeaveAstray`). `confirmed`, `due`, `heard` and
`overlooked` are history; `overlooked` are the users who joined while a poll went
on, which had copied the subscribers before, and those whose record was replaced
or removed.

The file is left out. Threads and loop call `_save_state` at the same time, each
writes its copy to the same `.tmp` file and moves that over the state file: an older
copy may come last, and a file cut short reads as no record. Nothing that a
subscriber may rely on after a restart could be said of it, so the module is about
one life of the bot, which begins with any record.

| Code | Actions |
|---|---|
| `!ytsub`: `resolve_channel`, `subscribe_sync`, the answer | `Subscribe`, `Unresolved`, `Seed`, `MakeRecord`, `Hold`, `Join`, `JoinAstray`, `Confirm` |
| `!ytunsub`: `unsubscribe_sync` | `Unsubscribe`, `Hold`, `Leave`, `LeaveAstray`, `Delete` |
| `_poll_once` | `Poll`, `Fetched`, `Announce`, `PollNotes` |
| YouTube | `Publish` |

### QobuzCredentials

Credentials are numbered: 0 are the embedded ones, a rotation makes the next
number valid and the others invalid; the web player may show old ones for a
while. A thread's state holds what its step was given; `sick` is history: that
during its request something outside was wrong, so that it may fail.

| Code (qobuz.py) | Actions |
|---|---|
| `_get_qobuz_api_credentials` 586-620 | `FromMemory`, `FromDisk`, `Scraped`, `Fallback`, `NotScraped` |
| `_do_qobuz_signed_json_request` 646-670 and its callers | `Ask`, `Answered`, `NetworkFails` |
| `_get_qobuz_auth_token`, `_get_qobuz_stream_url_auth` 372-438 | `AskStream`, `TokenCached`, `Login`, `LoggedIn`, `StreamAnswered` |
| Qobuz, time, restart | `Rotate`, `PlayerFollows`, `DayPasses`, `TokenExpires`, `Restart` |

The module defines several functions twice; the later definitions replace the
earlier ones and are those modelled.

### MonochromeTracks

A download thread runs an event loop of its own, and all of them share one
`asyncio.Lock` for the token. Such a lock belongs to the loop of its first
waiter: any later caller that finds it taken gets a RuntimeError, and a release in
another thread may or may not wake the waiter. `Wait` and `Wake` allow each of
these outcomes. Nor is it safe between threads: once it has had a waiter, `acquire`
calls a function after it has looked at the lock and before it takes it, and
another thread may run there (CPython 3.10 to 3.12, on which the tests run). Then
`Acquire` only finds the lock free and `TakeLate` takes it; `raced` is history,
that somebody took it when it was no longer free. The second of two holders to
release it gets a RuntimeError. Which proxies a request tries and how often is
left out: it ends with an answer or without.

| Code | Actions |
|---|---|
| `_download_monochrome`, `MonochromeClient` (client.py) | `Start`, `Searched`, `StreamAsked`, `Direct` |
| `get_token`, `_fetch_new_token` (auth.py 106-135) | `TokenInMemory`, `Acquire`, `TakeLate`, `Wait`, `Wake`, `Locked` with `Recheck`, `Fetched`, `FetchFails`, `Release` |
| `download_track` (download.py) | `AudioEnds` |
| time, restart | `TokenExpires`, `Restart` |

### SearchRelay

`pc[r]` is the coroutine of a request of the site, `pending` and `results` the
tables of `app.state`, `wire` the messages under way; messages overtake each
other and may never arrive. A handler of the worker has its pictures to find and
to store before it replies; `pictures` is what the store has.

| Code | Actions |
|---|---|
| `search` (search.py 75-180), `health_ping` (admin.py 779-823) | `Post`, `Leaves`, `SendRaises`, `Waits`, `TimesOut`, `SearchAnswered`, `PingAnswered` |
| `on_search_result`, `on_search_failed`, `on_health_pong` (main.py 265-329) | `SiteReceives`, `OnAnswer`, `OnPong`, `PongStored` |
| `handle_search_request`, `handle_health_ping` (dispatcher.py) | `WorkerReceives`, `Searched`, `Reply`, `WorkerPings` |
| searchers, `upload_thumb_to_s3` (common.py) | `HandlerStep` with `YoutubeFinds`, `SpotifyFinds`, `MusicdlFinds`, `HeadPicture`, `StorePicture` |

### RubikaLink

`loop` is where the supervisor is, `client` the transport's, `backoff` how often
the delay was doubled, `dedup` the window of keys, `handling[k]` the tasks that
handle message `k`. `others` is history. Rubika may deliver a message again at
any time. Actions: `Start`, `Dials`, `Connected`, `Disconnected`, `Wakes`,
`UpdatesEnd` (supervisor 230-265 and `_RubpyTransport`), `Stop`, `Disconnect`,
`OnRawMessage`, `Dispatched`, `Restart`.

### EventStream

A stream reads the row, answers, and subscribes when its response is being sent;
a handler commits the row and then publishes. `row` is the status, `committed`
the events between commit and publication, `stream[s]` a request with its queue
and what it sent, `subscribers` the bus.

| Code | Actions |
|---|---|
| `publish`, `unsubscribe`, `close` (event_bus.py) | `Published`, `Unsubscribe` in `Send` and `Leave`, `Close` |
| `job_events`, `_stream` (jobs.py 688-790) | `Request`, `SendEnd`, `Subscribe`, `Send`, `Leave` |
| handlers of main.py, `cancel_job`, promotion, expiry | `Running`, `Ends`, `Cancel`, `Promote`, `DeleteAfterTtl` |

### RuntimeSettings

A value is the update that set it. `patch[u]` is a request of the site, `table`
its settings table, `stored` the worker's dictionary and `file` its file; `turn`
and `acked` are history.

| Code | Actions |
|---|---|
| `update_settings` (admin.py 652-675) | `Patch`, `Leaves`, `SendRaises`, `Commit` |
| `on_admin_ack` (main.py 234-263) | `OnAdminAck`, `AckCommits` |
| `KharejSettings` (settings.py) | `Apply` with `Sets`, `SaveFails`, `DiesApplying`, `Restart` |
| the link | `Lost` |

## Runs

| Run | Configuration | Result | States | What it shows |
|---|---|---|---|---|
| `dispatcher_safety` | `KharejDispatcherSafety.cfg` | holds | 1,227,816 | Three deliveries (any mix of creates, duplicates and cancels) of two jobs, dropping links, failing sends, shutdown at any moment: the task registry stays exact, no job runs twice at once, outcomes follow acceptances. Checks `RegistryAccurate`, `OneRunPerJob`, `AcceptedBeforeOutcome`. |
| `dispatcher_liveness` | `DispatcherLiveness.cfg` | holds | 260,426 | With a link that fails or one that never does, and messages that may be too long for it: a task that nobody asked to stop and that ends while the link is up has sent the outcome it came to, unless its job.failed is too long or its send fails. Under fair scheduling a stopped worker exits, and where the link never fails an accepted job is settled unless its failure's text is too long. Checks `UncancelledRunsReport`, `StoppedWorkerExits`, `AcceptedJobsAreSettled`. |
| `iranjobs` | `IranJobs.cfg` | holds | 7,083,885 | Two requests or reports at a time over three jobs of three users (one an admin), limit 1, without faults; and one at a time over two jobs with every operation and one fault (failing send, aborted session, restart) anywhere: each job is dispatched once, statuses tell the truth, the queue is handed on in order, and what overlapping sessions spoil, they spoil only in the stated way. Checks `CreatesOnlyByFault`, `StatusMatchesDispatch`, `StrandedOnlyWhenStale`, `PromotionFollowsDispatch`, `RevivedByReports`, `SilentCancelsAreOvertaken`, `PromotedInOrder`. |
| `iranjobs_stranded` | `IranJobsStranded.cfg` | violated, as expected | - | The slot opens between the count and the commit of a job that is being queued: nobody promotes it. Checks `NoStrandedQueue`. |
| `iranjobs_untold` | `IranJobsUntold.cfg` | violated, as expected | - | A cancellation that loaded the job as queued waits for the promotion that dispatches it: the job is cancelled and the worker, which has it, is not told. Checks `CancelledAreTold`. |
| `user_access` | `UserAccessPass.cfg` | holds | 871,765 | Two admins at a time over two users, one of them never announced to the worker, with a lost message, a failing send or write, or a restart anywhere: blocks reach the worker before they show on the site, jobs dispatched after their owner was blocked are refused, and a block takes effect. Checks `DiskIsCurrent`, `BlockReachesWorker`, `OverdueJobsRefused`, `BlockTakesEffect`. |
| `bot_queue` | `BotQueuePass.cfg` | holds | 47,206 | Four requests of two chats, with menus that replace each other, cancels, raising runners and two restarts with or without a snapshot: one download at a time, nobody is dispatched twice, every behaviour is one of DownloadLine, where nobody overtakes in the queue, and the line moves. Checks `OneRunner`, `DispatchedOnce`, `ImplementsLine`, `LineMoves`. |
| `proxy_pool` | `ProxyPool.cfg` | holds | 1,311,088 | A download that draws, fails and waits for refreshes while the periodic and the background refresh fetch, validate and commit, with a disk that may fail and a restart: pool and records agree, the pool never empties, and no download waits for ever behind a refresh. Checks `PoolMatchesRecords`, `PoolNeverEmpties`, `ScansReturn`. |
| `job_downloads` | `JobDownloads.cfg` | holds | 1,491,375 | One job of every platform and form, with every failure of an attempt, an upload request or a report, and a cancellation at any point: a completed job delivers whole objects for all that it downloaded, the parts of an archive hold its files, and no multipart upload is left open. Checks `CompletedJobsDeliver`, `PartsHoldTheFiles`, `UploadsAreClosed`. |
| `upload_retry` | `UploadRetry.cfg` | holds | 1,142,854 | Two uploads of any kind of handler, or the parts of a batch, whose sends fail or succeed, with messages to the user that are lost, the retry tick, cancellations, a crash at any moment, also between a move and its save, and a disk that refuses a write or a removal: promised retries survive, a file without an entry is the trace of a crash or of a failed removal, and every entry leaves the queue. Checks `PromisesSurvive`, `RetryFilesAreAccounted`, `RetriesEnd`. |
| `services` | `Services.cfg` | holds | 3,466,030 | Nine parts that share nothing, checked side by side as the nine values of a constant variable: two downloads over the circuit breakers of three sources; two users whose commands on a channel of two videos overlap each other and the polls, with messages that are lost; two threads with the Qobuz credentials over two rotations and a restart; the Monochrome downloads of three threads that share a token and its lock, with a restart; two searches, and two pings, with a duplicated message or a failing send; the Rubika link of the site with three messages delivered again and again over reconnects, stops and restarts, and a window of two; two browsers' streams of one job with three events; two updates of two settings with a fault and a restart of the worker. Checks `OpensOnEvidence`, `AnnouncedOnce`, `NewVideosReachSubscribers`, `HealthyRequestsSucceed`, `OneRefreshAtATime`, `TablesAreExact`, `NamedPicturesExist`, `HandledOnce`, `ListenersMissNothing`, `AcknowledgedSettingsSurvive`. |
| `search_answers` | `SearchAnswers.cfg` | violated, as expected | - | A search whose results are too long for one message is never answered: encoding the reply raises outside the try. Checks `EverySearchIsAnswered`. |

Deadlock is checked in `bot_queue` and `proxy_pool`. In the other models the
system may really come to rest: arrivals (deliveries, jobs ever submitted,
requests, updates, videos, events) are bounded or finished, and nobody is obliged
to send anything. Their configurations say `CHECK_DEADLOCK FALSE`; that nobody
waits for ever is stated by `StoppedWorkerExits`, `AcceptedJobsAreSettled`,
`StrandedOnlyWhenStale`, `BlockTakesEffect` and `RetriesEnd`.

Bounds, and why they suffice for what the runs ask:

- Dispatcher: three deliveries are the least with which a job can be created,
  created again and cancelled, two tasks the least that can collide in the
  registry, two jobs the least that can be confused. For liveness two deliveries
  are enough to have one job spawned while another drains.
- Job queue: three jobs are the least for order in the queue (one that holds
  the only slot, two that wait); two sessions the least for an overlap. Overlap
  of three jobs is checked without faults, and with one kind each of cancellation, of
  report that revives a job and of report that ends one; every operation and a fault
  with one session. `Limit` is 1,
  since with limit 0 nothing is queued, and a larger limit needs more jobs to show
  the same. Each job has an owner of its own, so that two can be queued at once
  without overlapping submissions, and one owner is an admin, who is never queued.
  A refusal for another active job of the owner looks like one for the rate limit
  and occurs as such.
- Access: two users, one of them known to the site from the beginning and never
  announced to the worker, since the list of one user decides about others (an
  empty whitelist admits everyone); three requests in two slots, so that two
  overlap and a third follows; one fault anywhere.
- Bot: four requests are the least with which one is running, one popped and
  one in the queue while another is appended, and two chats the least for a
  `!cancel` to leave an entry of somebody else; two restarts, so that a
  snapshot may be read after another crash.
- Proxy pool: two hosts on two lists, one of them on both under two schemes, a
  SOCKS proxy and a scheme that is not supported give candidates that are merged
  and left out; two failures evict, so
  one is remembered; a low-pool refresh of the download, the periodic one and the
  background one meet in the lock; one restart reads what the last write left.
- Downloads: three tracks, one empty, one below the split size and one above it,
  fill a part, open another or exceed it alone, depending on the order in which
  they arrive; two of them run at once; two tries show the
  last and an earlier one; uploads above and below the multipart threshold
  occur, and three of them suffice for the parts of an archive and a cover.
- Upload retry: two uploads meet in the queue, two attempts are the last and an
  earlier one, one crash, and one write of the queue
  file or removal of a file that fails, anywhere.
- Services: two of whatever can overlap (downloads, users, threads, searches,
  pings, streams, updates) and one fault of each kind; three threads at the
  token's lock, one that has it, one that waits and one that comes later.
  `Threshold` is 2, so that a success may come between the failures; two rotations
  make an older file and a newer memory differ; a window of two of three messages
  evicts. Of two videos one can be seen before a poll and one appear during it; a
  poll and a seed fetch as many, as in the code a seed covers what a poll fetches
  (10 and 5).

Fairness:

- Dispatcher: weak fairness for each handler, each task and the main
  coroutine: the event loop resumes what can run, sends return, a download
  returns at the latest after `job_timeout_seconds`, the drain times out.
  Nothing obliges messages to arrive or the link to recover.
- Access: weak fairness for open admin requests and for the worker's handling
  of what has arrived.
- Bot: weak fairness for timers and for the runner. That a download ends is an
  assumption about yt-dlp and the providers, for `rub.py` sets no time limit;
  selections, commands and restarts are not obliged to come.
- Proxy pool: weak fairness for the steps of a refresh, whose requests have
  timeouts, and of a download that scans; strong fairness for a waiter's getting
  the lock, which others may take meanwhile: the periodic refresh sleeps 15
  minutes between two of its own, so the lock is not taken from the same waiter
  for ever. Nothing obliges a download to end.
- Upload retry: weak fairness for the loop that sleeps an hour, for the steps
  of a tick, and for the handlers; the send of a document ends somehow.
- The others check safety only and assume nothing.

## Proofs

All theorems hold for every value of the constants that satisfies the named
assumptions of the modules (`NullNotARun`; `OwnerIsUser`,
`LimitIsNat`, `MaxFaultsIsNat`, `RequestsAreOps`, `NullIsNothing`, `JobsFinite`;
`FoundersAreUsers`, `BoundsAreNat`, `NullIsNobody`; `ChatOfRequest`,
`NoneIsNothing`, `MaxRestartsIsNat`; of `ProxyPool`, `BackupIsLocal`,
`BoundsAreNat`, `NoneIsNothing`; of `JobDownloads`, that sizes are natural numbers
and that there is at least one track, one try, one upload at a time; of
`MCServices`, that `Threshold` is positive, that windows, updates and users are
finite and that `None` is no value), which say no more than that parameters are of
their kind and that `Null` or `None` is none of them. TLC evaluates them in every
run. No theorem has a hypothesis beyond these.

**KharejDispatcherProofs.** `TypeCorrect` is inductive by itself.
`RegistryCorrect` proves `RegistryAccurate` inductive together with the types:
a task enters the registry in the same step that finds its entry empty, and
leaves it in its last step. `SingleRun` (`OneRunPerJob`) follows, for two live
tasks of a job would both be its entry; so does `EntriesAreOwned`, about steps.
`OutcomesFollowAcceptance` needs the strengthening `HistoryInv`: a job that has a
task has its acceptance in the history already, which a longer history keeps.
`RunsReport` (`UncancelledRunsReport`) is about each step that ends a task while the
link is up. It needs `SteadyInv`: the worker gives up its connection before it makes
sends fail, who is cancelled was asked to stop, and a task that sends job.completed
has come to no failure.

**IranJobsProofs.** The invariant is the conjunction of `Operations` (what each
kind of session may be at), `Picks` and `Holders` (who holds which row lock, in
both directions), `Unborn`, `Creations` (a job being created has no row and no
other session), and `Dispatches`: a job is sent at most once plus once per fault,
and a queued job that is not just being handed over has been sent at most once
per fault. The last needs the locks, since a job whose job.create is out
and whose promotion is not committed is still `queued` in the table, and only
the lock keeps others from picking it. From it follow `LocksCorrect`,
`SingleDispatch` (`CreatesOnlyByFault`), `PromotionSound`
(`PromotionFollowsDispatch`) and `OnlyReportsRevive` (`RevivedByReports`).
`StatusTellsDispatch` (`StatusMatchesDispatch`) needs `Sent`: without faults the
worker was given not only what the table shows as dispatched or finished but also
what an open session is about to write so.

Three theorems are about sessions that overlap, any number of them. `Looked` says
what an open session has loaded and locked: one that works on a queued job has
loaded it as queued, and one that ends a job has its row from the flush on.
`Recalled`: a cancellation past its message has sent it, or has loaded the job as
queued; so a job that the worker has is cancelled in silence only by a session that
waited for the promotion (`CancelsAreSent`, `SilentCancelsAreOvertaken`). For the
queue, `Ranked` numbers the submissions, and `Served` says, as long as no session has
committed between the look and the commit of another (`stale`), that while a job
waits the limit is used up, and that what each open session has found out still
holds: one that ends a job and is about to commit has found the slot taken, or only
rows that others hold, or has handed the slot to the oldest of the rest. From it
follow `OldestFirst` (`PromotedInOrder`) and `QueueIsServed`
(`StrandedOnlyWhenStale`). The step that matters counts: a commit takes at most one
job off the set at work, and puts the picked one in.

**UserAccessProofs.** `BlocksAnnounced` (`BlockReachesWorker`) is not inductive:
a user may be blocked, and the block be taken back by a message still in the
channel. `IInv` adds that no user.block.remove is ever in the channel
(`NobodyUnblocked`: the site has no code that sends it), that whoever is
blocked, or is about to be by a request past its send, is on the blocklist or
has the block in the channel (`BlockedFirst`), and that this block stands before
any job dispatched after the decision (`JobsBehindBlocks`), which gives
`OverdueRefused`. `DiskCorrect` proves that a restart changes no decision unless
a write failed.

**BotQueueProofs.** `SingleRunner` (`OneRunner`) is inductive with the types of
requests and menus: a runner is created where the flag is checked and set in
one go, or by a runner that ends in the same step, whatever it popped.
`MenusTimed` rests on a timer being of one chat, so that a timer that is
cancelled or fires takes no other chat's menu with it.

`LineImplemented` is the refinement: `Init` implies
`DownloadLine!Init`, and under the invariant every step of `BotQueue` is a step of
`DownloadLine` or stutters. The invariant is `RunnerInv` (with `OneRunner`),
`MenuInv`, and `PlaceInv`: a request is in one place only. It says that the queue
and the snapshot hold each request at most once (`QueuedOnce`, `Kept`), that who is
queued or popped waits and is not dispatched (`QueuedWait`, `PoppedWait`,
`Dispatched`), and that a pending menu is of a request that still shows it
(`MenusShow`). Without it a request could join a line it is in already.
`DispatchedOnceHolds` follows from the same invariant. What `!cancel` leaves of
the queue is given by the strictly increasing places of the entries that stay, in
`BotQueue` as in `Leave`, since the provers know nothing of `SelectSeq`.

**ProxyPoolProofs.** `PoolCorrect` is inductive with the records of the disk,
from which a restart takes the pool (`Stored`). `PoolStaysFilled` needs `Filled`: a
refresh that has begun has a pool to save, because it put the backup into an
empty one when it took the lock, and no eviction empties it after that.

**UploadRetryProofs.** `PromisesKept` and `FilesAccounted` share one invariant. It
says that what is queued, has its file in the retry directory or is in the hands
of the tick has left its handler (`Handed`), so that no handler brings back what the
tick is about to forget; that entries have been tried, in memory and on disk, which
is what makes a loaded entry valid (`Counted`); that every file has an entry or was
left behind (`Accounted`); that what the tick forgets has been sent or given up, or
had lost its file, and that its file is gone or left behind (`Over`); and that
whoever was promised a retry, or is about to be, is queued with a file (`Owed`).
`FilesAccounted` adds `FewLeft`, by counting: each crash and each fault adds one file
at most to those left behind.

**JobDownloadsProofs.** `UploadsEnd` is proved of the uploads as the job drives
them: the numbers of the parts that were answered are `1 .. n`, and the store has
the same chunks under them (`PartsInOrder`), so an upload that is completed is
whole (`StoredWhole`), and every way out of the client aborts what it opened.
`JobsDeliver` adds `DeliveryInv`: which stages a form of job can be at, that the
files of a batch are those of its finished tracks, each once, that the parts left
have keys left, and that the names given so far are distinct and of whole objects.
`PartsAreTheFiles` is about the packing itself, for any number of files of any
sizes. The packing and the sum of a part are recursive functions; that their
definitions define something, and that the parts after each file are the first
files cut into stretches within the limit, is shown by induction. The library's
induction theorems take a predicate, which the provers cannot instantiate, so
`NaturalsBySteps` states induction for a set, and proves it by counting: were `n`
missing from a set that has 0 and with `k` also `k + 1`, its members below `n` would
be in one-to-one correspondence with their successors, of which there is one less.

**ServicesProofs.** Each theorem holds for the specification of the module and for
`ServicesSpec`, which the run checks.

- `TablesExact` is inductive with the types: a request is registered before
  anything can answer it, and each way it ends removes it, while an answer only
  fills an entry that exists. `PicturesExist` needs `PicturesInv`: what a handler
  is about to name has been stored already, and nothing removes a picture.
- `ListenersHearAll` needs that the bus knows every live stream until it is closed
  (which an unsubscription that dropped the job's whole entry would break), and
  lemmas on sequences: the part of a history after a place grows with the history,
  and moving the head of the queue to the end of what was sent changes nothing of
  the two joined.
- `SettingsSurvive` needs `ConfigInv`: turns are counted without gaps and an update
  is under way once at most, so one that is applied is the latest; what the
  worker holds, has in its file or has acknowledged was applied, and neither
  memory nor file is older than what was acknowledged. It says nothing of values that
  an update without settings acknowledges after a write that failed.
- `HeardOnce` needs `HeardIsSeen`: who heard of a video heard of it once, and the
  record has noted it or the poll that sent it is about to, and a poll that began
  since knows of it. `VideosReachSubscribers` (`NewVideosReachSubscribers`) needs
  `ReachInv`: a user who is not overlooked and whose subscription stands is in the
  record, and in the copy of a poll that fetches; what is due to him is noted
  neither in the record nor in the poll's copy, unless the poll is about to announce
  it to him. Commands of any number of users overlap.
- `RequestsSucceed` needs `QobuzInv`: a thread that has been refused once and met
  nothing wrong outside holds the valid credentials, which it scraped.
- `OneRefresh` needs `TracksInv`: as long as nobody has taken the lock when it was no
  longer free, whoever is behind it is alone there and the lock is taken, and who
  fetches a token has found none in memory.
- `CircuitsOpen` needs that a breaker counts no more failures than there were since
  the last success; `MessagesHandledOnce` that the window has no key twice, that a
  key in it has been handled with those behind it since, and that one that left it
  was followed by enough others to fill it (`Followers`). Both are action
  properties: each step keeps the invariant and is allowed by it.

Only model-checked: liveness (`StoppedWorkerExits`, `AcceptedJobsAreSettled`,
`BlockTakesEffect`, `LineMoves`, `ScansReturn`, `RetriesEnd`), which the provers
cannot do under fairness. Every invariant and every action property that a run
checks is also stated by a theorem.

## Where code and documents disagree

Three runs end in a violation on purpose. Each states a sentence of the
repository and shows a behaviour of the code that breaks it:

- `iranjobs_stranded` (`NoStrandedQueue`, src/iran/api/jobs.py:252): src/iran/api/jobs.py:248 says the dequeue is "Called whenever a job reaches a terminal state so the next job in line can be sent to the kharej worker." When the last running job ends after a new request has counted it and before the new row is committed as queued, the dequeue finds an empty queue; the new job then stays queued with no running job whose end would promote it.
- `iranjobs_untold` (`CancelledAreTold`, src/iran/api/jobs.py:644): src/iran/api/jobs.py:643 says "Queued jobs were never sent, so there's nothing to cancel on the worker." The status was loaded at jobs.py:622; when another session has locked that row as the next in line and sends it to the worker, the cancellation's UPDATE waits for that commit and then writes 'cancelled' over 'pending' without a job.cancel: the worker runs a job that the site shows as cancelled.
- `search_answers` (`EverySearchIsAnswered`, src/kharej/dispatcher.py:591): The reply is encoded and sent after the try block: when the encoded results exceed MAX_MESSAGE_BYTES (src/kharej/contracts.py:40, 4096 bytes) encode raises, handle_message logs it, and nothing is sent, so that the site answers 504 after its timeout. The docstring says "Performs the platform-specific search on the Kharej side and sends either a SearchResult or a SearchFailed message back to Iran" (src/kharej/dispatcher.py:524).

The modules state further sentences that the code breaks, under the heading
"What the documents of the repository say, and the code does not do" or among
the properties. Checking one as an INVARIANT of the module's run gives the
counterexample:

- `KharejDispatcher!EveryFailureIsReported`. `architecture.md` 99: "On any failure:
  publishes job.failed". The text of the exception goes into the message
  (`dispatcher.py` 704); when that is longer than 4096 bytes `encode` raises inside
  the except clause, and a job that was accepted is never settled although no send
  has failed.
- `UserAccess!ActiveIsAdmitted`. `webui-spec.md` 188: unblocking "sends
  user.block.remove to Kharej". `admin.py` 302 sends user.whitelist.add, no code
  sends user.block.remove, and `check_access` looks at the blocklist first: an
  unblocked user is active on the site and refused by the worker.
- `BotQueue!BusyMeansRunning`. `rub.py` 558: "Run one download then hand off to the
  next entry in the queue." The hand-off iterates over the live deque and awaits
  a message per entry. An append or a `!cancel` meanwhile makes the iteration
  raise: the popped entry is lost, `is_downloading` stays True without a runner,
  and nothing is downloaded until the bot is restarted.
- `ProviderWaterfall!OneProbe`. `circuit_breaker.py` 123: a half-open circuit lets
  exactly one request through; it lets all through.
- `UploadRetry!SuccessMeansSent`. `upload_retry.py` 221 notifies "of success"; an
  entry whose file is gone, because it was cancelled while the tick was at another
  or because the file could not be moved, counts as sent.
- `MonochromeTracks!CallersWait`. `auth.py` 111-112: "concurrent callers wait for a
  single in-flight refresh rather than each making their own". Callers are threads
  with loops of their own, and the lock is made for one: the third gets a
  RuntimeError. `OneRefreshAtATime` states what holds of "a single refresh", which
  excepts two threads that find the lock free at once.
- `EventStream!EndedJobsCloseStreams`. `jobs.py` 767: "Close stream after terminal
  events". `cancel_job` publishes nothing, and an event published between the
  reading of the row and the subscription is missed: such a stream sends
  keep-alives for ever.
- `RuntimeSettings!TableFollowsWorker`. `track-b-steps.md` 940: the effective
  settings are written back on the acknowledgement. Acknowledgements that overtake
  each other leave the older value in the table, which the site's limits are read
  from.

Other disagreements and oddities noticed while reading, without a property:

- `CONTRACTS.md` 102-105 draws a job's life as ending in completed, failed or
  cancelled. The report handlers never look at the status they overwrite, so a
  late job.accepted or job.progress revives a finished job. `RevivedByReports`
  states what does hold: nothing else revives one.
- `rub.py` 3265 tells a subscriber "You will be notified here when new videos are
  uploaded." A user who joins while a poll is under way misses what it has found, and
  so does one whose record another command replaces or removes; a message that
  fails is not sent again. `NewVideosReachSubscribers` states what does hold.
- A job.completed that names too many objects for a message becomes a job.failed,
  although the files are there (`dispatcher.py` 641, 692).
- A duplicate job.create makes the worker answer job.failed with
  `duplicate_job` under the job_id of the run that goes on. A job.cancel that is
  handled while job.accepted is being sent finds no task and is dropped
  (`CancelNoop`; `track-a-steps.md` 204). `dispatcher.py` 238 calls `in_flight` the
  number of running tasks; a task cancelled before its first step stays in the
  registry for ever and is counted (`stillborn`).
- `jobs.py` 468 and 476 announce one active job per user and a global limit;
  both are read before an await and acted on after it, so requests that overlap
  exceed them. job.create is sent before the row is committed (519), and a send
  that fails leaves a pending row that nobody tries again (525). `main.py` 126
  charges the quota for every completion, a repeated one too.
- `architecture.md` 344 says in-flight jobs are persisted on the worker; they are
  not (`worker.py` 260).
- `current-features.md` 168 says the bot's queue persists across restarts; the
  entries it restores have no url, and nothing starts them. Line 439 says that
  a shutdown waits for downloads in flight; the handler saves the queue and dies
  at once. Line 299 counts consecutive failures within a window; the code bounds
  only the gap between two of them.
- The bot's menus say "This menu expires in 5 minutes", but the timer of an
  older menu closes a newer one of the chat early. An entry that is appended
  after the last runner has cleared the flag waits until another download ends,
  and a `!cancel` while the position is being announced misses the request.
- Proxies: one that was evicted during a refresh that had validated it before
  comes back with a new record (`proxy_manager.py` 1364); the last save of a
  refresh is outside `_lock` (1377); `start()` does nothing when a download made
  the loop first (923-932).
- Downloads: two tracks of a batch with one title get one name inside the archive
  (`batch.py` 355); a track without a file counts as done (298); an upload that
  fails after earlier parts leaves those in the store, and so does a cancelled
  job. If the answer of a complete_multipart is lost the retry fails although the
  object exists (`s2_client.py` 669-677); if that of a create is lost the upload
  stays open. The docstring of `spotify.py` 74-84 lists other sources than the
  code.
- Waterfall: "auto" forgets the quality that was asked for (`downloader.py` 543).
  When tracks of a batch have one name, one file replaces the other (`rub.py`
  1319-1344).
- Upload retry: the number of attempts of the last tick is lost at a crash between
  a send and the save, and the document is sent twice; when queueing raises, the
  remaining parts of a batch are never sent (`rub.py` 1461-1506), and "Done!" is
  said even when parts were only queued. The messages about success and giving up
  are sent in a try block that passes over errors (`upload_retry.py` 222-228,
  253-260), and the entry and its file are removed all the same: a user who was
  promised a retry may never hear how it ended.
- Subscriptions: `yt_notify.py` 258 says the state is "mutated under
  `_state_lock`"; commands mutate it in threads without. Two users who are the first
  of a channel at once may lose one, and all writers of the state file share one
  `.tmp` file, so an older state may replace a newer one.
- Monochrome: `manifest.py` 231 says the manifest is "fetched separately (done in
  client.py)"; it is not. A token that was refused is never cleared.
- Qobuz: the user token is kept an hour after a rotation or a refusal, and an
  older file may replace newer credentials in memory (`qobuz.py` 609-611).
- Link: when `receive_loop` returns normally the supervisor connects again without
  delay (`iran/rubika_client.py` 245), each reconnect makes a new client without
  disconnecting the old one, and a send during a connect meets a client that is
  not started (364, 378).
- Settings: an update with no settings acknowledges what an earlier one could not
  save; the site may set two names that the worker stores and never reads.
- Cookies: `IranS2Client` has no `put_object`, so the upload in `admin.py` 728 is
  skipped and admin.cookies.update names an object that was never stored.

## What is not modelled

- Logins and refresh tokens (`iran/api/auth.py` beyond registration), passwords,
  sessions: database rows behind a framework, no protocol between processes.
- Calls to the other music services and parsing of their answers
  (`rubetunes/providers/deezer.py` and the like, `rubetunes/spotify*`): I/O and
  foreign formats, no shared state beside what `ProviderWaterfall` has.
- Caches, history and rate limiter of the bot: files read and written whole.
  Splitting archives is part of `JobDownloads`.
- HTML pages, table definitions, migrations, start-up, logging, metrics.
- In the modelled components: progress throttling; quotas and listings of the job
  API; cookies upload and cache clearing by an admin; the worker's own
  supervisor of its link, beyond that the link is lost and comes back; listing and
  deletion by prefix and presigned addresses of the store; the weights by which a
  proxy is drawn; the bot's commands that only answer.
- Crash of the worker with jobs in flight: nothing is persisted, so the model of
  the dispatcher would start again from `Init`; what the site makes of the silence
  is that the job stays active until somebody cancels it, since no code times it
  out.

## Plan

Order of work, most important first; for each the abstract statement, the
bounds and the theorem aimed at.

1. `JobBoard`, the abstract promise of the job table (a job is nowhere, waiting,
   with the worker, or closed; it is handed to the worker once; only the worker
   reopens it), and `IranJobs` shown to implement it by a refinement mapping,
   checked in the existing instance and proved step by step.
2. Composition of the dispatcher with the job table over a lossy link: which
   final statuses of the two sides may disagree, and for how long.
3. The worker's own supervisor (`kharej/rubika_client.py`) beside `RubikaLink`,
   with one message channel between them.
4. Refresh tokens and the rolling rate limit, if a property is found that does not
   restate one statement.
