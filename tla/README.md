# A TLA+ model of the image search application

This directory holds specifications of the parts of the application that run
concurrently, talk to other devices or keep state across crashes: the indexing
of folders and the file system events that keep the index current, the download
of the model, the backup of phones with its pairing and its USB link, and
instant sharing with the launch agent that serves it. They are written from the
code under `src/`. TLC checks them on small instances, and TLAPS proves
invariants and a refinement for every value of the constants. `PROJECT.json`
lists the components, the runs, the source lines of each definition, the hazards
and the findings.

Source paths below are relative to `src/dt_image_search/` unless they start with
`src/`.

## 1. Inventory

| Component | State | Operations | Interacts with |
|---|---|---|---|
| Bulk index scheduler (`index/index_worker.py`, `browse/folder_service.py`) | `_index_workers`, `_pending_index_folders`, worker and resume threads; table `folders` | add, remove, re-index a folder; traverse, build, report, resume; init and deinit | index store, event bus, model state, users |
| Index store of a folder (`index/dts_index.py`, `model/dts_db.py`) | table `files`, one FAISS file per folder with a lock | create, add a batch, recover, search, delete | both indexers, search |
| Incremental indexer (`index/incremental_index_worker.py`) | `_event_buffer`, `_index_workers` (a list of its own) | buffer an event, take a batch, handle creations, deletions, moves | file system monitor, index store, scheduler |
| File system monitor (`fs/bm_fs_monitor.py`) | watches per path and per parent | watch, unwatch, deliver | watchdog, event bus |
| Model download and preload (`index/dts_model_downloader.py`, `bm_context.py`, `index/dts_index.py`) | temporary file, cache directory, two events, `_model_state`, `_model` | download, verify, unpack, load, reload | scheduler and search, which wait for the model |
| Mobile backup transfer (`mobile/mobile_transfer_service.py`, `mobile/mobile_backup_state_machine.py`) | sessions, asset records, staged and stored files | start, ask what exists, upload, complete, stop | pairing, transports, phone client |
| Mobile pairing (`mobile/mobile_pairing_*.py`, `mobile/mobile_folder_controller.py`) | the open session and its code, the result, devices, bindings, session rows | open, refresh, claim, poll, accept, repair, close, remove a folder | transports, dialogs, transfer |
| Mobile transports (`mobile/transport/`) | worker threads, the active link, pending uploads | configure, open, authenticate, serve, tear down | pairing and transfer services, phones |
| Instant sharing sessions (`src/instant_sharing/session.py`, `orchestrator.py`, `delivery.py`, `mini_window.py`) | registry of sessions, counts of a batch, windows | open, receive, deliver, complete, cancel | sharing servers, phone client |
| Instant sharing servers (`src/instant_sharing/runtime.py`, `trust_server.py`, `https_tls_server.py`, `transfer_server.py`, `qr_trigger_handler.py`, `mdns.py`, ...) | trust sessions, stashes and their timers, servers, mDNS advertiser, network monitor | handshake, confirm, offer, claim, expire; start, stop, restart on a new address | sessions, phones, launchd |
| Phone clients (`src/mobile/rn/`, `src/mobile/ios-packages/`) | runs of a backup, accessory or web socket client, upload of a batch | back up, retry, delete; open, resynchronise; share, go on at the next host | transfer, transports, sharing |
| Index server (`index_server/`) | connections | folder routes, search, events | scheduler, store |
| Desktop interface, infrastructure, web applications | presentation | - | all of the above |

What is hard in each of them, and what makes it correct:

* **Scheduler.** Users, resume threads and ending workers race for a place on a
  list with a limit; each locked block is short and decisions are spread over
  several of them and over the database. Correct means that the limit is kept,
  that no folder is indexed by two workers or forgotten while it waits, and that
  the chain "worker ends, resume thread starts, next worker starts" does not
  break, because nobody else starts a folder.
* **Index store.** A batch is two stores (FAISS file and rows) and five steps,
  any of which may fail or be the last before a crash; two indexers may be
  writing. Correct means that a row that claims a vector has it, that a file
  once found stays findable, that every run ends, and that a folder which is
  reported as indexed has nothing pending.
* **Incremental indexer.** Events describe a past state of the disk and are
  handled in batches by several threads. Correct means that the table agrees
  with the disk when all is handled, and that all is handled.
* **Model start-up.** A long download is continued over attempts, runs and
  releases of the archive. Correct means that the cache never mixes releases,
  that "ready" means a model, and that a start with few enough faults ends in
  "ready".
* **Mobile transfer.** Requests are repeated by phones that got no answer, run in
  threads without a common lock and race with completion, stop and removal; a
  file and its record are written in two steps, and the phone deletes what it
  takes for stored. Correct means that no photo is lost between the two devices,
  that a record names a file with its content, and that "completed" is true.
* **Pairing.** A claim is checked under a lock and accepted without it in four
  commits; another phone, the user, an expiring code, a removed folder or the end
  of the process may come in between. Correct means that nothing refers to a
  row that is gone, that an accepted phone can be served, and that what a phone
  is told stays true.
* **USB link.** Each side opens the link anew by its own clock, attempts of an
  upload share a request id, and frames of an earlier attempt may still be in
  the cable. Correct means that an upload is handed on whole or not at all, that
  only a phone that knows the code shown now is served, and that the link comes
  back.
* **Instant sharing.** A session's state is tested and changed in separate calls,
  images of a batch are handled at once and repeated, and a stash is claimed,
  cancelled and expired by different threads. Correct means that "done" and
  "delivered" are true and that no stash stays on offer.
* **Launch agent.** Restarts of the advertiser overlap with each other, with the
  start and with the end of the process. Correct means that no advertisement is
  leaked and that the desktop ends up visible under its present address.

## 2. Plan

Modules in the order of the plan. All but the last exist.

1. `IndexWorkers`, with `MCIndexWorkers` and `IndexWorkersProofs`: the scheduler.
2. `FolderIndex` with `ImageCatalog`, `MCFolderIndex` and `FolderIndexProofs`:
   the index of one folder, and the abstract specification it implements.
3. `FsEvents` with `MCFsEvents` and `FsEventsProofs`: events, handlers and
   creation workers.
4. `ModelStartup` with `ModelStartupProofs`: download, preload, reload.
5. `MobileTransfer` with `PhotoBackup`, `MCMobileTransfer` and
   `MobileTransferProofs`: the backup of a phone, and the abstract specification
   it implements.
6. `MobilePairing` with `MobilePairingProofs`: sessions, claims, tables.
7. `UsbLink` with `UsbLinkProofs`: both USB adapters with their phones.
8. `InstantShare`: sessions, batches, stashes.
9. `ShareAgent`: the launch agent, the network monitor and the advertiser; with
   `SharingProofs`, the proofs about both parts of instant sharing.
10. `FsWatches` (open): the maps of watches and their lock; and the removal of a
    folder composed with both of its indexers (`FolderIndex` without the
    assumption that the folder stays).

The modules of mobile backup fit together by their borders. A session that
`MobilePairing` accepts is one that `MobileTransfer` begins with (`Pair`); the
removal of a folder is in both; and a request of `MobileTransfer` that is
repeated or lost is what `UsbLink` makes of a link that breaks, while
`UsbLink!UploadWhole` says that what the transfer service gets is one attempt.

Every invariant and action property that a run checks is stated by a theorem
(section 5), some under a hypothesis that leaves out what section 4 shows to be
false. Open is "at most one row per path" of `FolderIndex` with both writers,
which no run checks yet.

## 3. The modules and the code

Comments that begin with "Slip" or "Mutant" mark variations of the definition
that follows them; they are not part of the specification.

### IndexWorkers

| Specification | Code |
|---|---|
| `workers`, `pending` | `_index_workers`, `_pending_index_folders`, under `_workers_lock` |
| `thread[t]`, `resumer[r]` | an `IndexWorker` and its thread, a thread in `resume_logic` |
| `status`, `pathOf`, `nextId` | table `folders`; `NoRow` is an id without a row |
| `backlog[i]` | how many batches of pending rows table `files` has for folder `i` |
| `calls` | requests between the two steps of `folder_service.py` |
| `preload`, `up` | the model load; FALSE after `deinit_index_workers` |
| `AddFolder(i, q)` | the locked part of `add_index_worker` and `worker.run()` |
| `WorkerStart` ... `WorkerFinish` | `IndexWorker._run_impl`, one action per database statement or locked block |
| `ResumeRead`, `ResumeAdd`, `ResumePop` | `resume_logic`: the query, one turn of its loop, the call with `None` |
| `RemoveRequest`, `RemoveDelete` | `remove_folder`: the handler of `folder_deleted_from_ui`, then the database |
| `Deinit`, `Restart` | `deinit_index_workers`; a kill or exit and `init_index_workers` of the next process |

The list is kept sorted by the time a folder was added; ids grow with that time,
so the only place where the order shows (which of two workers of one path is
stopped) takes the smaller id, and `workers` is a set. A worker stops looking at
its flag while `build_index` is between yields, as in the code. In the code the
model state never becomes "failed" (`_set_model_failed` assigns a local
variable), so the early return of `resume_index_workers` and the "not ready"
result of `build_index` cannot be reached and are not in the model.
`ModelFailed` may happen twice because `_preload_model` publishes twice.

### FolderIndex and ImageCatalog

`row` is table `files` for one folder, `index` its FAISS file with the number of
vectors of each id, `writer["bulk"]` and `writer["append"]` the two kinds of
thread, which nothing keeps apart. One batch of a writer is `Pick`, `Load` (read
the file under its lock), `Embed` (decode in jobs of `SubBatch` images), `Write`
(replace the file under its lock) and `Commit` (mark the rows one at a time).
`Recover` is the second half of `_recover_corrupted_index`; the first is part of
`Load`, because both happen under the lock. `Crash` loses all but the row table,
the file and the folder's status, and the start after it wants a bulk run.

The events of a path are collapsed to what is left to handle. `append_to_index`
is modelled for one batch at a time, which is what its batch limit of 100 files
per worker amounts to.

`torn` is a history variable: a crash came between the two halves of a recovery.

`ImageCatalog` is the promise to a search: images become findable, and cease to
be so only after the report of their deletion or by damage to the index file,
which takes all of them until it is repaired. The mapping calls an image
findable when its row has status 1 and a `clip_index` and the FAISS file has the
vector, the condition `query_index` and `get_files_by_clip_indices` come to.

### FsEvents

`reported` is what the watchdog has to deliver, `buffer` is `_event_buffer`,
`agent` the dispatcher and the `FileCreationIndexWorker` threads, `list` and
`stopped` the worker list and the stop flags. `TryNextBatch` is
`_try_schedule_next_batch`; then the batch belongs to the thread that took it,
which handles it in the actions named after the handlers. `WorkerInsert` and
`WorkerIndex` take the files of a batch together: their statements touch
different rows each. `Kept` stands for the list comprehensions that filter a
batch, `Renamed` for the loop that renames the rows of a batch of moves one
after the other; both are recursive functions.

`ready` says that the model is loaded (`model_is_ready()`, which
`_model_loaded_event` goes with). A worker that reaches `append_to_index` before
waits without a limit, so `WorkerIndex` has `ready` as a guard; `ModelLoaded`
sets it, or never comes, as when the download or the load fails. A failing batch
is `WorkerFaults`: images of a job that fails stay pending, images that cannot be
decoded are skipped, and nothing is marked as indexed when the FAISS file cannot
be written. `left` is a history variable with the images such a batch has not
indexed.

Not in this module: the statuses of the folder, and the bulk indexer, which
`resume_index_workers` calls in for what a failing batch leaves
(`index/incremental_index_worker.py:111`; the races of the two indexers are in
`FolderIndex`, the resume thread is in `IndexWorkers`); a corrupt FAISS file,
whose recovery resets all rows of the folder; `reload_model`, which nothing
calls; events of directories, and moves in or out of the folder.

`scenario`, which a behaviour picks from the constant `Scenarios` and never
changes, says which paths are images and which kinds of changes happen. One run
checks several mixtures of changes this way.

### ModelStartup

`tmp` is the temporary file as the sequence of releases its chunks come from,
`cache` the model directory, `dl` and `pre` the two threads, `downloaded` and
`dlFailed` the two `threading.Event`s. The module covers the offline mode.
`retry_model_download` changes nothing where it is called (`reload_model`, after
a finished download), and has no action. The look-up of the checksum and URL is
one step (`FetchInfo`); its failure, which falls back on built-in values, is not
modelled.

### MobileTransfer and PhotoBackup

| Specification | Code |
|---|---|
| `session`, `shown`, `record` | tables `mobile_backup_sessions` (status), `mobile_folders` (`transfer_state`) and `mobile_assets` |
| `file` | the files in the phone's folder, by name and the number that makes it unique |
| `upload[a]` | first the `TransferAssetUploadStream` of a photo, then the thread that handles it |
| `version`, `phone`, `running`, `cur` | the phone: its photos, what its run knows of each of them (`start-transfer.ts`) |
| `Start`, `Exists`, `Complete`, `Stop` | requests that one thread handles as a whole |
| `StreamStart` ... `StreamDiskFull` | the body of an upload on its way to the staging directory, over any transport |
| `UploadCheck`, `UploadPlace`, `UploadMove`, `UploadRecord`, `UploadFails` | `handle_asset_upload` and `_move_staged_asset_to_folder`, one action per commit or file operation |
| `AskToStop`, `AnswerToStop`, `RemoveFolder` | the controller: the question to the user, and the removal of the folder |
| `Crash` | the end of the process: threads and staged files are lost |

Sizes, dates and digests are abstracted to contents: two photos have the same
signature when they have the same content. `Held` is both of the checks of what
is stored already, the one by signature and the one by photo and version, which
can differ only for uploads without a signature. Numbers of transferred
and failed photos are reported and not decided upon, so they are left out.
`UploadFails` may leave a file without a row (`os.utime` fails after the move)
or a torn one (a move to another file system). A photo is edited only between
two runs of the phone, and the retry of an upload does not overlap with the
handler of the attempt before it, which the server would have to have given up
on.

`PhotoBackup` is the promise to the owner of the phone: what has arrived stays
until the user deletes it, and the phone gives up only what is, or was, on the PC.

### MobilePairing

| Specification | Code |
|---|---|
| `active`, `again`, `result`, `told`, `busy` | `_active_session`, `_active_backup_again_context`, `_pairing_result`, `_pairing_state_by_session_id`, `_pairing_request_in_progress` |
| `code[s]` | the token of a session: which one, and is it expired |
| `thread[t]` | a request thread in `handle_pairing_request`, or the thread that asks the user about a mismatch |
| `key`, `bound`, `row`, `assets` | tables `mobile_devices` (the trust key), `mobile_folders`, `mobile_backup_sessions`, `mobile_assets` |
| `folders`, `made` | table `folders` and its last id |
| `StartSession`, `Refresh`, `Expire`, `Close` | the dialog and the session's timer |
| `Claim`, `Match`, `Mismatch`, `AcceptCheck`, `End` | `handle_pairing_request` under and outside of its lock |
| `Choose`, `Cancel` | the answers to a mismatch, of which the time-out is one |
| `AcceptDevice`, `AcceptRepair`, `AcceptFolder`, `AcceptBind`, `AcceptSession`, `AcceptPublish` | `_accept_pairing`, one action per commit, then the locked end |
| `RemoveData`, `RemoveRow` | `delete_folders`: the phone's data, then the folder's row |
| `Transfer`, `Restart` | an upload files a row for the phone; the process ends |

Claims with an old code, for another session, or while another claim is busy are
answered and change nothing, so they are no actions. What a phone makes of its
answers is not in this module; what it is told is `Polled`. With `RemoveInside =
FALSE` folders are removed while no session is open, and with `LateClaims =
FALSE` the threads of one session have ended before the next is opened; both
are what the modal dialog makes likely and nothing enforces, and section 4 says what happens
without them.

### UsbLink

`kind` selects the adapter: `"aoa"` for `usb_aoa_adapter.py` with Android's
`AoaClient.kt`, `"ws"` for `usb_ws_adapter.py` with an iPhone. The two loops have
the same actions: `Begin` captures the code, `Open` or `OpenFails`, `Challenge`,
`AuthRead`, `SessionRead` with one disjunct per kind of frame, `SessionEnds`,
`Wait`. `up` and `down` are the frames under way. In an accessory they outlive
both ends of a session; those of a web socket belong to one connection.
`pending` is the table of started uploads, `given` a history variable of what
the router got, with the number of the attempt that each chunk came from, which
the code cannot see.

Not in this module: the states that are only displayed, the growing pause
between two attempts, requests other than uploads (they are one frame and one
answer), the router's failures. Timeouts fire when nothing is under way that
would prevent them. Frames of a connection that an iPhone has given up are
dropped with it. A chunk that belongs to no upload is ignored or ends the
session when other uploads are pending.

### InstantShare

`sess` is the registry of `session.py`, whose methods are atomic; `thread[h]` a
request in one of the servers, with one action for each call it makes: `Enter`,
`Receive`, `Write`, `Look`, `Count`, `Moves`, `Publish`, `Check`, `Deliver`,
`Delivered`, and for a stash `Manifest`, `Open`, `Read`, `Claim`, `Notice`.
`trust` is the handshake of new phones, `stash` with `late`, `gone` and `peer` the
offer of files in `qr_trigger_handler.py`, `shown` and `qr` the windows.
`TimesOut` is a request whose answer the phone does not wait for; `NextHost` is
the retry of the client, which starts the batch from its first image.

The handshake and the opening of a session by a known phone are one step each. A
phone whose PIN is wrong gives up. Names in a batch differ, session ids do not wrap,
and events reach a window in their order. WebRTC is reduced to what the stash
sees of it. `Cleanup` does not come while a handler works on the session.

### ShareAgent

`agent` is how far `main()` has come; each start and stop of a server is a step.
The names of its specification begin with `Agent`, because `SharingProofs`
extends `InstantShare` too. `run[i]` is one thread of the advertiser with its Zeroconf instance, `current`
the attributes `_thread`, `_zeroconf` and `_stop_event`, which all threads share,
and `call[c]` who is in `stop` and `start`: main or one of the threads that a new
address starts. `mon` is the network monitor. `Crash` is the end of the process
without clean-up, after which launchd starts it again; after SIGTERM it is
unloaded. The wait of ten seconds for the advertiser is ignored by the code when
it fails, and has no action. The monitor and the advertiser read the same
address. A registration may fail when another instance still has the name.

## 4. What is checked

### Runs that pass

| Run | Properties | What it shows |
|---|---|---|
| `workers_users` | `TypeOK` `QueueOK` `PendingKept` | users add, remove and re-index folders while workers and a resume thread run, entries are inaccessible, batches fail, workers raise, folders vanish and the model may fail |
| `workers_two` | `OneWorkerPerFolder` `NoneStranded` | two workers, two resume threads, three folders, restarts: the chain reaches every folder |
| `folder_bulk_faults` | `TypeOK` `IndexedHasVector` `ImplementsCatalog` | the bulk writer under every fault, corruption of the file included, with two crashes |
| `folder_both` | `ReportedMeansDone` `WritersEnd` `EventuallyIndexed` | both writers, creations and crashes |
| `events` | `TypeOK` `CaughtUp` `ShutsDown` | two scenarios: creations and deletions until deinit, with batches that fail in every way; deletions and renames of indexed files, also onto existing ones; in both, the model is loaded from the start, later or never |
| `model_crashes` | `TypeOK` `Unmixed` `Settles` | two crashes, new releases, all faults |
| `backup` | `TypeOK` `RecordHasContent` `ImplementsBackup` `CompletedHonest` `RunEnds` | two photos of one name and, at first, of one content, of which one is edited; two sessions; one fault or intervention at any place: a broken request, a lost answer, a full disk, a stop, a removed folder or file, a crash |
| `pairing` | `TypeOK` `ReferencesHold` `AcceptedIsServed` `AnswerStable` `CodeLeadsToDecision` | two phones and two sessions, new ones and "backup again", codes that expire and are replaced, mismatches with every answer, one removal of a folder or end of the process |
| `usb_link` | `TypeOK` `UploadWhole` `DoneIsGiven` `SessionIsCurrent` `Recovers` | both adapters with two photos and two attempts, two codes, one unplugged cable, resynchronisation or second scan |
| `sharing` | `TypeOK` `DoneMeansAllOnce` `OkMeansSaved` `OkMeansDone` `StashEnds` | one session of each flow, a text or two images, two request threads, a phone that times out and goes on at its second host, a stash that is read, claimed, cancelled or expires |
| `agent` | `AgentTypeOK` `NoneLeaked` `EndsUpVisible` | three changes of the address with two overlapping restarts, one death of the agent, one failing call |

Each property of each run has a mutant: a variation of one definition, of the
kind a slip in the code would produce, under which TLC finds the property
violated. They stand before the definition they vary.

Some properties are limited to what the code keeps, and the limits are worth
knowing. `folder_both` has neither deletions nor failing batches, because a
failed batch is reported as success. `events` has no re-creation of a path and
no renaming of new files, because both break `CaughtUp`, which excepts the files
a failing batch has left to the bulk indexer; `ShutsDown` excepts workers that
wait for a model that is not loaded. `IndexedHasVector`
leaves out the states after a crash in the middle of a recovery;
`RecoveredHasVector` is the same without that limit. `backup` has no two
uploads of one name between the choice of a name and the move (`Overlap`).
`pairing` removes folders outside of sessions and lets threads end with their
session. `DoneMeansAllOnce` and `OkMeansDone` are about phones that did not
start their batch again; `OkMeansSaved` is about all. `Recovers` excepts a
desktop that idles in a session the phone has given up. `EndsUpVisible` is
about agents without a failing call, and `agent` assumes `Prompt`. What happens
beyond each limit is listed below.

### The run that finds a disagreement

`backup_same_name` checks `NothingOverwritten`, which the design document states:
"If the target filename already exists but the incoming asset is new or changed,
create a conflict-safe name rather than overwrite"
(`src/docs/mobile-folder/[dev][pc]-3-mobile-folder.md:265`). Two handlers of one
name find the same name free, and the second move replaces the first file; a
record then names a file with the other photo's content.

### Further disagreements

TLC shows each of these with the module, values and property given; they have
no run of their own in this directory. `MC` stands for the module with that
prefix, and values that are not named are those of the run in parentheses.

| Property | Values | What happens |
|---|---|---|
| `NoneStranded` ("Try to activate other workers if any are idle", `index/index_worker.py:142`) | `MCIndexWorkers` (`workers_two`): two paths, `MaxId = 2`, `MaxWorkers = MaxBacklog = 1`, `Ops = {"remove"}` | a folder is removed while it is indexed: its worker is no longer on the list, so its `finally` block starts nobody, and folders that wait stay where they are (`index_worker.py:221`) |
| `NoneStranded` | the same, `Ops = {"reindex"}` | a re-index request while the folder's worker is finishing is refused, and the reset status keeps that worker from resuming |
| `LiveBound`, `RemovedLeavesNoRows` | the same, `Ops = {"remove"}` | a stopped worker is off the list while its thread still runs: more threads run than the limit says, and one inserts the entry it is at after the folder's rows were deleted |
| `EventuallyIndexed` | the same, `Ops = {}`, `FairSpec`, no symmetry | two resume threads with old lists restart a completed folder in turns, and another folder never gets its worker |
| `IndexedHasVector` ("A write operation (add/remove) must have exclusive access.", `src/FAISS_SAFETY.md:22`) | `MCFolderIndex` (`folder_both`): `MaxChanges = 1`, `MaxCrashes = 0`, `MaxCopies = 2`, `BatchLimit = 2` | bulk and incremental writer replace the FAISS file one after the other, each with its own copy (`index/dts_index.py:343`) |
| `WritersEnd` | the same, `Ops = {"undecodable", "reindex"}` | a row that was skipped after it had been indexed keeps its `clip_index`; once pending again, `build_index` asks for it for ever |
| `RecoveredHasVector` | `MCFolderIndex` (`folder_bulk_faults`): `MaxId = 2`, `MaxChanges = MaxCrashes = 1`, `MaxCopies = 2`, `BatchLimit = 1`, `Ops = {"corrupt"}` | a crash between the halves of the recovery leaves rows that claim vectors of an empty file (`index/dts_index.py:177`) |
| `ReportedMeansDone` | the same, `Ops = {"undecodable"}` | a batch of undecodable images ends the run; the folder is reported as indexed with rows of later batches pending |
| `ReportedMeansDone` | the same, `Ops = {"corrupt"}`, `MaxCrashes = 0` | so does the recovery of a corrupt file, with all rows pending |
| `Drained` ("Filesystem events are buffered and processed by `incremental_index_worker`", `src/Dev-Spec.md:17`) | `MCFsEvents` (`events`): three images, operations `{"create", "delete"}`, `MaxEvents = 3` | after a batch of deletions nobody looks at the rest of the buffer (`index/incremental_index_worker.py:231`) |
| `CaughtUp` | the same, `{"create", "delete", "recreate"}`, `MaxEvents = 4` | two threads handle batches at once; a deletion takes the row of the file's successor |
| `CaughtUp` | the same, `{"create", "move"}`, `MaxEvents = 3` | a file renamed while it is indexed is marked removed and never indexed under its new name |
| `AlwaysShutsDown` ("Stop the filesystem watcher and all index workers", `app_bootstrap.py:30`) | the same run's values | a worker waits for a model that is never loaded (`index/dts_index.py:454`) and does not look at its stop flag; its thread is not a daemon (`index/incremental_index_worker.py:46`), so the process does not end |
| `Starts` | `ModelStartup` (`model_crashes`): `MaxReleases = MaxCrashes = 1`, `Kinds = {}`, `MaxFaults = MaxReloads = 0` | a complete temporary file is answered by 416 on every attempt (`index/dts_model_downloader.py:120`) |
| `DownloadedMeansComplete` | the same | a partly unpacked cache is taken for the model by the next start |
| `FailureIsReported` | the same, `Kinds = {"load"}`, `MaxFaults = 3` | the state "failed" is never set |
| `ReloadEnds` | the same, `MaxCrashes = 0`, `MaxReloads = 1` | `reload_model` sets "loading" and then refuses to load |
| `MismatchResolved` ("Pairing_Mismatched --> Pairing_Completed: PC resolves mismatch", `src/docs/mobile-folder/[dev]state-machine.md:18`) | `MobilePairing` (`pairing`): three sessions, `MaxCodes = 1`, `MaxFaults = 0` | the repair of a folder refuses a phone that has a folder of its own; the error ends the thread, and the session stays mismatched (`mobile/mobile_pairing_service.py:855`) |
| `ReferencesHold`, `AcceptedIsServed` | the same run's values, `RemoveInside = TRUE` | a claim that is being accepted binds its phone to the folder that is being removed |
| `AcceptedIsServed`, `AnswerStable` | the same run's values, `LateClaims = TRUE` | a thread of the session before still writes the phone's key, or publishes its result |
| `RecoversAlways` ("so both sides re-establish a clean session", `AoaClient.kt:414`) | `UsbLink` (`usb_link`): one photo, `MaxConfigs = MaxTries = 1` | the phone closes the accessory while nothing is uploaded; the desktop waits for its next frame without a limit (`mobile/transport/usb_aoa_adapter.py:782`) |
| `UploadWhole`; `Recovers` | the same run's values, `SlowStop = TRUE`, two workers, one photo; none | a worker that outlives `stop()` reads and closes the link of its successor (`mobile/transport/usb_ws_adapter.py:291`, `:937`) |
| `DoneMeansAll` (`src/openspec/specs/multi-image-session-pc/spec.md:7`) | `InstantShare` (`sharing`): one handler, `Flows = {"to_pc"}`, `Sizes = {3}`, `MaxOthers = 0` | requests are counted and not images, so a batch that was started again is done before its last image has come (`src/instant_sharing/orchestrator.py:84`) |
| `OkMeansDone` without `~phone[s].again` | the same run's values, `Flows = {"revisit"}`, `Sizes = {2}` | the session is cleaned up while the phone repeats its batch; its last images open a new session, which never has seen them all |
| `EndsUpVisible` without `used.faults = 0` ("Restart the mDNS advertiser when the PC's IP addresses change.", `src/instant_sharing/runtime.py:326`) | `ShareAgent` (`agent`): `MaxChanges = 1`, `MaxCrashes = 0` | an advertiser that has failed once is not "running", and is never started again (`runtime.py:338`) |
| `NoneLeaked` | the same run's values, `Prompt = FALSE`, `MaxFaults = MaxCrashes = 0` | a thread that was started but has not run is missed by `stop`; its instance and the next one's share one attribute |

Reading the code for these modules also showed, without a property of its own:
a session of instant sharing whose phone gives up is never ended and keeps its
place in the registry (nothing calls `fail_session` or `abort_session`, though
`src/openspec/specs/multi-session-orchestrator/spec.md:31` wants a time-out after
120 s); "Cancel" in the receiving window changes only what the window shows, and
a late event may show "transferring" after "done"; a stash may be marked both
claimed and expired, because the two flags are set by two threads; an address
that changes and changes back between two looks of the monitor goes unnoticed.

### Bounds

Every bound is a CONSTANT with a comment that begins with "bound", or a limit of
the code made small. In detail:

* `IndexWorkers`: `MaxWorkers` is 1 in the code, and 2 in `workers_two` so that a
  race for a second worker of a folder is possible at all. Two folders and two
  threads suffice for a folder that waits, three for a chain with a middle.
  `workers_two` has two resume threads, which race with each other;
  `workers_users`, which has every operation and fault but a restart, has one,
  and the theorems of section 5 cover its properties for any number. One request
  at a time races with all threads. One batch (`MaxBacklog = 1`) separates "rows
  pending" from "none"; the run about the chain alone has none. `Init` ranges
  over all databases an earlier run may leave, so registration is not needed to
  get started. When all threads of a bound are alive an action that starts one
  waits.
* `FolderIndex`: batches of one or two rows out of two files, so that there are a
  first and a last batch in `folder_both`, and jobs of one image in
  `folder_bulk_faults`, so that one job of a batch fails and another succeeds.
  `MaxId` leaves a new id for every file that is deleted and created again.
  `MaxCopies` exceeds 1 + the number of times that the same id can be written
  again, so that `Write` is not blocked by it.
* `FsEvents`: three paths and five changes; two workers; batches of one file, so
  that one run of creations needs two workers. Two are enough: a handler that
  starts a worker has always found one idle. In the first scenario one of the
  paths is not an image, and every set of images of a batch can fail.
* `ModelStartup`: three chunks (empty, partial, full), three attempts as in the
  code, three releases, at most four faults and two crashes: enough to fail all
  attempts of one start and to disturb another.
* `MobileTransfer`: two photos of one name, so that names conflict, with one
  content in common, so that one is taken for the other; two versions of the
  first; two sessions, so that a late handler of the first meets the second.
  A body has two parts, so that it can break in its middle. `Numbers` has more
  numbers than files can have one name.
* `MobilePairing`: two phones, so that one can be the wrong one; two threads, the
  claim and the question to the user; two sessions, of which the second may be
  "backup again"; two codes and two folders. Sessions are not opened twice.
* `UsbLink`: one chunk, so that an upload has three frames, and queues of two
  frames, so that frames of one attempt wait in the cable while the next begins.
  Two codes belong to one session, as a code and its refreshed code do; `Earlier`
  is one that was scanned before.
* `InstantShare`: one session with two threads, since sessions share nothing but
  the limit of the registry, which `others` fills; two images (or a text), so
  that a batch has a middle; two hosts.
* `ShareAgent`: two addresses, two restart threads and three advertiser threads:
  one that is being closed, one that runs and one that is started.

Deadlock is not checked: in all modules the system comes to rest when users and
devices do, or when a bound is used up.

Symmetry is used for paths, threads and resume threads in runs without liveness
only.

### Fairness

* Threads that were started are scheduled: weak fairness of each worker, resume,
  dispatcher, download, preload, request, advertiser and monitor thread. The code
  blocks only on locks that are held for short blocks, on sockets, whose timeouts
  are actions of their own, and on the two model events, which are guards.
* `SF(WorkerTraversed(t))`: a directory tree is finite, so a traversal ends even
  though each of its entries is another step. Weak fairness would not say so,
  because the traversal is disabled while an entry is inserted.
* User requests that have begun are completed, events are delivered. Nothing is
  assumed about users, the disk, crashes or faults.
* `IndexWorkers`: `WF(ModelLoaded)`, the model loads in the end, so that a
  counterexample is the scheduler's own. `FolderIndex` begins with a loaded model.
* `FsEvents`: the model need not load, there is no fairness of its `ModelLoaded`.
* `MobileTransfer`: the workers of a phone's run go on while it lasts, and the
  run reports its end; handlers run to their end. Nothing makes a phone start a
  run.
* `MobilePairing`: `WF(Decide(t))`, because the question about a mismatch gives
  up after five minutes; and `SF(Claim)`, the only assumption about people: somebody
  goes on to scan the code. `CodeLeadsToDecision` then says that the desktop never
  answers such claims without coming to a decision.
* `UsbLink`: the threads of the desktop and the reader of the phone run; nothing
  is assumed about users, plugs, or whether there are uploads.
* `InstantShare`: request threads run, and the timer of a stash fires in the end.
* `ShareAgent`: threads run and launchd restarts the agent. `Prompt` is an
  assumption on speeds that fairness cannot express: a thread runs its first
  statement before somebody gives up on joining it, and addresses do not change
  back before the monitor has looked.

## 5. What is proved

`IndexWorkersProofs` proves, for any set of paths, finite set of threads, number
of workers, bounds and environment:

| Theorem | Statement |
|---|---|
| `Invariance` | `Spec => []IInv` |
| `TypeCorrect` | `Spec => []TypeOK` |
| `ListBoundHolds` | `Spec => []ListBound`, which no run checks |
| `OneWorkerPerFolderHolds` | `Spec => []OneWorkerPerFolder` |
| `QueueOKHolds` | `Spec => []QueueOK` |
| `PendingKeptHolds` | `Spec => PendingKept` |
| `NoneStrandedHolds` | `Undisturbed => (Spec => []NoneStranded)` |

The assumptions are those the module states: `BoundsAssumption` (the bounds are
numbers, at least one worker is allowed) and `ThreadsAssumption` (finitely many
threads at a time, without which the size of the list would mean nothing).

The inductive invariant is `IInv == TypeOK /\ ListBound /\ OneWorkerPerFolder /\
QueueOK`. None of the three list invariants is inductive alone: a started folder
leaves the pending list only once, which removes it only because the list has no
duplicates (`QueueOK`, used by the lemma `WithoutFacts`); the list grows by one
only because the thread that is taken was not on it, which follows from "listed
threads are alive" (`OneWorkerPerFolder`); and a popped folder may be appended
again only because nobody was indexing it. The lemma `AddFolderInv` has the one
case analysis of `add_index_worker` that resume threads and users share, and
`Shrink` the actions that only take workers off the list; each action of `Next`
then has a step. `PendingKept` is proved from the same invariant: `AddFolder`
keeps all other folders of the list it is given, and the popped folder gets a
worker or is appended again.

`NoneStranded` is about the end of a chain that no lock protects: a worker ends,
it starts a resume thread, that thread looks for folders and starts the next
worker. Its invariant is `ChainInv == IInv /\ Registered /\ Known /\ AtWork /\
Chain`. `Chain` says who will look next while a folder is unfinished: a live
worker, a resume thread before its last look, or a request. It breaks where a
worker ends without starting a resume thread, so `AtWork` says that in a process
that is up every live worker is on the list, is not stopped and, once it is about
to leave, has reported its folder as completed, which is what line 146 asks
for; `Registered` (one row per path) makes the folder that it finds there its
own, and `Known` (every folder that a thread, a list or a request deals with has
a row) keeps the report from being lost. A resume thread that only pops
the pending list hands the chain to nobody, and need not: it goes there when it
found no unfinished folder. The hypothesis `Undisturbed == Ops \subseteq
{"restart", "fail"}` is what is left when the disagreements of section 4 are
taken out: removals, re-index requests, folders that vanish or have inaccessible
entries, exceptions and model failures each end a worker that then resumes
nobody.

`FolderIndexProofs` proves, for any images, ids, batch sizes, crashes and
bounds, under `FolderAssumption` (bounds are numbers, batches are not empty):
with any faults and under `BulkAlone == Writers = {"bulk"}` the first four
theorems, with both writers the others. With the incremental writer
`IndexedHasVector` is false, as section 4 shows.

| Theorem | Statement |
|---|---|
| `Invariance` | `BulkAlone => (Spec => []IInv)` |
| `BulkTypeCorrect` | `BulkAlone => (Spec => []TypeOK)` |
| `BulkIndexedHasVector` | `BulkAlone => (Spec => []IndexedHasVector)` |
| `BulkImplementsCatalog` | `BulkAlone => (Spec => ImplementsCatalog)` |
| `TypeCorrect` | `Spec => []TypeOK` |
| `ReportedMeansDoneHolds` | `Faultless => (Spec => []ReportedMeansDone)` |

The inductive invariant is `IInv == TypeOK /\ Agreement /\ IndexedHasVector`.
`IndexedHasVector` compares the rows with the file; the file is replaced by a
copy that was read several steps earlier, so `Agreement` follows that copy
through the thread: the copy has the vectors of all marked rows
(`CopyHasVectors`, while the file it was read from did), rows about to be marked
have their vectors in the new file (`TodoHasVectors`), and rows of a batch had
no `clip_index` when they were picked and nobody has set one since
(`BatchIsFresh`), so that skipping them marks no indexed row as removed. That in
turn keeps `ClipMeansIndexed`, a row with a `clip_index` has status 1, on which
the recovery depends: it clears only rows whose status is not 2. `FileExists`
says that a folder without a FAISS file has no marked row and that batches are
added only where there is one. The second writer breaks `CopyHasVectors`; that
is where the proof needs `BulkAlone`.

The refinement of `ImageCatalog` uses the stronger invariant `RInv`, which adds
what a step may not take from a search: a missing or unreadable file has no
vectors (`Blank`), ids that were not given yet have no row (`IdsFresh`, so that
`insert_file` overwrites nothing), a recovery starts from an empty file
(`Emptied`, so that clearing the rows loses no hit), and the copy of a batch has
every vector of the file it will replace (`CopyHasFound`, unlike `CopyHasVectors`
also after a torn recovery). A step that keeps the hits (`KeepsHits`) is a
`Publish` of the catalogue or, while the file is unreadable, a stutter: that is
the lemma `PublishStep`, which most actions use. The rest map to actions of
their own: `Load` of a damaged file to `Repair` with nothing, `Write` over one
to `Repair` with what the copy holds, `DeleteFile` to `ReportDeletion`,
`FileDeleted` to `Withdraw`, `CorruptIndex` to `Damage`, `Crash` to
`LoseReports`.

With both writers, `TypeCorrect` needs nothing else. `ReportedMeansDoneHolds` is
proved from `DoneInv == TypeOK /\ IdsFresh /\ Undamaged /\ AllOnCourse /\
BatchesLive /\ Covered`. `Covered` says of each pending row who will index it:
the bulk worker that the scheduler is about to start, the bulk worker that runs
and will look again after its batch, or the incremental worker that has the
row's file among its own or the row in its batch. The row one writer inserts
behind the other's back is its own to index; the bulk worker ends only when
`ORDER BY id LIMIT n` finds nothing, which means that nothing is pending (the
lemmas `FirstMember` and `FirstIdsFacts`: a non-empty set of ids has a least
member). `AllOnCourse` and `BatchesLive` say why no batch ends early: the file is
readable, each batch has rows, and these rows have images on the disk.
`Faultless == Ops \subseteq {"reindex"}` is the hypothesis because an image that
disappears, cannot be decoded or a file that cannot be written ends
`build_index` with rows pending and the folder reported as indexed (section 4).
The lemma `Carried` says once what a step of one writer owes to the rows of the
other.

`FsEventsProofs` proves, under `EventsAssumption`, for any paths, workers, sizes of
a batch and numbers of events:

| Theorem | Statement |
|---|---|
| `TypeCorrect` | `Spec => []TypeOK` |
| `CaughtUpHolds` | `FreshOrSettled => (Spec => []CaughtUp)` |

`FreshOrSettled` says that each scenario is one of two kinds, those of the run
`events`: nothing is renamed and no path is used twice (`Fresh`), or there are no
new files and every path is an image (`Settled`). It is not far from what is
necessary: TLC finds `CaughtUp` violated with creations and moves, with a path
that is created, deleted and created again, and with a move from a name that is
not an image's. The two kinds have an invariant each, and each holds for another
reason.

* `FreshInv == Sorted /\ OnceOnly /\ OnList /\ Trailing /\ RowsFollow`, with any interleaving of the
  dispatcher and the workers. A path is used once, so an event that waits still
  tells the truth when it is handled (`OnceOnly`): a file that is reported as
  deleted does not come back. A row that disagrees with the disk has an event, a
  handler or a worker that is about to change it (`RowsFollow`). `Sorted` says
  that a handler works on events of its own kind, which is what the front run of
  the buffer (`FrontRun`) is for. Failing batches need two parts more. Rows they
  leave pending must not outlive their files. So when a file of a worker's batch
  is deleted, the event must still be waiting to be reported or in the buffer,
  not in a handler's hands (`Trailing`). It is, because a batch is taken from the
  buffer only when no worker is on the list, and workers at work are on it
  (`OnList`).
* `SettledInv == OneByOne /\ InOrder`. Without new files no worker is ever
  started, so the dispatcher handles one event at a time and the buffer holds at
  most that one (`OneByOne`). The events that wait, applied in order, lead from
  the indexed files to the files on the disk (`InOrder`, a sequence `D` of sets of
  files with one step for each event), and a handler takes the first of these
  steps. A rename onto an existing file is a step like the others, because the
  row it replaces is that of the file it replaced.

After `deinit` nothing is handled any more, and `CaughtUp` says nothing.

The provers know of no filter or fold of sequences, so `Kept` and `Renamed` are
recursive functions in the model. `KeptExists` and `RenamedExists` show that they
are defined, by the least length for which they would not be (`LeastMember`);
`KeptFacts` and `RenamedFacts` say what they return, and `FrontRunFacts` that the
front run is a prefix of one kind.

`ModelStartupProofs` proves, under `StartupAssumption`, for any size of the
archive, number of attempts, releases, faults, crashes and reloads:

| Theorem | Statement |
|---|---|
| `Invariance` | `Spec => []IInv` |
| `TypeCorrect` | `Spec => []TypeOK` |
| `UnmixedHolds` | `Spec => []Unmixed` |
| `ReadyMeansLoadedHolds` | `Spec => []ReadyMeansLoaded`, which no run checks |

Its invariant is `IInv == TypeOK /\ Room /\ FromExpected /\ Unmixed /\ Loaded`.
`Unmixed` is not inductive alone: an archive is unpacked over what is in the cache.
`FromExpected` says why that is harmless: only a thread that found no cache
downloads, and while it does, what is in the cache comes from the release whose
checksum it expects. `Room` is what `TypeOK` needs for the temporary file, and
`Loaded` relates the preload thread, the event it waits for, the model and the
state; it contains that no code sets the state to `"failed"`.

`MobileTransferProofs` proves, under `TransferAssumption`, for any photos, contents,
names, sessions and number of faults, and with `NoOverlap == Overlap = FALSE` as
the hypothesis of each theorem; without it `RecordHasContent` fails as in the run
`backup_same_name`.

| Theorem | Statement |
|---|---|
| `Invariance` | `NoOverlap => (Spec => []IInv)` |
| `TypeCorrect` | `NoOverlap => (Spec => []TypeOK)` |
| `RecordHasContentHolds` | `NoOverlap => (Spec => []RecordHasContent)` |
| `CompletedHonestHolds` | `NoOverlap => (Spec => CompletedHonest)` |
| `ImplementsBackupHolds` | `NoOverlap => (Spec => ImplementsBackup)` |

`IInv == TypeOK /\ Ranges /\ Journey /\ Placing /\ Kept /\ DoneStored`. `Placing` says
that a name which a handler has chosen is still free when it moves its file
there, and that no other handler has chosen it; this is what `Overlap` breaks.
From it follows that no move replaces a file, so `Kept`, the content of recorded
files and of those about to be recorded, survives every step but the user's
deletions. `DoneStored`, what a phone takes for stored is stored or was deleted by
the user, follows from `Kept` where a handler answers and from the row it finds
where one is refused; it needs `Journey`, which ties an answer to the version
that is on the phone now. `Ranges` keeps versions and paths in their domains. The
refinement has one case per action: `PhotoBackup` stutters, except for `Edit`,
the move of a file (`Arrive`), `UserDeletes` (`Delete`) and the end of a run (`Free`,
by `DoneStored`).

`MobilePairingProofs` proves, under `PairingAssumption`, for any sessions, phones,
threads, codes, folders and faults, with `OneAtATime == LateClaims = FALSE /\
RemoveInside = FALSE` as the hypothesis of each theorem:

| Theorem | Statement |
|---|---|
| `Invariance` | `OneAtATime => (Spec => []IInv)` |
| `TypeCorrect` | `OneAtATime => (Spec => []TypeOK)` |
| `ReferencesHoldAlways` | `OneAtATime => (Spec => []ReferencesHold)` |
| `AcceptedIsServedHolds` | `OneAtATime => (Spec => []AcceptedIsServed)` |
| `AnswerStableHolds` | `OneAtATime => (Spec => AnswerStable)` |

`IInv == TypeOK /\ Turns /\ Claims /\ Answers /\ Refs`. `Turns` is what the flag
`_pairing_request_in_progress` and the single question to the user amount to: of
all threads at most one works, next to which a claim that has met the wrong phone
may still be about to end. Hence what that thread has committed so far is still
in the tables when it goes on (`Claims`), which makes an acceptance true when it
is published (`Answers`), and a published acceptance final, because `Decided` keeps
all later claims out. `Refs` adds to `ReferencesHold` that a phone has one folder,
without which the repair of one folder could unbind another, and that while a
folder is being removed nothing refers to it.

`UsbLinkProofs` proves, under `LinkAssumption`, for any threads, photos, codes,
attempts, chunks, queues and faults:

| Theorem | Statement |
|---|---|
| `TypeCorrect` | `Spec => []TypeOK` |
| `SessionIsCurrentHolds` | `Spec => []SessionIsCurrent` |
| `DoneIsGivenHolds` | `Spec => []DoneIsGiven` |
| `UploadWholeHolds` | `SlowStop = FALSE => (Spec => []UploadWhole)` |

The first three hold whatever threads overlap. Their invariant is `Basics ==
TypeOK /\ SessionIsCurrent /\ Proper(up) /\ Begun /\ Answers`: frames of an upload
name a photo, an attempt and a chunk (`Proper`), which `TypeOK` needs when a frame
becomes part of an upload; and every "ok" that is under way or has arrived is
about a photo that was handed on (`Answers`), even if another attempt with its
request id was.

`UploadWhole` is false with a worker that outlives `stop()` (section 4), so its
theorem has `SlowStop = FALSE` as its hypothesis. `Orderly` adds to `Basics` that
one thread runs at a time (`Alone`), that uploads have started only in its session
(`Served`), and `Linked`, the order of the frames: two frames under way with one
request id, and none of that id between them, go on from each other (`Chain`); the
first of an id goes on from what has come of the upload (`Pieces`); and the last
is the one that the phone sent last (`Streams`). A session drops the front of the
queue only before an upload has started, and a phone drops its end only when its
uploads have stopped. So where frames are missing, either nothing waits for them
or the next frame with their id is a start. The lemmas `LinkedPart`, `LinkedAdded`,
`LinkedTaken` and `LinkedAged` say this of any queue, once for each thing that
happens to one.

`SharingProofs` proves about `InstantShare`, under `ShareAssumption`, for any sessions, threads,
flows, batches, hosts and limits, and without a further hypothesis:

| Theorem | Statement |
|---|---|
| `Invariant` | `Spec => []IInv` |
| `TypeCorrect` | `Spec => []TypeOK` |
| `OkMeansSavedHolds` | `Spec => []OkMeansSaved` |
| `DoneMeansAllOnceHolds` | `Spec => []DoneMeansAllOnce` |

`IInv` consists of types (`Shapes`, `Views`), `SessionOK` for each session, `HandlerOK`
for each request, and `Turns`. `HandlerOK` follows one image: after `Write` it is
saved, before `Count` the session's count is below its number, and a handler that
goes to DELIVERING has found the batch complete. `SessionOK` adds that all images
before the phone's next one are saved, so that the answer to the last one means
all of them. The hard part is that the look at the session, the count, the
transition and the publication are separate steps: `Turns` says that a phone which
has not started its batch again has one request at a time, so nothing changes
between them; a phone that has started again may have several, and then nothing
is said of the count (`DoneMeansAll` fails, section 4), while `OkMeansSaved` still
follows, because files are only added. The lemmas `GoesOn`, `EndsHere`, `PhoneMoves`
and `ReaderMoves` say once what a step leaves alone; each action has a lemma that
checks its own request and session.

and about `ShareAgent`, under `AgentAssumption`, for any addresses, threads and
numbers of changes, crashes and faults:

| Theorem | Statement |
|---|---|
| `AgentTypeCorrect` | `AgentSpec => []AgentTypeOK` |
| `Invariance` | `Prompt => (AgentSpec => []AgentInv)` |
| `NoneLeakedHolds` | `Prompt => (AgentSpec => []NoneLeaked)` |

`AgentInv == Types /\ Tidy /\ Stopped /\ Created /\ Unlisted /\ Owner /\ Held`. `Held`
extends `NoneLeaked` to instances that are open and not yet registered. It is
endangered where a new thread stores its instance over that of the advertiser:
`Created` says that this thread is the current one, so by `Owner` the instance it
replaces belongs to a thread that failed before it registered. `Owner` needs
`Stopped` (after `stop` the advertiser has no instance until the next start) and
`Tidy` says that a thread which enters `stop` or leaves it holds nothing that it
could forget. `Prompt` is a hypothesis because of `Created`: when `stop` comes
between the start of a thread and its first statement, the thread opens an
instance next to that of its successor.

Only model-checked are the liveness properties, which the proof system does not
reach: `WritersEnd`, `EventuallyIndexed`, `ShutsDown`, `Settles`, `RunEnds`,
`CodeLeadsToDecision`, `Recovers`, `OkMeansDone`, `StashEnds` and `EndsUpVisible`.
`IndexedHasVector` and the refinement of `ImageCatalog` are proved for the bulk
writer alone, because they are false with both writers of `FolderIndex`; the
other hypotheses (`Undisturbed`, `Faultless`, `FreshOrSettled`, `NoOverlap`,
`OneAtATime`, `SlowStop = FALSE`, `Prompt`) leave out disagreements of section 4
too, and behaviours that satisfy them are in the runs of their modules.

## 6. Not modelled

* Discovery of phones, the exchange of capabilities, the proof and decryption of
  requests; TLS, HTTP and frame encodings: I/O and cryptography around the states
  above.
* WebRTC signalling, and the requests over the cable that are not uploads.
* The time-out and failure transitions of instant sharing sessions that nothing
  calls.
* When phones run a backup in the background, and their index of albums.
* Scores, ranking and paging of searches: pure functions without state.
* Desktop widgets, the web applications, telemetry, configuration: presentation
  and reporting.
* The removal of a folder while its FAISS file is written, the maps of watches,
  events of directories, two moves of one file in one batch of events, the
  fallback of the release look-up: parts of modelled components that are open in
  the plan. `PROJECT.json` lists them among the hazards.
