# Lockbox: specifications, model checking and proofs

Lockbox keeps encrypted files of shared directories ("top directories") in step
between the devices of several users. This directory holds TLA+ modules of its
update path and of the database under it, the TLC models that check them and
TLAPS proofs about them. `PROJECT.json` records, for every definition, the lines
of the source it models, and for every property a changed definition that breaks
it.

## The system

| Part | Source | What it does |
| --- | --- | --- |
| Service | `lockbox_service_handler.cc` | Thrift calls, run by the threads of a pool over leveldb databases |
| UpdateQueuer | `update_queuer.cc`, `update_queue_sync.h` | One thread that takes uploaded updates off `UPDATE_ACTION_QUEUE` and writes a `DEVICE_SYNC` entry for every device of every editor |
| DBManager | `db_manager*.cc` | Get, Put, Append, Delete, First, prefix lists; path locks on the client |
| leveldb | `leveldb/db` (vendored) | The databases: log, memtables, table files in levels, a background thread, recovery |
| UpdateFromServer | `update_from_server.cc` | Client thread: polls, persists to `UPDATE_QUEUE_SERVER`, acknowledges |
| FileEventQueueHandler | `file_event_queue_handler.cc` | Client thread per top directory: handles the server's updates first, then local events |
| FileWatcherThread, QueueFilter | `file_watcher_thread.cc`, `queue_filter.cc` | Local events to `UNFILTERED_QUEUE`, and from there to `UPDATE_QUEUE_CLIENT` of the directory |
| Client | `client.cc`, `client.h` | Registration, start-up, sharing; `Exec`, the RPC wrapper with three attempts |
| Encryptor | `encryptor.cc`, `rsa.cc`, `block_cipher.cc`, `compressor.cc` | Hybrid encryption of packages for all editors |
| Queue | `queue.h` | Bounded producer-consumer queue that no program uses |
| Others | | Helpers, stand-alone programs, code nothing calls, other vendored libraries |

An update travels: file event -> handler uploads a package -> `UploadPackage`
stores it and queues a tuple -> `UpdateQueuer` fans it out -> another device's
`UpdateFromServer` fetches it -> that device's handler downloads and applies it,
which is a file event on that device. Every arrow but the last but one goes
through a leveldb database.

## Modules

| Module | Models |
| --- | --- |
| `UpdatePipeline` | `UploadPackage` on pool threads, `UpdateQueuer::Run`, the condition variable between them, crashes of the server |
| `UpdateDelivery` | `DEVICE_SYNC` to the handler: `UpdateFromServer::Run`, `PersistedUpdates`, `Client::Exec`, the loop of `FileEventQueueHandler::Run`, crashes of both sides |
| `ReliableDelivery` | The abstract promise that `UpdateDelivery` implements |
| `LocalEvents` | A local change to its upload: watcher, `QueueFilter`, the handler's branch for local events, start and crashes of the client |
| `FileSync` | One file on several devices: the handler's two branches together, ignorable actions, GUID maps, deltas, repeated uploads |
| `Storage` | One leveldb database: writers, readers, the background thread, the files, ends of the process and `DB::Open` |
| `KeyValueStore` | The dictionary that `Storage` implements and the other modules take a database to be |
| `MC...` | Instances for TLC |
| `...Proofs` | Theorems and proofs, see below |

### UpdatePipeline

State: the databases of one top directory (`relpath`, `fptrs`, `data`,
`editors`), `USER_DEVICE`, `UPDATE_ACTION_QUEUE`, `UPDATE_ACTION_LOG` and
`DEVICE_SYNC`; for each pool thread its place in `UploadPackage` and its locals;
for each queuer its place in `Run` and its locals; the mutex `db_mutex`.

Actions: one per database call. The section of `UploadPackage` under `db_mutex`
is one step, the corresponding one of `Run` is two because a crash may fall
between the log entry and the deletion. `cv.wait` is three steps: `CheckEmpty`
(the predicate, under `db_mutex`), `Block` (the thread becomes a waiter) and
wakeup. On Linux `Run` passes a lock it does not own to `cv.wait`; nobody else
ever takes `cv_mutex`, so the outcome is a wait that the notifier does not
synchronise with. A failed `CHECK` ends the process (`Restart`), as a crash does:
databases stay, threads start afresh.

A package is a file GUID, the uploading device and whether it is an addition or a
modification. That is what decides its hash: `EncryptString` sets `data_sha1`,
`HandleModAction` leaves it empty. Two histories are kept for the properties:
`owed`, who an update was addressed to when it was queued, and `lost`, what a
queuer had in hand when the process ended.

### UpdateDelivery and ReliableDelivery

State: the user's directories and one device's entries on the server, the keys
`PersistedUpdates` threads are still deleting, the client's open directories, the
locals of the polling thread, the number of copies of each entry in
`UPDATE_QUEUE_SERVER` (each copy has a key of its own), and per directory the
place of its handler and the files it knows. A request may be lost, its answer may
be lost, a server thread may finish a request the client has given up, and both
processes may end at each step. Handling an update succeeds or ends the client: a
modification of a file that is not known yet (`Addition`) fails the CHECK for a
snapshot (`RemoteAddCheckFails`), a download or the announcement of the write may
fail theirs. The key is deleted after the write, so the update is first again when
the client is started. What handling does to files is in `FileSync`. Keys leave
`UPDATE_QUEUE_SERVER` in key order, `KeyOrder`; a batch is persisted in any order
since its keys are random GUIDs.

`ReliableDelivery` counts per entry the deliveries still to make and those made.
Only `Send` and `End` add deliveries, an end at most two per entry, and the
last delivery of an entry is never dropped before it is handled. The refinement
maps `todo` to the copies in `UPDATE_QUEUE_SERVER` not yet handled plus one if the
server (or the batch in hand) still has the entry and the client has not
persisted it.

### LocalEvents

`disk` is the top directory; `inotify` holds events that `FW::FileWatcher` has not
reported. A change is reported as `FileWatcherLinux` does (`Reported`): creating an
empty file or moving one to the path is an addition, closing after writing a
modification; writing and closing are one step. `Scan` and `handleFileAction` call
`AddNewFileToUnfilteredQueue`, whose steps are `Stamp` (the key, with
`time(NULL)`), `GetExisting` and `PutUnfiltered`, because the thread of
`Client::Start` and the watcher thread run them at the same time. `FilterRead`,
`FilterPut` and `FilterDelete` are `QueueFilter::Run`, which starts after the
listing. The handler's steps follow `HandleAddAction` and `HandleModAction` up to
each write a crash can separate; `HEAD_FILE` and `HEAD_FILE_HASH` are two of them,
and only the hash decides whether a file is unchanged. `head_file_hash` and the
delta's `prev` name a version by its content. Deletions are dropped, as in the
code, and a missing file reads as empty. `AcquireLockRelPath` has no step: it
grants every request and its release does nothing. `Crash` is the end of the
process and the next `Client::Start`; changes made in between are changes before
it whose events are lost. `stamped` and `coalesced` are history: the paths for
which two events got the same key.

### FileSync

State per device: the file, the events on their way (both queues of `LocalEvents`
as one sequence), the updates the server has for it and those persisted, the
`ignorable_actions_`, the GUID maps, `HEAD_FILE` and its hash, and the handler's
place and locals; on the server the packages in the order of their upload.

A handler step is what lies between two writes that a crash or a change of the
file can separate. `WriteFile` is `SetIgnorableAction` with the write after it: it
makes the events `FileWatcherLinux` reports of it, two when it creates the file.
`FirstLocal` is `HandleLocalAction` up to the branch it takes, with
`IgnorableAction`. `Download` is by the hash in the update: all modifications share
the empty one, so the newest is downloaded. `Apply` is `Delta::Apply`, empty when
the delta does not fit. `Queued` is what a second event within a second of the one
before can do to the queue; `Apart` rules that out but for the two events of a file
that is created. A change is rash unless it is made when nothing is going on and,
once the file was uploaded, in place (`Patient`); `Trouble` counts rash changes,
crashes and lost answers together. `mixed` is history: the devices
where events were coalesced or a write replaced a file by an addition, so that
events are no longer one for one with changes and announced actions.

### Storage and KeyValueStore

leveldb is vendored, but Lockbox's promises rest on it, so it is modelled from its
source. State on the disk: table files, logs, and what the manifest says (version,
log number, next file number, last sequence number). In memory: `VersionSet`,
the memtables, the queue of writers and the group its head is writing, what each
`Get` refers to, and the background thread's place, edit and merge.

The steps are the pieces of the code between two points where the mutex is
released or a crash can tell the difference: a write is `Write`,
`MakeRoomForWrite` (or `SwitchMemTable`, `WaitForRoom`), `AddRecord`, `InsertInto`,
`FinishWrite`, `ReturnDone`; a flush is `CompactMemTable`, `WriteLevel0Table`,
`LogAndApply`, `InstallMemTable`; a merge is `BackgroundCompaction`, `WriteOutput`
for each output, `InstallCompactionResults`, `LogAndApply`, `InstallMerge`, and a
flush may interrupt it between outputs. `Get` takes its references and
`GetReturns` gives them up; `Answer` is what it would find at any moment between.
`End` is the end of the process at any step; `Recover`, `RecoverLogFile`,
`NewLog`, `SetCurrentFile` and `Open` are `DB::Open`. `RecoverLogFile` makes one
table of each log (a log holds no more than one memtable).

A value is named by the sequence number of its write. Sizes are abstracted: which
writers form a group, what is merged when and how the outputs are cut is any
choice that some sizes allow. Lockbox uses no snapshots, synchronous writes or
manual compaction; disk errors, formats, caches and iterators are left out.

`KeyValueStore` is a dictionary with atomic writes and reads, whose `End` may keep
some of the writes that were waiting, in an order. The refinement maps the
dictionary to what a lookup would find now, or after recovery when the process is
down, and the answer of a reader to what it would find at this moment.

## Runs

| Run | Expected | Question |
| --- | --- | --- |
| `pipeline_safety` | pass | Types; no update lost; data stored before it is announced; right recipients; the queuer's CHECK holds |
| `pipeline_pool` | pass | With two queuers: no update lost; a notification that finds a queuer asleep empties the queue |
| `pipeline_missed_notify` | violation | Is every queued update taken? Not the one queued between check and wait |
| `pipeline_crash` | violation | Is every logged update completed? Not after a crash during the fan-out |
| `delivery` | pass | Types; no update lost; handled once per run; refinement of `ReliableDelivery`; every update handled and acknowledged |
| `events` | pass | Types; a changed file stays on its way unless two events share a second; locks are free; deltas fit their hash; the server catches up with the disk |
| `sync_calm` | pass | Three devices, users who wait, no client ended by a CHECK, no events coalesced: devices converge, echoes die out |
| `sync_trouble` | pass | Two devices and a crash and start, a lost answer or a rash change: types; announced writes and users' changes are told apart; changes are still read |
| `sync_announced` | violation | Is a write announced only when the announcement of the one before was used? Not with three devices, after a single change |
| `sync_repeated` | violation | Is a delta applied to the version it was made for? Not when the upload was repeated |
| `storage_ends` | pass | Two ends of the process at any point: files, levels, logs; refinement of `KeyValueStore`; every write returns |
| `storage_reads` | pass | Reads during writes, deletions, flushes and merges: files, levels; refinement of `KeyValueStore` |

What the four violations show is under `findings` in `PROJECT.json`, with the
lines of code that say otherwise.

Behaviours the models have and no run is kept for:

- an editor without a device ends the server in the fan-out (`DevicesCheckFails`);
  a second queuer can find the queue empty (`TakeCheckFails`);
- an update of a directory shared after start ends the client
  (`AppendCheckFails`), and so does an update that fails a CHECK of the handler,
  again at each start until the addition it needs is there; a client that never
  stays up handles nothing;
- packages of modifications share the empty hash (`lockbox_service_handler.cc:203`);
- an event of the same second and path is dropped, or deleted with the earlier one
  (`queue_filter.cc:80`), so a change can go unnoticed until the next one or the
  next start;
- a crash between the writes of `HEAD_FILE` and `HEAD_FILE_HASH` makes a delta
  with the wrong base hash;
- a start announces every file as an addition with a new GUID, which can overwrite
  a concurrent change; so does an editor that saves by renaming;
- a write that replaces a file by an addition makes one event too few, and the
  announced action left over swallows the user's next change;
- two changes in a row make a late recipient apply the second one's delta twice;
  of two changes made at once each device may end with the other's: nothing in the
  code resolves conflicts.

Bounds. Pipeline: two users with two and one devices, so that there are
recipients of the uploading user, of another user and one to skip; one file, two
uploads on two threads, which is enough for two uploads of the same path to
interleave at every step and for an upload to arrive at every step of the queuer;
a clock of two seconds for both key orders; one crash at any step. The run with two
queuers, which checks liveness too, has additions only and one second. Delivery: an
addition and a modification of its file, so that a batch is interrupted between its
entries, entries arrive during a batch and the modification can come first; three
broken connections, so that `CHECK(attempts < 3)` fails; one crash and one start
after a failed CHECK. Events: one file, missing, empty or with a content, two
changes at any step and within up to two seconds, one crash.

Sync: two contents. Three devices and two changes in `sync_calm`: the first change
adds the file, both receivers echo it, and the second change, on any of the three,
has to get past what the echoes left. The constraint `Intact` follows a behaviour
until a CHECK ends a client or events coalesce; `Converges` claims nothing beyond
that, since an announced action whose event is lost swallows the next change. Two
devices in `sync_trouble`: two changes and one trouble at any step, so that both
devices change the file at once, one changes it twice, a client ends and is started,
or an upload is repeated; a rash change and a start are not followed together
(`OneTrouble`). `sync_repeated` lets any events and uploads share a second.

Storage: memtables of one entry and three levels. `storage_ends` has two writers,
four writes of one key and two ends, the second one also inside recovery. A merge of
level 0 begins, and writers wait, at one file there, which recovery leaves as well:
so one writer waits for level 0 with another one queued behind it, and a flush falls
into the middle of a merge. `storage_reads` has a second key, so that ranges and
disjoint files matter, deletions, two writers, so that groups form, and a reader;
level 0 is merged at two files, and three writes flush, move, merge and drop
entries. A memtable that is pushed below level 0 in the middle of a merge needs two
keys and four writes, which is beyond both runs: that case of `LevelsDisjoint` is
covered by its theorem only. Threads, devices and contents are interchangeable where
the cfg says so and no temporal property is checked: symmetry.

The pipeline and delivery models do not deadlock: the server and the client run
until they are stopped, and a waiting queuer may always wake up spuriously. The
other models come to rest when the bounds on changes and writes are used up, where
the code only polls or waits, so their runs do not check for deadlock.

Fairness. Every thread that can step is scheduled (weak fairness of a pool thread,
a queuer, the poller, a handler, a deletion in progress, the head of the queue of
writers, a woken writer, the background thread, `DB::Open`). Nothing forces a
request, a change, a failure, a crash or a spurious wakeup. `delivery` and `events`
are about the time after the last failure: failures and crashes are bounded in
number. Nothing starts a client that has ended, so `EventuallyHandled` and
`EventuallyAcknowledged` are about clients that are up from some time on
(`StaysUp`).

## Proofs

All theorems are for any sets of threads, users, devices, files, contents, keys
and levels and any bounds, under the named assumptions of the modules.

`UpdatePipelineProofs`:

- `TypeCorrect`. The inductive invariant adds that a busy thread has a package
  and a busy queuer a tuple.
- `UpdatesHaveData`. A thread past `PutData` has its package stored, and stored
  hashes stay.
- `NoUpdateIsLost` and `OnlyRightRecipients` share one inductive invariant: the
  tuples owed are typed, and what a queuer still carries covers every recipient
  that was an editor's device when the update was queued. It needs that editors
  and devices are only ever added (`RecipientsGrow`).
- `OneQueuerFindsWork` assumes one queuer: nobody else empties the queue between
  the predicate and the lock. With the two queuers of `pipeline_pool` the step
  `TakeCheckFails` is taken, so the assumption is needed.

`UpdateDeliveryProofs`:

- `TypeCorrect`, `UpdatesNotLost`. The inductive invariant says what a handler
  holds (a key of its directory, still queued, handled before it is deleted),
  what the poller holds at each step, and that whatever is acknowledged, or still
  being deleted for an earlier request, is queued on the client or handled.
- `Implements`: `Spec => Promise!Spec`, one case per action.
- `HandledOncePerRun`: the bound of the promise, carried over.

`LocalEventsProofs`:

- `TypeCorrect`, `LockAlwaysFree`, `DeltasFitInOneRun` from `TInv`: a path is
  LOCKED only while the handler adds it; in the first run head file and hash
  differ only between their two writes.
- `NoChangeForgotten`. A change that is not uploaded has an event in one of five
  places, and an event is deleted from one place only when it is in the next or
  was handled (`PendingInv`). This is inductive only with two more facts: a key
  stands for one action wherever copies of it are, unless two events had the same
  second (`KeyInv`, `ActionInv`), and a hash that lags behind the server, after a
  crash, has an addition on its way, which does not compare the hash (`HashInv`).

`FileSyncTypesProofs` and `FileSyncProofs`:

- `TypeCorrect`. The maximum `RepeatUpload` and `Download` take must exist, so the
  invariant says who waits for an answer, and which updates have been uploaded.
- `IgnorableAlwaysQueued`, `ChangeAlwaysRead` from `SInv`: of the events after the
  one the handler is dealing with, each announced action has one, and an unread
  change has one that is not announced, or the second of its kind. Neither is
  inductive alone: `FirstLocal` consumes an event and an announced action together.

`StorageProofs`, `StorageTypesProofs`, `StorageLevelsProofs`:

- `FilesAlwaysExist`, `MemoryAlwaysOnDisk`, `TablesAlwaysKeep` from one invariant:
  what the manifest and the edit hold at each place of the background thread and
  of `DB::Open` (`Phases`), that numbers in use are below the counters on the disk
  and in memory (`Numbering`), and what is in memory is in a log or in the table
  being installed (`Memory`).
- `TypeCorrect`. The range of a table is a minimum and a maximum, which exist
  because all keys written so far are below some bound; the invariant carries it.
- `LevelsAlwaysDisjoint` from `LInv`: a table's range holds its keys; the inputs of
  a merge have no gap in their range, so a memtable flushed meanwhile to the level
  the outputs go to, which overlaps no input, does not overlap an output either.

What stays with TLC. Liveness (`NotifiedQueueDrains`, `EventuallyHandled`,
`EventuallyAcknowledged`, `UploadsCatchUp`, `WritesReturn`): the prover does not do
fairness and ENABLED. `Converges` and `EchoesDie`, which are about whole histories
of users who wait and hold for reasons spread over all of a handler's steps. The
refinement `IsDictionary`.

## Not modelled

- Registration of users, keys and directories (`RegisterUser`, `AssociateKey`,
  `GetKeyFromEmail`, `RegisterTopDir`) and the key cache of `Encryptor`: an
  interrupted registration finds the email taken when it is repeated
  (`client.cc:61`).
- `Queue`, which no program uses, code without a caller, stand-alone programs.
- Ciphers, compression and the computation of deltas: libraries.
- Naming and opening of database directories, the Mac branch of `Run`, threads
  started in constructors before their members are set, the watcher's map of
  watches, new directories below a top directory.
- The vendored libraries but for leveldb's core: they are most of the lines under
  `src/`, and Lockbox runs a small part of them.
