---------------------------- MODULE UpdatePipeline ----------------------------
(***************************************************************************)
(* The server's half of an update: the pool threads that run               *)
(* LockboxServiceHandler::UploadPackage, the UpdateQueuer thread that      *)
(* turns a queued update into one DEVICE_SYNC entry per device of every    *)
(* editor, the condition variable that connects them (struct Sync), and a  *)
(* crash of the server process, which keeps the leveldb databases only.    *)
(*                                                                         *)
(* One top directory is modelled: every database below belongs to it or is *)
(* indexed by its name.                                                    *)
(***************************************************************************)
EXTENDS Integers, FiniteSets

CONSTANTS
  Threads,      \* pool threads of the TNonblockingServer
  Queuers,      \* threads started with UpdateQueuer::Increment (server.cc: one)
  Users,        \* registered users
  Owner,        \* the user who registered the top directory
  Devices,      \* device ids handed out by RegisterDevice
  RelPaths,     \* GUIDs handed out by RegisterRelativePath
  DeviceUser,   \* the user each device is registered for
  Registrant,   \* the device whose HandleAddAction registers each GUID
  Kinds,        \* the packages clients send: "add" and "mod"
  EmptyHash,    \* data_sha1 of a package whose sender leaves it unset: ""
  Absent,       \* the value of a key a database does not hold
  MaxRequests,  \* bound on UploadPackage requests
  MaxClock,     \* bound on time(NULL)
  MaxCrashes    \* bound on crashes of the server process

ASSUME PipelineAssumption ==
  /\ Owner \in Users
  /\ DeviceUser \in [Devices -> Users]
  /\ Registrant \in [RelPaths -> Devices]
  /\ Kinds \subseteq {"add", "mod"}
  /\ EmptyHash \notin RelPaths
  /\ Absent \notin RelPaths \cup {EmptyHash, "none"}
  /\ "none" \notin RelPaths \cup {EmptyHash}
  /\ MaxRequests \in Nat /\ MaxClock \in Nat /\ MaxCrashes \in Nat

VARIABLES
  user_device,   \* USER_DEVICE: the devices registered so far
  editors,       \* TOP_DIR_META "EDITORS_*": the users who share the directory
  relpath,       \* TOP_DIR_RELPATH: GUID -> latest hash
  fptrs,         \* TOP_DIR_FPTRS: hash -> previous hash
  data,          \* TOP_DIR_DATA: hash -> package
  action_queue,  \* UPDATE_ACTION_QUEUE: the keys are the tuples
  action_log,    \* UPDATE_ACTION_LOG
  device_sync,   \* DEVICE_SYNC: entries device_guid -> tuple
  guids,         \* number of GUIDs Append has drawn
  clock,         \* time(NULL)
  requests,      \* number of upload requests received
  tpc, pkg, previous,              \* pool threads: pc, |pkg|, |previous|
  db_mutex,                        \* queuers holding Sync::db_mutex across steps
  qpc, tuple, user_ids, devices,   \* queuers: pc and locals of Run
  crashes,
  owed,          \* history: who an update was addressed to when it was queued
  lost           \* history: what queuers had in hand when the process ended

serverDB == <<user_device, editors, relpath, fptrs, data, action_queue,
              action_log, device_sync, guids>>
threadVars == <<tpc, pkg, previous>>
queuerVars == <<db_mutex, qpc, tuple, user_ids, devices>>
history == <<owed, lost>>
vars == <<serverDB, threadVars, queuerVars, clock, requests, crashes, history>>

-----------------------------------------------------------------------------
(* Data *)

\* A new file's package is encrypted with EncryptString, which sets data_sha1 to
\* the hash of the ciphertext: one new hash per GUID, named here by the GUID.
\* HandleModAction calls EncryptInternal and leaves data_sha1 empty.
Hash == RelPaths \cup {EmptyHash}
Head == Hash \cup {"none", Absent}
Package == [rel_path_id : RelPaths, device : Devices, kind : {"add", "mod"}]
ASSUME AbsentIsNoPackage == Absent \notin Package

data_sha1(p) == IF p.kind = "add" THEN p.rel_path_id ELSE EmptyHash

\* ts_topdir_relpath_device_hash
Tuple == [ts : Nat, rel_path : RelPaths, device : Devices, hash : Hash]

DevicesOf(u) == {d \in user_device : DeviceUser[d] = u}
Recipients(uploader) ==
  {d \in user_device : DeviceUser[d] \in editors /\ d # uploader}

NoOne == {}
Sleepers == {q \in Queuers : qpc[q] = "asleep"}

Init ==
  /\ user_device \in {S \in SUBSET Devices : \E d \in S : DeviceUser[d] = Owner}
  /\ editors = {Owner}
  /\ relpath = [r \in RelPaths |-> Absent]
  /\ fptrs = [h \in Hash |-> Absent]
  /\ data = [h \in Hash |-> Absent]
  /\ action_queue = {} /\ action_log = {} /\ device_sync = {} /\ guids = 0
  /\ clock = 0 /\ requests = 0 /\ crashes = 0 /\ owed = {} /\ lost = {}
  /\ tpc = [t \in Threads |-> "idle"]
  /\ pkg = [t \in Threads |-> Absent]
  /\ previous = [t \in Threads |-> Absent]
  /\ db_mutex = NoOne
  /\ qpc = [q \in Queuers |-> "check"]
  /\ tuple = [q \in Queuers |-> Absent]
  /\ user_ids = [q \in Queuers |-> {}]
  /\ devices = [q \in Queuers |-> {}]

-----------------------------------------------------------------------------
(* Registration requests the pipeline depends on *)

RegisterDevice(d) ==
  /\ d \notin user_device
  /\ user_device' = user_device \cup {d}
  /\ UNCHANGED <<editors, relpath, fptrs, data, action_queue, action_log,
                 device_sync, guids, threadVars, queuerVars, clock, requests,
                 crashes, history>>

\* AddEmailToTopDir for a registered user.
ShareTopDir(u) ==
  /\ u \notin editors
  /\ editors' = editors \cup {u}
  /\ UNCHANGED <<user_device, relpath, fptrs, data, action_queue, action_log,
                 device_sync, guids, threadVars, queuerVars, clock, requests,
                 crashes, history>>

RegisterRelativePath(r) ==
  /\ Registrant[r] \in user_device
  /\ relpath[r] = Absent
  /\ relpath' = [relpath EXCEPT ![r] = "none"]
  /\ UNCHANGED <<user_device, editors, fptrs, data, action_queue, action_log,
                 device_sync, guids, threadVars, queuerVars, clock, requests,
                 crashes, history>>

Tick ==
  /\ clock < MaxClock
  /\ clock' = clock + 1
  /\ UNCHANGED <<serverDB, threadVars, queuerVars, requests, crashes, history>>

-----------------------------------------------------------------------------
(* UploadPackage, one step per database call *)

\* The requests clients send: a new file comes from the device that registered
\* its GUID, a modification from any device that knows the GUID.  The same
\* package may come again: Client::Exec retries when it sees no reply.
MayUpload(p) ==
  /\ p.kind \in Kinds
  /\ p.device \in user_device /\ DeviceUser[p.device] \in editors
  /\ relpath[p.rel_path_id] # Absent
  /\ \/ p.device = Registrant[p.rel_path_id]
     \/ /\ p.kind = "mod"
        /\ \E e \in device_sync : /\ e.device = p.device
                                  /\ e.tuple.rel_path = p.rel_path_id

Receive(t, p) ==
  /\ requests < MaxRequests
  /\ tpc[t] = "idle"
  /\ MayUpload(p)
  /\ requests' = requests + 1
  /\ tpc' = [tpc EXCEPT ![t] = "get_previous"]
  /\ pkg' = [pkg EXCEPT ![t] = p]
  /\ UNCHANGED <<serverDB, previous, queuerVars, clock, crashes, history>>

GetPrevious(t) ==
  /\ tpc[t] = "get_previous"
  /\ previous' = [previous EXCEPT ![t] = relpath[pkg[t].rel_path_id]]
  /\ tpc' = [tpc EXCEPT ![t] = "put_head"]
  /\ UNCHANGED <<serverDB, pkg, queuerVars, clock, requests, crashes, history>>

PutHead(t) ==
  /\ tpc[t] = "put_head"
  /\ relpath' = [relpath EXCEPT ![pkg[t].rel_path_id] = data_sha1(pkg[t])]
  /\ tpc' = [tpc EXCEPT ![t] = "put_fptrs"]
  /\ UNCHANGED <<user_device, editors, fptrs, data, action_queue, action_log,
                 device_sync, guids, pkg, previous, queuerVars, clock,
                 requests, crashes, history>>

\* Variant: the update is queued without the package having been stored.
PutFptrsSkipData(t) ==
  /\ tpc[t] = "put_fptrs"
  /\ fptrs' = [fptrs EXCEPT ![data_sha1(pkg[t])] = previous[t]]
  /\ tpc' = [tpc EXCEPT ![t] = "put_queue"]
  /\ UNCHANGED <<user_device, editors, relpath, data, action_queue, action_log,
                 device_sync, guids, pkg, previous, queuerVars, clock,
                 requests, crashes, history>>

PutFptrs(t) ==
  /\ tpc[t] = "put_fptrs"
  /\ fptrs' = [fptrs EXCEPT ![data_sha1(pkg[t])] = previous[t]]
  /\ tpc' = [tpc EXCEPT ![t] = "put_data"]
  /\ UNCHANGED <<user_device, editors, relpath, data, action_queue, action_log,
                 device_sync, guids, pkg, previous, queuerVars, clock,
                 requests, crashes, history>>

PutData(t) ==
  /\ tpc[t] = "put_data"
  /\ data' = [data EXCEPT ![data_sha1(pkg[t])] = pkg[t]]
  /\ tpc' = [tpc EXCEPT ![t] = "put_queue"]
  /\ UNCHANGED <<user_device, editors, relpath, fptrs, action_queue,
                 action_log, device_sync, guids, pkg, previous, queuerVars,
                 clock, requests, crashes, history>>

\* Variant: two parts of the key are swapped.
UpdateTupleSwapped(p) ==
  [ts |-> clock, rel_path |-> p.device, device |-> p.rel_path_id,
   hash |-> data_sha1(p)]

UpdateTuple(p) ==
  [ts |-> clock, rel_path |-> p.rel_path_id, device |-> p.device,
   hash |-> data_sha1(p)]

\* The whole section under db_mutex.
PutQueue(t) ==
  LET u == UpdateTuple(pkg[t]) IN
  /\ tpc[t] = "put_queue"
  /\ db_mutex = NoOne
  /\ action_queue' = action_queue \cup {u}
  /\ owed' = owed \cup {[tuple |-> u, device |-> d, since |-> guids] :
                           d \in Recipients(u.device)}
  /\ tpc' = [tpc EXCEPT ![t] = "notify"]
  /\ UNCHANGED <<user_device, editors, relpath, fptrs, data, action_log,
                 device_sync, guids, pkg, previous, queuerVars, clock,
                 requests, crashes, lost>>

\* Variant: the notification is forgotten.
NotifyNobody(t) ==
  /\ tpc[t] = "notify"
  /\ tpc' = [tpc EXCEPT ![t] = "idle"]
  /\ UNCHANGED <<serverDB, pkg, previous, queuerVars, clock, requests, crashes,
                 history>>

\* cv.notify_one(), cv_mutex not held: without a sleeper it has no effect.
Notify(t) ==
  /\ tpc[t] = "notify"
  /\ \/ \E q \in Sleepers : qpc' = [qpc EXCEPT ![q] = "check"]
     \/ Sleepers = {} /\ UNCHANGED qpc
  /\ tpc' = [tpc EXCEPT ![t] = "idle"]
  /\ UNCHANGED <<serverDB, pkg, previous, db_mutex, tuple, user_ids, devices,
                 clock, requests, crashes, history>>

-----------------------------------------------------------------------------
(* UpdateQueuer::Run *)

\* The predicate of cv.wait, DBEmpty, reads the queue under db_mutex.
CheckEmpty(q) ==
  /\ qpc[q] = "check"
  /\ db_mutex = NoOne
  /\ qpc' = [qpc EXCEPT ![q] = IF action_queue = {} THEN "block" ELSE "take"]
  /\ UNCHANGED <<serverDB, threadVars, db_mutex, tuple, user_ids, devices,
                 clock, requests, crashes, history>>

\* The thread becomes a waiter of the condition variable, a step after the
\* predicate was found false.
Block(q) ==
  /\ qpc[q] = "block"
  /\ qpc' = [qpc EXCEPT ![q] = "asleep"]
  /\ UNCHANGED <<serverDB, threadVars, db_mutex, tuple, user_ids, devices,
                 clock, requests, crashes, history>>

\* Variant: cv.wait without a predicate.
WakeupUnchecked(q) ==
  /\ qpc[q] = "asleep"
  /\ qpc' = [qpc EXCEPT ![q] = "take"]
  /\ UNCHANGED <<serverDB, threadVars, db_mutex, tuple, user_ids, devices,
                 clock, requests, crashes, history>>

SpuriousWakeup(q) ==
  /\ qpc[q] = "asleep"
  /\ qpc' = [qpc EXCEPT ![q] = "check"]
  /\ UNCHANGED <<serverDB, threadVars, db_mutex, tuple, user_ids, devices,
                 clock, requests, crashes, history>>

\* The queue's keys are ordered by timestamp, then by GUIDs, which are random,
\* then by hash: the empty hash of a modification comes before any other.
IsFirst(u) ==
  \A v \in action_queue :
     \/ u.ts < v.ts
     \/ /\ u.ts = v.ts
        /\ <<u.rel_path, u.device>> # <<v.rel_path, v.device>>
             \/ u.hash = EmptyHash \/ u = v

\* db_lock.lock(), read the first key, write the log.
Take(q) ==
  /\ qpc[q] = "take"
  /\ db_mutex = NoOne
  /\ \E u \in action_queue :
       /\ IsFirst(u)
       /\ tuple' = [tuple EXCEPT ![q] = u]
       /\ action_log' = action_log \cup {u}
  /\ db_mutex' = {q}
  /\ qpc' = [qpc EXCEPT ![q] = "delete"]
  /\ UNCHANGED <<user_device, editors, relpath, fptrs, data, action_queue,
                 device_sync, guids, threadVars, user_ids, devices, clock,
                 requests, crashes, history>>

\* Delete the key and db_lock.unlock().
DeleteFromQueue(q) ==
  /\ qpc[q] = "delete"
  /\ action_queue' = action_queue \ {tuple[q]}
  /\ db_mutex' = NoOne
  /\ qpc' = [qpc EXCEPT ![q] = "editors"]
  /\ UNCHANGED <<user_device, editors, relpath, fptrs, data, action_log,
                 device_sync, guids, threadVars, tuple, user_ids, devices,
                 clock, requests, crashes, history>>

\* GetList of the EDITORS, and the user id of each.
ReadEditors(q) ==
  /\ qpc[q] = "editors"
  /\ user_ids' = [user_ids EXCEPT ![q] = editors]
  /\ qpc' = [qpc EXCEPT ![q] = "fan_out"]
  /\ UNCHANGED <<serverDB, threadVars, db_mutex, tuple, devices, clock,
                 requests, crashes, history>>

\* Variant: "break" in place of "continue" at the uploading device.
ReadDevicesBreak(q, u) ==
  /\ qpc[q] = "fan_out"
  /\ devices[q] = {}
  /\ u \in user_ids[q]
  /\ DevicesOf(u) # {}
  /\ user_ids' = [user_ids EXCEPT ![q] = @ \ {u}]
  /\ devices' = [devices EXCEPT ![q] =
                   IF tuple[q].device \in DevicesOf(u) THEN {} ELSE DevicesOf(u)]
  /\ UNCHANGED <<serverDB, threadVars, db_mutex, qpc, tuple, clock, requests,
                 crashes, history>>

\* Variant: the uploading device is not skipped.
ReadDevicesAll(q, u) ==
  /\ qpc[q] = "fan_out"
  /\ devices[q] = {}
  /\ u \in user_ids[q]
  /\ DevicesOf(u) # {}
  /\ user_ids' = [user_ids EXCEPT ![q] = @ \ {u}]
  /\ devices' = [devices EXCEPT ![q] = DevicesOf(u)]
  /\ UNCHANGED <<serverDB, threadVars, db_mutex, qpc, tuple, clock, requests,
                 crashes, history>>

\* GetList of the USER_DEVICE entries of the next user; CHECKed not to be empty.
ReadDevices(q, u) ==
  /\ qpc[q] = "fan_out"
  /\ devices[q] = {}
  /\ u \in user_ids[q]
  /\ DevicesOf(u) # {}
  /\ user_ids' = [user_ids EXCEPT ![q] = @ \ {u}]
  /\ devices' = [devices EXCEPT ![q] = DevicesOf(u) \ {tuple[q].device}]
  /\ UNCHANGED <<serverDB, threadVars, db_mutex, qpc, tuple, clock, requests,
                 crashes, history>>

AppendDeviceSync(q, d) ==
  /\ qpc[q] = "fan_out"
  /\ d \in devices[q]
  /\ guids' = guids + 1
  /\ device_sync' = device_sync \cup
                      {[guid |-> guids + 1, device |-> d, tuple |-> tuple[q]]}
  /\ devices' = [devices EXCEPT ![q] = @ \ {d}]
  /\ UNCHANGED <<user_device, editors, relpath, fptrs, data, action_queue,
                 action_log, threadVars, db_mutex, qpc, tuple, user_ids, clock,
                 requests, crashes, history>>

\* The end of the loop body; then cv.wait evaluates its predicate again.
EndOfLoop(q) ==
  /\ qpc[q] = "fan_out"
  /\ devices[q] = {} /\ user_ids[q] = {}
  /\ qpc' = [qpc EXCEPT ![q] = "check"]
  /\ UNCHANGED <<serverDB, threadVars, db_mutex, tuple, user_ids, devices,
                 clock, requests, crashes, history>>

-----------------------------------------------------------------------------
(* The end of the server process, by a crash or by a failed CHECK, and its   *)
(* restart: requests in progress are gone, Run starts again.                 *)

\* A queuer has still to append the update for this device.
Carries(q, o) ==
  /\ tuple[q] = o.tuple
  /\ \/ qpc[q] \in {"delete", "editors"}
     \/ /\ qpc[q] = "fan_out"
        /\ o.device \in devices[q] \/ DeviceUser[o.device] \in user_ids[q]

Carried(o) == \E q \in Queuers : Carries(q, o)

Delivered(o) ==
  \E e \in device_sync :
     e.tuple = o.tuple /\ e.device = o.device /\ e.guid > o.since

Restart ==
  /\ crashes' = crashes + 1
  /\ tpc' = [t \in Threads |-> "idle"]
  /\ pkg' = [t \in Threads |-> Absent]
  /\ previous' = [t \in Threads |-> Absent]
  /\ db_mutex' = NoOne
  /\ qpc' = [q \in Queuers |-> "check"]
  /\ tuple' = [q \in Queuers |-> Absent]
  /\ user_ids' = [q \in Queuers |-> {}]
  /\ devices' = [q \in Queuers |-> {}]
  /\ lost' = lost \cup {o \in owed : Carried(o) /\ o.tuple \notin action_queue}
  /\ UNCHANGED <<serverDB, clock, requests, owed>>

Crash == crashes < MaxCrashes /\ Restart

\* CHECK(it->Valid()) fails.
TakeCheckFails(q) ==
  /\ qpc[q] = "take" /\ db_mutex = NoOne
  /\ action_queue = {}
  /\ Restart

\* CHECK(dbm_->GetList(USER_DEVICE, user)) fails: an editor has no device.
DevicesCheckFails(q, u) ==
  /\ qpc[q] = "fan_out" /\ devices[q] = {}
  /\ u \in user_ids[q]
  /\ DevicesOf(u) = {}
  /\ Restart

-----------------------------------------------------------------------------
ThreadStep(t) ==
  \/ GetPrevious(t) \/ PutHead(t) \/ PutFptrs(t) \/ PutData(t)
  \/ PutQueue(t) \/ Notify(t)

QueuerStep(q) ==
  \/ CheckEmpty(q) \/ Block(q) \/ Take(q) \/ DeleteFromQueue(q)
  \/ ReadEditors(q) \/ EndOfLoop(q) \/ TakeCheckFails(q)
  \/ \E u \in Users : ReadDevices(q, u) \/ DevicesCheckFails(q, u)
  \/ \E d \in Devices : AppendDeviceSync(q, d)

Environment ==
  \/ \E d \in Devices : RegisterDevice(d)
  \/ \E u \in Users : ShareTopDir(u)
  \/ \E r \in RelPaths : RegisterRelativePath(r)
  \/ \E t \in Threads, p \in Package : Receive(t, p)
  \/ \E q \in Queuers : SpuriousWakeup(q)
  \/ Tick
  \/ Crash

Next ==
  \/ Environment
  \/ \E t \in Threads : ThreadStep(t)
  \/ \E q \in Queuers : QueuerStep(q)

Spec == Init /\ [][Next]_vars

\* The operating system schedules every thread; nothing forces a request, a
\* crash or a spurious wakeup.
Fairness ==
  /\ \A t \in Threads : WF_vars(ThreadStep(t))
  /\ \A q \in Queuers : WF_vars(QueuerStep(q))

FairSpec == Spec /\ Fairness
-----------------------------------------------------------------------------
(* Properties *)

Entry == [guid : Nat, device : Devices, tuple : Tuple]
Owed == [tuple : Tuple, device : Devices, since : Nat]
UploadPc == {"put_head", "put_fptrs", "put_data", "put_queue", "notify"}

\* The databases, the program counters and the locals of pool threads and
\* queuers keep their types.
TypeOK ==
  /\ user_device \subseteq Devices /\ editors \subseteq Users
  /\ relpath \in [RelPaths -> Head]
  /\ fptrs \in [Hash -> Head]
  /\ data \in [Hash -> Package \cup {Absent}]
  /\ action_queue \subseteq Tuple /\ action_log \subseteq Tuple
  /\ device_sync \subseteq Entry
  /\ guids \in Nat /\ clock \in Nat /\ requests \in Nat /\ crashes \in Nat
  /\ tpc \in [Threads -> UploadPc \cup {"idle", "get_previous"}]
  /\ pkg \in [Threads -> Package \cup {Absent}]
  /\ previous \in [Threads -> Head]
  /\ db_mutex \subseteq Queuers
  /\ qpc \in [Queuers -> {"check", "block", "asleep", "take", "delete",
                          "editors", "fan_out"}]
  /\ tuple \in [Queuers -> Tuple \cup {Absent}]
  /\ user_ids \in [Queuers -> SUBSET Users]
  /\ devices \in [Queuers -> SUBSET Devices]
  /\ owed \subseteq Owed /\ lost \subseteq Owed

\* UploadPackage and UpdateQueuer::Run together lose no update: whoever was to
\* receive it when it was queued has it in DEVICE_SYNC, or it is still in the
\* persistent queue or in the hands of a queuer.  Sharing and device
\* registration may race with the fan-out.  When the server process ends, at
\* most what a queuer had already taken off the queue is lost.
NoUpdateLost ==
  \A o \in owed :
     o.tuple \in action_queue \/ Carried(o) \/ Delivered(o) \/ o \in lost

\* UploadPackage stores the package before it queues the update, so a device
\* that is told of a hash can always download it, also after a crash.
UpdateHasData ==
  \A u \in action_queue \cup action_log \cup {e.tuple : e \in device_sync} :
     data[u.hash] # Absent

\* DEVICE_SYNC only ever names registered devices of editors, never the device
\* that uploaded the update, whatever is shared or registered meanwhile.
RightRecipients ==
  \A e \in device_sync : e.device \in Recipients(e.tuple.device)

\* CHECK(it->Valid()) of UpdateQueuer::Run: the queue that the predicate of
\* cv.wait saw non-empty is still non-empty when the thread has the lock.
QueuerFindsWork ==
  \A q \in Queuers : qpc[q] = "take" /\ db_mutex = {} => action_queue # {}

\* A notification that finds the queuer asleep makes it empty the queue,
\* updates queued by others meanwhile and restarts included.
NotifiedQueueDrains ==
  (Sleepers # {} /\ \E t \in Threads : tpc[t] = "notify")
     ~> (action_queue = {})

\* What "Cloud needs to update the appropriate user's update queues"
\* (file_event_queue_handler.cc) asks of the queuer: it gets to every update.
QueueDrains == (action_queue # {}) ~> (action_queue = {})

\* lockbox.thrift on UPDATE_ACTION_LOG, "for creation -> completion": an update
\* in the log is completed, unless it is still queued or being fanned out.
LoggedUpdatesComplete ==
  \A o \in owed : o.tuple \in action_log \ action_queue
                     => Carried(o) \/ Delivered(o)
=============================================================================
