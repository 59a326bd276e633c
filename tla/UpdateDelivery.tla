---------------------------- MODULE UpdateDelivery ----------------------------
(***************************************************************************)
(* An update on its way from the server's DEVICE_SYNC database to the      *)
(* handler of its top directory on one device: UpdateFromServer::Run polls *)
(* the entries, appends them to UPDATE_QUEUE_SERVER and has the server     *)
(* delete them; FileEventQueueHandler::Run takes them from there.  Both    *)
(* remote calls go through Client::Exec, which tries three times; the      *)
(* connection may break before or after the server has seen a request, and *)
(* either process may end at any step and be started again.  A CHECK that  *)
(* fails while an update is handled ends the client before the update's    *)
(* key is deleted, so that the next run meets the same key first.          *)
(***************************************************************************)
EXTENDS Integers

CONSTANTS
  Entries,     \* DEVICE_SYNC entries addressed to the device
  TopDirs,     \* top directories of the device's user
  TopDirOf,    \* the top directory named in each entry's tuple
  KeyOrder,    \* order of the entries' keys in UPDATE_QUEUE_SERVER
  Addition,    \* the entry that adds the file an entry modifies; None when the
               \* entry adds the file itself or the file is the device's own
  None,
  MaxFailures, \* bound on connections that break
  MaxCrashes,  \* bound on crashes of the client and of the server
  MaxStarts    \* bound on starts of the client after the first

kNumTransportAttempts == 3

ASSUME DeliveryAssumption ==
  /\ TopDirOf \in [Entries -> TopDirs]
  /\ KeyOrder \in [Entries -> Nat]
  /\ Addition \in [Entries -> Entries \cup {None}]
  /\ None \notin Entries
  /\ MaxFailures \in Nat /\ MaxCrashes \in Nat /\ MaxStarts \in Nat

VARIABLES
  shared,       \* server, USER_TOP_DIR: the user's top directories
  device_sync,  \* server, DEVICE_SYNC: entries of the device
  deleting,     \* server: keys that PersistedUpdates has still to delete
  tracked,      \* client: top directories whose databases are open
  pc, updates, updates_persisted,   \* client: UpdateFromServer::Run
  attempts,                         \* client: failed attempts of its Exec
  update_queue_server,  \* client, UPDATE_QUEUE_SERVER: copies of an entry
  known,                \* client, RELPATH_ID_LOCATION: files with a path
  hpc, key,             \* client: FileEventQueueHandler::Run per directory
  failures, crashes,
  sent, handled, ends   \* history: entries written, times an entry was
                        \* handled, ends of the client process

serverVars == <<shared, device_sync, deleting>>
pollVars == <<pc, updates, updates_persisted, attempts>>
handlerVars == <<known, hpc, key>>
vars == <<serverVars, tracked, pollVars, update_queue_server, handlerVars,
          failures, crashes, sent, handled, ends>>

Init ==
  /\ shared \in SUBSET TopDirs
  /\ device_sync = {} /\ deleting = {}
  /\ tracked = shared
  /\ pc = "poll" /\ updates = {} /\ updates_persisted = {} /\ attempts = 0
  /\ update_queue_server = [e \in Entries |-> 0]
  /\ known = {}
  /\ hpc = [t \in TopDirs |-> "first"]
  /\ key = [t \in TopDirs |-> None]
  /\ failures = 0 /\ crashes = 0
  /\ sent = {} /\ handled = [e \in Entries |-> 0] /\ ends = 0

-----------------------------------------------------------------------------
(* The server *)

ShareTopDir(t) ==
  /\ shared' = shared \cup {t}
  /\ UNCHANGED <<device_sync, deleting, tracked, pollVars, update_queue_server,
                 handlerVars, failures, crashes, sent, handled, ends>>

\* UpdateQueuer::Run appends an entry; a user becomes an editor of a directory
\* only after the directory is in the user's list.
AppendDeviceSync(e) ==
  /\ e \notin sent
  /\ TopDirOf[e] \in shared
  /\ device_sync' = device_sync \cup {e}
  /\ sent' = sent \cup {e}
  /\ UNCHANGED <<shared, deleting, tracked, pollVars, update_queue_server,
                 handlerVars, failures, crashes, handled, ends>>

\* One Delete of the loop in PersistedUpdates.  The pool thread goes on when the
\* client gives up, so keys of several requests may be left to delete.
DeleteDeviceSync(e) ==
  /\ e \in deleting
  /\ deleting' = deleting \ {e}
  /\ device_sync' = device_sync \ {e}
  /\ UNCHANGED <<shared, tracked, pollVars, update_queue_server, handlerVars,
                 failures, crashes, sent, handled, ends>>

ServerCrash ==
  /\ crashes < MaxCrashes
  /\ crashes' = crashes + 1
  /\ deleting' = {}
  /\ UNCHANGED <<shared, device_sync, tracked, pollVars, update_queue_server,
                 handlerVars, failures, sent, handled, ends>>

-----------------------------------------------------------------------------
(* The client process: Client::Start opens the databases of every directory
   the server lists.  The process ends by a crash or a failed CHECK.          *)

Ended == pc = "ended"

Start ==
  /\ Ended
  /\ ends <= MaxStarts
  /\ tracked' = shared
  /\ pc' = "poll"
  /\ UNCHANGED <<serverVars, updates, updates_persisted, attempts,
                 update_queue_server, handlerVars, failures, crashes, sent,
                 handled, ends>>

End ==
  /\ ~Ended
  /\ ends' = ends + 1
  /\ pc' = "ended" /\ updates' = {} /\ updates_persisted' = {} /\ attempts' = 0
  /\ hpc' = [t \in TopDirs |-> "first"]
  /\ key' = [t \in TopDirs |-> None]
  /\ UNCHANGED <<serverVars, tracked, update_queue_server, known, sent, handled>>

ClientCrash ==
  /\ crashes < MaxCrashes
  /\ crashes' = crashes + 1
  /\ End
  /\ UNCHANGED failures

-----------------------------------------------------------------------------
(* UpdateFromServer::Run *)

\* Variant: the updates are acknowledged when they are received.
PollAcknowledges ==
  /\ pc = "poll"
  /\ updates' = {} /\ updates_persisted' = device_sync
  /\ attempts' = 0
  /\ pc' = IF device_sync = {} THEN "poll" ELSE "ack"
  /\ UNCHANGED <<serverVars, tracked, update_queue_server, handlerVars,
                 failures, crashes, sent, handled, ends>>

\* PollForUpdates answers.  Without updates the thread sleeps and polls again.
PollForUpdates ==
  /\ pc = "poll"
  /\ updates' = device_sync
  /\ attempts' = 0
  /\ pc' = IF device_sync = {} THEN "poll" ELSE "persist"
  /\ UNCHANGED <<serverVars, tracked, updates_persisted, update_queue_server,
                 handlerVars, failures, crashes, sent, handled, ends>>

\* Any other exception: sleep(7) and continue.
PollException ==
  /\ pc = "poll"
  /\ attempts' = 0
  /\ UNCHANGED <<serverVars, tracked, pc, updates, updates_persisted,
                 update_queue_server, handlerVars, failures, crashes, sent,
                 handled, ends>>

\* A key of |updates| that PersistedUpdates has to be told of, in the order of
\* the keys, which are random GUIDs.
Append(e) ==
  /\ pc = "persist"
  /\ e \in updates
  /\ TopDirOf[e] \in tracked
  /\ update_queue_server' = [update_queue_server EXCEPT ![e] = @ + 1]
  /\ updates' = updates \ {e}
  /\ updates_persisted' = updates_persisted \cup {e}
  /\ pc' = IF updates = {e} THEN "ack" ELSE "persist"
  /\ UNCHANGED <<serverVars, tracked, attempts, handlerVars, failures, crashes,
                 sent, handled, ends>>

\* CHECK(iter != db_map_.end()): the directory was shared after Client::Start.
AppendCheckFails(e) ==
  /\ pc = "persist"
  /\ e \in updates
  /\ TopDirOf[e] \notin tracked
  /\ End
  /\ UNCHANGED <<failures, crashes>>

\* The request reaches the server.
PersistedUpdates ==
  /\ pc = "ack"
  /\ deleting' = deleting \cup updates_persisted
  /\ pc' = "wait"
  /\ UNCHANGED <<shared, device_sync, tracked, updates, updates_persisted,
                 attempts, update_queue_server, handlerVars, failures, crashes,
                 sent, handled, ends>>

\* Variant: a oneway call, which does not wait for the server.
ReturnsAtOnce ==
  /\ pc = "wait"
  /\ pc' = "poll"
  /\ updates_persisted' = {}
  /\ attempts' = 0
  /\ UNCHANGED <<serverVars, tracked, updates, update_queue_server,
                 handlerVars, failures, crashes, sent, handled, ends>>

\* Variant: the server answers when the device's list is empty.
ReturnsWhenEmpty ==
  /\ pc = "wait"
  /\ device_sync = {}
  /\ pc' = "poll"
  /\ updates_persisted' = {}
  /\ attempts' = 0
  /\ UNCHANGED <<serverVars, tracked, updates, update_queue_server,
                 handlerVars, failures, crashes, sent, handled, ends>>

\* The answer reaches the client once every key is deleted.
PersistedUpdatesReturns ==
  /\ pc = "wait"
  /\ updates_persisted \cap device_sync = {}
  /\ pc' = "poll"
  /\ updates_persisted' = {}
  /\ attempts' = 0
  /\ UNCHANGED <<serverVars, tracked, updates, update_queue_server,
                 handlerVars, failures, crashes, sent, handled, ends>>

\* The server process that had the request is gone.
NoAnswer == pc = "wait" /\ ~(updates_persisted \cap device_sync \subseteq deleting)

\* A TTransportException in Exec: try again, until CHECK(attempts < 3) fails.
TransportFailure ==
  /\ pc \in {"poll", "ack", "wait"}
  /\ IF NoAnswer THEN UNCHANGED failures
     ELSE failures < MaxFailures /\ failures' = failures + 1
  /\ \/ /\ attempts + 1 < kNumTransportAttempts
        /\ attempts' = attempts + 1
        /\ pc' = IF pc = "wait" THEN "ack" ELSE pc
        /\ UNCHANGED <<serverVars, tracked, updates, updates_persisted,
                       update_queue_server, handlerVars, sent, handled, ends>>
     \/ /\ attempts + 1 = kNumTransportAttempts
        /\ End
  /\ UNCHANGED crashes

-----------------------------------------------------------------------------
(* FileEventQueueHandler::Run, its branch for the server's updates *)

First(t) ==
  /\ ~Ended
  /\ t \in tracked
  /\ hpc[t] = "first"
  /\ \E e \in Entries :
       /\ TopDirOf[e] = t /\ update_queue_server[e] > 0
       /\ \A f \in Entries : TopDirOf[f] = t /\ update_queue_server[f] > 0
                                => KeyOrder[e] <= KeyOrder[f]
       /\ key' = [key EXCEPT ![t] = e]
  /\ hpc' = [hpc EXCEPT ![t] = "handle"]
  /\ UNCHANGED <<serverVars, tracked, pollVars, update_queue_server, known,
                 failures, crashes, sent, handled, ends>>

\* The file the first key is about has a local path, or the package is the
\* snapshot of a new file, whose path is stored.
HandleRemoteAction(t) ==
  /\ hpc[t] = "handle"
  /\ Addition[key[t]] \in known \cup {None}
  /\ known' = IF Addition[key[t]] = None THEN known \cup {key[t]} ELSE known
  /\ hpc' = [hpc EXCEPT ![t] = "write"]
  /\ UNCHANGED <<serverVars, tracked, pollVars, update_queue_server, key,
                 failures, crashes, sent, handled, ends>>

\* The file has no local path: CHECK(package.type == PackageType::SNAPSHOT) fails
\* for a delta, and the path of a snapshot may not decrypt.
RemoteAddCheckFails(t) ==
  /\ hpc[t] = "handle"
  /\ Addition[key[t]] \notin known
  /\ key[t] \notin known
  /\ End
  /\ UNCHANGED <<failures, crashes>>

\* All three attempts of DownloadPackage fail.
DownloadCheckFails(t) ==
  /\ hpc[t] = "handle"
  /\ failures + kNumTransportAttempts <= MaxFailures
  /\ failures' = failures + kNumTransportAttempts
  /\ End
  /\ UNCHANGED crashes

\* Variant: the key is deleted before its update is handled, and after.
WriteDeletes(t) ==
  /\ hpc[t] = "write"
  /\ handled' = [handled EXCEPT ![key[t]] = @ + 1]
  /\ update_queue_server' = [update_queue_server EXCEPT ![key[t]] = @ - 1]
  /\ hpc' = [hpc EXCEPT ![t] = "delete"]
  /\ UNCHANGED <<serverVars, tracked, pollVars, known, key, failures, crashes,
                 sent, ends>>

\* Variant: an error path returns without having handled the update.
WriteGivesUp(t) ==
  /\ hpc[t] = "write"
  /\ hpc' = [hpc EXCEPT ![t] = "delete"]
  /\ UNCHANGED <<serverVars, tracked, pollVars, update_queue_server, known, key,
                 failures, crashes, sent, handled, ends>>

\* The action is announced, the file written and its head stored.
WriteFile(t) ==
  /\ hpc[t] = "write"
  /\ handled' = [handled EXCEPT ![key[t]] = @ + 1]
  /\ hpc' = [hpc EXCEPT ![t] = "delete"]
  /\ UNCHANGED <<serverVars, tracked, pollVars, update_queue_server, known, key,
                 failures, crashes, sent, ends>>

\* SetIgnorableAction's CHECK, which depends on events of the file that FileSync
\* models, or one of the write's: here any of them may fail.
WriteCheckFails(t) ==
  /\ hpc[t] = "write"
  /\ End
  /\ UNCHANGED <<failures, crashes>>

\* Variant: the key is not deleted.
DeleteForgotten(t) ==
  /\ hpc[t] = "delete" /\ handled[key[t]] < 2
  /\ hpc' = [hpc EXCEPT ![t] = "first"]
  /\ UNCHANGED <<serverVars, tracked, pollVars, update_queue_server, known, key,
                 failures, crashes, sent, handled, ends>>

Delete(t) ==
  /\ hpc[t] = "delete"
  /\ update_queue_server' = [update_queue_server EXCEPT ![key[t]] = @ - 1]
  /\ hpc' = [hpc EXCEPT ![t] = "first"]
  /\ UNCHANGED <<serverVars, tracked, pollVars, known, key, failures, crashes,
                 sent, handled, ends>>

-----------------------------------------------------------------------------
PollerStep ==
  \/ PollForUpdates \/ PersistedUpdates \/ PersistedUpdatesReturns
  \/ \E e \in Entries : Append(e) \/ AppendCheckFails(e)
  \/ NoAnswer /\ TransportFailure

HandlerStep(t) ==
  \/ First(t) \/ HandleRemoteAction(t) \/ RemoteAddCheckFails(t)
  \/ WriteFile(t) \/ WriteCheckFails(t) \/ Delete(t)

Next ==
  \/ \E t \in TopDirs :
        ShareTopDir(t) \/ HandlerStep(t) \/ DownloadCheckFails(t)
  \/ \E e \in Entries : AppendDeviceSync(e) \/ DeleteDeviceSync(e)
  \/ PollerStep \/ PollException \/ TransportFailure
  \/ ServerCrash \/ ClientCrash \/ Start

Spec == Init /\ [][Next]_vars

\* The client's threads and the server's pool thread are scheduled, a request
\* whose server is gone is noticed; nothing forces a failure, a crash or that the
\* user starts an ended client again.
Fairness ==
  /\ WF_vars(PollerStep)
  /\ \A t \in TopDirs : WF_vars(HandlerStep(t))
  /\ \A e \in Entries : WF_vars(DeleteDeviceSync(e))

FairSpec == Spec /\ Fairness
-----------------------------------------------------------------------------
(* Properties *)

\* The server's lists, the client's databases and the locals of its threads keep
\* their types; no key is deleted from UPDATE_QUEUE_SERVER that is not there.
TypeOK ==
  /\ shared \subseteq TopDirs /\ tracked \subseteq TopDirs
  /\ device_sync \subseteq Entries /\ deleting \subseteq Entries
  /\ sent \subseteq Entries
  /\ pc \in {"poll", "persist", "ack", "wait", "ended"}
  /\ updates \subseteq Entries /\ updates_persisted \subseteq Entries
  /\ attempts \in 0 .. kNumTransportAttempts - 1
  /\ update_queue_server \in [Entries -> Nat]
  /\ hpc \in [TopDirs -> {"first", "handle", "write", "delete"}]
  /\ known \subseteq Entries
  /\ key \in [TopDirs -> Entries \cup {None}]
  /\ failures \in Nat /\ crashes \in Nat /\ ends \in Nat
  /\ handled \in [Entries -> Nat]

\* PollForUpdates, Append, PersistedUpdates and Delete hand an update over so
\* that the server, the client's database or the handler's result always has it,
\* wherever a connection breaks or a process ends.
NotLost ==
  \A e \in sent :
     e \in device_sync \/ update_queue_server[e] > 0 \/ handled[e] > 0

\* An update is handled once; each end of the client may repeat it twice.
\* Retries of Exec and crashes of the server repeat nothing.
HandledAtMost == \A e \in Entries : handled[e] <= 1 + 2 * ends

\* Deliveries of an entry the client is still to make.
Unhandled(e) ==
  update_queue_server[e]
    - IF hpc[TopDirOf[e]] = "delete" /\ key[TopDirOf[e]] = e THEN 1 ELSE 0

Expected(e) ==
  IF e \in (device_sync \cup updates) \ updates_persisted THEN 1 ELSE 0

Todo == [e \in Entries |-> Unhandled(e) + Expected(e)]

Promise == INSTANCE ReliableDelivery WITH todo <- Todo

\* Polling, persisting, acknowledging and handling implement reliable delivery:
\* no step but an end of the client makes a delivery more, and none loses the last one.
ImplementsPromise == Promise!Spec

\* From some time on the client runs.  The code does not promise it: an update
\* whose CHECK fails in every run, such as a delta for a path the device is never
\* told of, ends one run after the other.
StaysUp == <>[](~Ended)

\* Every update that UpdateQueuer::Run appended for the device is handled by a
\* client that stays up, whatever connections and processes failed before.
EventuallyHandled ==
  StaysUp => \A e \in Entries : (e \in sent) ~> (handled[e] > 0)

\* The server is told to delete every entry it holds by a client that stays up.
EventuallyAcknowledged ==
  StaysUp => \A e \in Entries : (e \in device_sync) ~> (e \notin device_sync)
=============================================================================
