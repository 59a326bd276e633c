------------------------------- MODULE FileSync -------------------------------
(***************************************************************************)
(* One file of a top directory that several devices share: each device's   *)
(* FileEventQueueHandler takes the updates of other devices and the events *)
(* of its own disk from two queues, the former first.  It writes what it   *)
(* downloads to the disk, which makes events as a change of the user does; *)
(* ignorable_actions_ tells the two apart.  The way of an event to the     *)
(* queue is LocalEvents, the fan-out UpdatePipeline, the polling           *)
(* UpdateDelivery; here each is a step.                                    *)
(***************************************************************************)
EXTENDS Integers, Sequences, FiniteSetsExt

CONSTANTS
  Devices,
  Contents,    \* what the file may contain, other than nothing
  NoFile,      \* the file does not exist
  Empty,       \* the empty string, also what is read of a file that does not exist
  None,
  MaxChanges,  \* bound on changes the users make
  MaxTrouble,  \* bound on crashes of clients, lost answers to uploads, rash changes
  MaxStarts,   \* bound on starts of a process that has ended
  Apart        \* events of a device, and uploads, are at least a second apart

ASSUME SyncAssumption ==
  /\ NoFile \notin Contents /\ Empty \notin Contents /\ NoFile # Empty
  /\ MaxChanges \in Nat /\ MaxTrouble \in Nat /\ MaxStarts \in Nat
  /\ Apart \in BOOLEAN

\* None is no key of UPDATE_QUEUE_SERVER.
ASSUME NoneAssumption == None \notin Nat \X Nat

VARIABLES
  disk,                 \* per device: the file
  events,               \* UNFILTERED_QUEUE and UPDATE_QUEUE_CLIENT: actions
  device_sync,          \* server, DEVICE_SYNC: updates for the device
  unacked,              \* persisted updates the server has still to delete
  update_queue_server,  \* UPDATE_QUEUE_SERVER: <<update, copy>>
  ignorable_actions,
  relpath_id_location,  \* the GUIDs that stand for the path
  location_relpath_id,  \* the GUID that the path's uploads carry; 0: none
  head_file, head_file_hash,
  hpc, key, current,    \* FileEventQueueHandler::Run and its locals
  packages,             \* server: the uploads in their order
  rel_paths,            \* server: GUIDs given out
  changes, rash, crashes, starts, lost,
  latest,               \* history: the content of the last change
  unread,               \* history: devices whose last change no handler has read
  mixed                 \* history: devices whose events are not one for one with
                        \* changes and ignorable actions

deviceVars == <<disk, events, ignorable_actions, relpath_id_location,
                location_relpath_id, head_file, head_file_hash>>
mapVars == <<relpath_id_location, location_relpath_id>>
headVars == <<head_file, head_file_hash>>
queueVars == <<device_sync, unacked, update_queue_server>>
handlerVars == <<hpc, key, current>>
serverVars == <<packages, rel_paths>>
counters == <<changes, rash, crashes, starts, lost>>
history == <<latest, unread, mixed>>
vars == <<deviceVars, queueVars, handlerVars, serverVars, counters, history>>

Actions == {"Add", "Delete", "Modified"}

\* What is read, sent and written; a package that is uploaded, with the second,
\* the device and the GUID of its update.
Stored == Contents \cup {Empty}
Package == [ts : Nat, device : Devices, kind : {"add", "mod"},
            type : {"SNAPSHOT", "DELTA"}, base : Stored, content : Stored,
            guid : Nat \ {0}]

Read(d) == IF disk[d] = NoFile THEN Empty ELSE disk[d]

Init ==
  /\ disk = [d \in Devices |-> NoFile]
  /\ events = [d \in Devices |-> <<>>]
  /\ device_sync = [d \in Devices |-> {}] /\ unacked = device_sync
  /\ update_queue_server = [d \in Devices |-> {}]
  /\ ignorable_actions = [d \in Devices |-> {}]
  /\ relpath_id_location = [d \in Devices |-> {}]
  /\ location_relpath_id = [d \in Devices |-> 0]
  /\ head_file = [d \in Devices |-> Empty] /\ head_file_hash = disk
  /\ hpc = [d \in Devices |-> "first"]
  /\ key = [d \in Devices |-> None]
  /\ current = [d \in Devices |-> Empty]
  /\ packages = <<>> /\ rel_paths = 0
  /\ changes = 0 /\ rash = 0 /\ crashes = 0 /\ starts = 0 /\ lost = 0
  /\ latest = NoFile /\ unread = {} /\ mixed = {}

AtRest ==
  \A d \in Devices :
    /\ hpc[d] = "first" /\ events[d] = <<>>
    /\ update_queue_server[d] = {} /\ device_sync[d] = {} /\ unacked[d] = {}

Trouble == rash + crashes + lost

Goto(d, from, to) == hpc[d] = from /\ hpc' = [hpc EXCEPT ![d] = to]

-----------------------------------------------------------------------------
(* The file and its events *)

\* The queue after one more event.  One that falls into the second of the event
\* before it has the same key: it is dropped while that one is unfiltered, and
\* replaces it later.
Queued(q, a, apart) ==
  {Append(q, a)} \cup (IF q = <<>> \/ apart THEN {} ELSE {q, [q EXCEPT ![Len(q)] = a]})

\* A file that is written is created, which is an event, or truncated, and closed.
Written(d) ==
  IF disk[d] = NoFile
    THEN UNION {Queued(q, "Modified", FALSE) : q \in Queued(events[d], "Add", Apart)}
    ELSE Queued(events[d], "Modified", Apart)

\* What FileWatcherLinux::handleAction reports of a change by the user: a file
\* moved to the path is added, also when it replaces one.
Reported(d, c, moved) ==
  CASE c = NoFile -> Queued(events[d], "Delete", Apart)
    [] moved /\ c # NoFile -> Queued(events[d], "Add", Apart)
    [] OTHER -> Written(d)

\* Nothing of an earlier change is on its way, and a file that was uploaded is
\* written in place.  A change that is not patient is rash.
Patient(c, moved) == AtRest /\ (packages # <<>> => c # NoFile /\ ~moved)

Change(d, c, moved) ==
  /\ changes < MaxChanges
  /\ c # disk[d]
  /\ Patient(c, moved) \/ Trouble < MaxTrouble
  /\ rash' = IF Patient(c, moved) THEN rash ELSE rash + 1
  /\ changes' = changes + 1
  /\ \E q \in Reported(d, c, moved) :
       /\ events' = [events EXCEPT ![d] = q]
       /\ mixed' = IF Len(q) > Len(events[d]) THEN mixed ELSE mixed \cup {d}
  /\ disk' = [disk EXCEPT ![d] = c]
  /\ latest' = c
  /\ unread' = IF c = NoFile THEN unread \ {d} ELSE unread \cup {d}
  /\ UNCHANGED <<ignorable_actions, mapVars, headVars, queueVars, handlerVars,
                 serverVars, crashes, starts, lost>>

-----------------------------------------------------------------------------
(* Server and poller *)

\* UploadPackage and the fan-out to every device but the uploading one.  The
\* second of the upload is the one before's or a later one.
Upload(d, pkg) ==
  LET n == Len(packages) + 1
      last == IF packages = <<>> THEN 0 ELSE packages[n - 1].ts IN
  /\ \E ts \in {last, last + 1} \ (IF Apart THEN {last} ELSE {}) :
       packages' = Append(packages, [ts |-> ts, device |-> d, kind |-> pkg.kind,
                                     type |-> pkg.type, base |-> pkg.base,
                                     content |-> pkg.content, guid |-> pkg.guid])
  /\ device_sync' = [e \in Devices |-> IF e = d THEN device_sync[e]
                                       ELSE device_sync[e] \cup {n}]

\* DownloadPackage by the hash in the update.  A modification has no hash, so
\* all of them are stored under the empty string.
Download(n) ==
  IF packages[n].kind = "add" THEN packages[n]
  ELSE packages[Max({m \in DOMAIN packages : packages[m].kind = "mod"})]

\* Delta::Apply: ApplyBinaryPatch compares size and checksum of the old file and
\* writes nothing when they differ.
Apply(content, pkg) ==
  IF pkg.type = "SNAPSHOT" \/ content = pkg.base THEN pkg.content ELSE Empty

\* UpdateFromServer::Run appends the updates of a batch in the order of random
\* GUIDs, one more copy of an update that an earlier run did not acknowledge.
Persist(d, n) ==
  /\ hpc[d] # "ended"
  /\ n \in device_sync[d]
  /\ device_sync' = [device_sync EXCEPT ![d] = @ \ {n}]
  /\ unacked' = [unacked EXCEPT ![d] = @ \cup {n}]
  /\ \E copy \in 0 .. starts :
       /\ <<n, copy>> \notin update_queue_server[d]
       /\ \A c \in 0 .. copy - 1 : <<n, c>> \in update_queue_server[d]
       /\ update_queue_server' = [update_queue_server EXCEPT ![d] = @ \cup {<<n, copy>>}]
  /\ UNCHANGED <<deviceVars, handlerVars, serverVars, counters, history>>

PersistedUpdates(d) ==
  /\ hpc[d] # "ended"
  /\ unacked[d] # {}
  /\ unacked' = [unacked EXCEPT ![d] = {}]
  /\ UNCHANGED <<deviceVars, device_sync, update_queue_server, handlerVars,
                 serverVars, counters, history>>

-----------------------------------------------------------------------------
(* The client process ends, by a crash or a failed CHECK, and may be started
   again *)

\* Events that the watcher had not reported are lost.
End(d) ==
  /\ hpc' = [hpc EXCEPT ![d] = "ended"]
  /\ key' = [key EXCEPT ![d] = None]
  /\ current' = [current EXCEPT ![d] = Empty]
  /\ ignorable_actions' = [ignorable_actions EXCEPT ![d] = {}]
  /\ \E n \in 0 .. Len(events[d]) : events' = [events EXCEPT ![d] = SubSeq(@, 1, n)]
  /\ mixed' = mixed \ {d}
  /\ UNCHANGED <<disk, mapVars, headVars, queueVars, serverVars, changes, rash, lost,
                 latest, unread>>

Crash(d) ==
  /\ Trouble < MaxTrouble
  /\ hpc[d] # "ended"
  /\ crashes' = crashes + 1
  /\ End(d)
  /\ UNCHANGED starts

\* Client::Start queues the file as an addition, as if it were new, and polls the
\* updates that were not acknowledged again.
Start(d) ==
  /\ starts < MaxStarts
  /\ Goto(d, "ended", "first")
  /\ starts' = starts + 1
  /\ \E q \in IF disk[d] = NoFile THEN {events[d]} ELSE Queued(events[d], "Add", Apart) :
       /\ events' = [events EXCEPT ![d] = q]
       /\ mixed' = IF disk[d] = NoFile \/ Len(q) > Len(events[d]) THEN mixed
                   ELSE mixed \cup {d}
  /\ device_sync' = [device_sync EXCEPT ![d] = @ \cup unacked[d]]
  /\ unacked' = [unacked EXCEPT ![d] = {}]
  /\ UNCHANGED <<disk, ignorable_actions, mapVars, headVars, update_queue_server,
                 key, current, serverVars, changes, rash, crashes, lost, latest,
                 unread>>

-----------------------------------------------------------------------------
(* FileEventQueueHandler::Run, the server's updates *)

\* Keys start with the second of the upload.  The '_' that follows the empty hash
\* of a modification comes after the digits of an addition's hash.
Precedes(m, n) ==
  \/ packages[m].ts < packages[n].ts
  \/ /\ packages[m].ts = packages[n].ts
     /\ packages[m].device = packages[n].device
     /\ packages[m].guid = packages[n].guid
     /\ packages[m].kind = "add" /\ packages[n].kind = "mod"

FirstRemote(d) ==
  /\ \E u \in update_queue_server[d] :
       /\ \A v \in update_queue_server[d] : ~Precedes(v[1], u[1])
       /\ key' = [key EXCEPT ![d] = u]
       /\ Goto(d, "first", IF packages[u[1]].guid \in relpath_id_location[d]
                             THEN "remote_mod" ELSE "remote_add")
  /\ UNCHANGED <<deviceVars, queueVars, current, serverVars, counters,
                 history>>

\* HandleRemoteAddAction: map the GUID to the path.
RemoteAdd(d) ==
  LET pkg == Download(key[d][1]) IN
  /\ Goto(d, "remote_add", "write_add")
  /\ pkg.kind = "add"
  /\ current' = [current EXCEPT ![d] = pkg.content]
  /\ relpath_id_location' = [relpath_id_location EXCEPT ![d] = @ \cup {pkg.guid}]
  /\ location_relpath_id' = [location_relpath_id EXCEPT ![d] = pkg.guid]
  /\ UNCHANGED <<disk, events, ignorable_actions, headVars, queueVars, key,
                 serverVars, counters, history>>

\* CHECK(package.type == PackageType::SNAPSHOT), or a package without a path.
RemoteAddCheckFails(d) ==
  /\ hpc[d] = "remote_add"
  /\ Download(key[d][1]).kind = "mod"
  /\ End(d)
  /\ UNCHANGED <<crashes, starts>>

\* HandleRemoteModAction reads the file and applies the package to it.
RemoteMod(d) ==
  /\ Goto(d, "remote_mod", "write_mod")
  /\ current' = [current EXCEPT ![d] = Apply(Read(d), Download(key[d][1]))]
  /\ UNCHANGED <<deviceVars, queueVars, key, serverVars, counters, history>>

Ignored(d) == IF hpc[d] = "write_add" THEN "Add" ELSE "Modified"

\* Variant: the write is left out when the file has the content already.
WriteFileUnlessSame(d) ==
  /\ hpc[d] \in {"write_add", "write_mod"}
  /\ Ignored(d) \notin ignorable_actions[d]
  /\ ignorable_actions' = [ignorable_actions EXCEPT ![d] = @ \cup {Ignored(d)}]
  /\ disk' = [disk EXCEPT ![d] = current[d]]
  /\ \E q \in IF disk[d] = current[d] THEN {events[d]} ELSE Written(d) :
       events' = [events EXCEPT ![d] = q]
  /\ unread' = unread \ {d}
  /\ Goto(d, hpc[d], IF hpc[d] = "write_add" THEN "delete_remote" ELSE "store_file")
  /\ UNCHANGED <<mapVars, headVars, queueVars, key, current, serverVars, counters,
                 latest, mixed>>

\* SetIgnorableAction and WriteFile.  An addition does not become the head.
WriteFile(d) ==
  /\ hpc[d] \in {"write_add", "write_mod"}
  /\ Ignored(d) \notin ignorable_actions[d]
  /\ ignorable_actions' = [ignorable_actions EXCEPT ![d] = @ \cup {Ignored(d)}]
  /\ disk' = [disk EXCEPT ![d] = current[d]]
  /\ \E q \in Written(d) :
       /\ events' = [events EXCEPT ![d] = q]
       /\ mixed' = IF Len(q) = Len(events[d]) + (IF disk[d] = NoFile THEN 2 ELSE 1)
                        /\ (hpc[d] = "write_add" => disk[d] = NoFile)
                     THEN mixed ELSE mixed \cup {d}
  /\ unread' = unread \ {d}
  /\ Goto(d, hpc[d], IF hpc[d] = "write_add" THEN "delete_remote" ELSE "store_file")
  /\ UNCHANGED <<mapVars, headVars, queueVars, key, current, serverVars, counters,
                 latest>>

\* SetIgnorableAction's CHECK.
WriteCheckFails(d) ==
  /\ hpc[d] \in {"write_add", "write_mod"}
  /\ Ignored(d) \in ignorable_actions[d]
  /\ End(d)
  /\ UNCHANGED <<crashes, starts>>

DeleteRemote(d) ==
  /\ Goto(d, "delete_remote", "first")
  /\ update_queue_server' = [update_queue_server EXCEPT ![d] = @ \ {key[d]}]
  /\ key' = [key EXCEPT ![d] = None]
  /\ current' = [current EXCEPT ![d] = Empty]
  /\ UNCHANGED <<deviceVars, device_sync, unacked, serverVars, counters,
                 history>>

-----------------------------------------------------------------------------
(* FileEventQueueHandler::Run, local events, when there is no update *)

\* Variant: IgnorableAction finds the action and leaves it in the set.
FirstLocalFinds(d) ==
  /\ update_queue_server[d] = {}
  /\ events[d] # <<>>
  /\ LET a == Head(events[d]) IN
     Goto(d, "first", CASE a \in ignorable_actions[d] \cup {"Delete"} -> "delete_local"
                        [] a = "Modified" /\ location_relpath_id[d] # 0 -> "read_mod"
                        [] OTHER -> "register")
  /\ UNCHANGED <<deviceVars, queueVars, key, current, serverVars, counters, history>>

\* HandleLocalAction: an ignorable action is forgotten, a deletion does nothing.
FirstLocal(d) ==
  /\ update_queue_server[d] = {}
  /\ events[d] # <<>>
  /\ LET a == Head(events[d]) IN
     /\ ignorable_actions' = [ignorable_actions EXCEPT ![d] = @ \ {a}]
     /\ Goto(d, "first", CASE a \in ignorable_actions[d] \cup {"Delete"} -> "delete_local"
                           [] a = "Modified" /\ location_relpath_id[d] # 0 -> "read_mod"
                           [] OTHER -> "register")
  /\ UNCHANGED <<disk, events, mapVars, headVars, queueVars, key, current,
                 serverVars, counters, history>>

Register(d) ==
  /\ Goto(d, "register", "read_add")
  /\ rel_paths' = rel_paths + 1
  /\ relpath_id_location' = [relpath_id_location EXCEPT ![d] = @ \cup {rel_paths'}]
  /\ location_relpath_id' = [location_relpath_id EXCEPT ![d] = rel_paths']
  /\ UNCHANGED <<disk, events, ignorable_actions, headVars, queueVars, key, current,
                 packages, counters, history>>

\* Variant: the result of a failed read is used as it is.
ReadMissingFile(d) ==
  /\ Goto(d, "read_add", "upload_add")
  /\ current' = [current EXCEPT ![d] = disk[d]]
  /\ unread' = unread \ {d}
  /\ UNCHANGED <<deviceVars, queueVars, key, serverVars, counters, latest, mixed>>

\* Variant: HandleModAction does not look at the version it knows.
ReadFileAgain(d) ==
  /\ \/ Goto(d, "read_add", "upload_add")
     \/ Goto(d, "read_mod", "upload_mod")
  /\ current' = [current EXCEPT ![d] = Read(d)]
  /\ unread' = unread \ {d}
  /\ UNCHANGED <<deviceVars, queueVars, key, serverVars, counters, latest, mixed>>

\* HandleModAction returns when the file is the version it knows.
ReadFile(d) ==
  /\ \/ Goto(d, "read_add", "upload_add")
     \/ Goto(d, "read_mod", IF Read(d) = head_file_hash[d] THEN "delete_local"
                            ELSE "upload_mod")
  /\ current' = [current EXCEPT ![d] = Read(d)]
  /\ unread' = unread \ {d}
  /\ UNCHANGED <<deviceVars, queueVars, key, serverVars, counters, latest, mixed>>

\* A modification is sent as a delta from the head when that is smaller, which it
\* is not for an empty file or from an empty one.  The answer may be lost.
UploadPackage(d) ==
  /\ \/ /\ hpc[d] = "upload_add"
        /\ Upload(d, [kind |-> "add", type |-> "SNAPSHOT", base |-> Empty,
                      content |-> current[d], guid |-> location_relpath_id[d]])
     \/ /\ hpc[d] = "upload_mod"
        /\ \E type \in {"SNAPSHOT", "DELTA"} :
             /\ Empty \in {head_file[d], current[d]} => type = "SNAPSHOT"
             /\ Upload(d, [kind |-> "mod", type |-> type,
                           base |-> IF type = "DELTA" THEN head_file[d] ELSE Empty,
                           content |-> current[d], guid |-> location_relpath_id[d]])
  /\ \/ Goto(d, hpc[d], "store_file") /\ UNCHANGED lost
     \/ Trouble < MaxTrouble /\ lost' = lost + 1 /\ Goto(d, hpc[d], "repeat")
  /\ UNCHANGED <<deviceVars, unacked, update_queue_server, key, current, rel_paths,
                 changes, rash, crashes, starts, history>>

\* Exec repeats a call whose answer it did not get.
RepeatUpload(d) ==
  /\ Goto(d, "repeat", "store_file")
  /\ Upload(d, packages[Max({m \in DOMAIN packages : packages[m].device = d})])
  /\ UNCHANGED <<deviceVars, unacked, update_queue_server, key, current, rel_paths,
                 counters, history>>

\* Both branches keep what they sent or wrote, in two writes.
StoreHeadFile(d) ==
  /\ Goto(d, "store_file", "store_hash")
  /\ head_file' = [head_file EXCEPT ![d] = current[d]]
  /\ UNCHANGED <<disk, events, ignorable_actions, mapVars, head_file_hash, queueVars,
                 key, current, serverVars, counters, history>>

StoreHeadFileHash(d) ==
  /\ Goto(d, "store_hash", IF key[d] = None THEN "delete_local" ELSE "delete_remote")
  /\ head_file_hash' = [head_file_hash EXCEPT ![d] = current[d]]
  /\ UNCHANGED <<disk, events, ignorable_actions, mapVars, head_file, queueVars, key,
                 current, serverVars, counters, history>>

DeleteLocal(d) ==
  /\ Goto(d, "delete_local", "first")
  /\ events' = [events EXCEPT ![d] = Tail(@)]
  /\ current' = [current EXCEPT ![d] = Empty]
  /\ UNCHANGED <<disk, ignorable_actions, mapVars, headVars, queueVars, key,
                 serverVars, counters, history>>

-----------------------------------------------------------------------------
PollerStep(d) == PersistedUpdates(d) \/ \E n \in DOMAIN packages : Persist(d, n)

HandlerStep(d) ==
  \/ FirstRemote(d) \/ RemoteAdd(d) \/ RemoteAddCheckFails(d) \/ RemoteMod(d)
  \/ WriteFile(d) \/ WriteCheckFails(d) \/ DeleteRemote(d)
  \/ FirstLocal(d) \/ Register(d) \/ ReadFile(d) \/ UploadPackage(d)
  \/ RepeatUpload(d) \/ StoreHeadFile(d) \/ StoreHeadFileHash(d) \/ DeleteLocal(d)

Next ==
  \E d \in Devices :
    \/ PollerStep(d) \/ HandlerStep(d) \/ Crash(d) \/ Start(d)
    \/ \E c \in Contents \cup {NoFile}, moved \in BOOLEAN : Change(d, c, moved)

Spec == Init /\ [][Next]_vars

-----------------------------------------------------------------------------
(* Properties *)

\* The maps, queues and locals hold values the code can store in them; in
\* particular a package holds what was read of a file, never its absence.
TypeOK ==
  /\ disk \in [Devices -> Stored \cup {NoFile}]
  /\ \A d \in Devices : \A i \in DOMAIN events[d] : events[d][i] \in Actions
  /\ ignorable_actions \in [Devices -> SUBSET Actions]
  /\ relpath_id_location \in [Devices -> SUBSET (1 .. rel_paths)]
  /\ location_relpath_id \in [Devices -> 0 .. rel_paths]
  /\ head_file \in [Devices -> Stored]
  /\ head_file_hash \in [Devices -> Stored \cup {NoFile}]
  /\ current \in [Devices -> Stored]
  /\ packages \in Seq(Package)
  /\ \A d \in Devices : device_sync[d] \cup unacked[d] \subseteq DOMAIN packages
  /\ update_queue_server \in [Devices -> SUBSET ((DOMAIN packages) \X Nat)]

\* Users who wait for their changes to arrive find the last one on every device
\* once nothing is on its way and no CHECK has ended a client: the events that the
\* handlers' own writes cause, of the update and of the echoes of other receivers,
\* are neither taken for changes nor hide one, and deltas fit the files they are
\* applied to.  Events that coalesce are excluded: an announced action whose event
\* is lost swallows the next change.
Converges ==
  AtRest /\ Trouble = 0 /\ mixed = {} => \A d \in Devices : disk[d] = latest

\* Handlers do not answer each other for ever: when users wait for their changes
\* to arrive and nothing fails, a device uploads at most one package for every
\* change, on whichever device it was made, though a file that is created is two
\* events and every write of a handler is an event again.
EchoesDie ==
  Trouble = 0 =>
    \A d \in Devices : Len(SelectSeq(packages, LAMBDA p : p.device = d)) <= changes

\* SetIgnorableAction: CHECK(ignorable_actions_.end() == ignorable_actions_.find(key)),
\* the event of the handler's last write of the path was taken from the queue.
IgnorableIsNew ==
  \A d \in Devices :
    hpc[d] \in {"write_add", "write_mod"} => Ignored(d) \notin ignorable_actions[d]

\* Events of the device that its handler has still to look at.
Waiting(d) ==
  IF key[d] = None /\ hpc[d] \notin {"first", "ended"} THEN Tail(events[d]) ELSE events[d]

At(a, q) == {i \in DOMAIN q : q[i] = a}

\* An action that SetIgnorableAction announced has its event in the queue, however
\* users and other devices interfere, as long as the device's events are one for
\* one with changes and announced writes.
IgnorableIsQueued ==
  \A d \in Devices \ mixed : \A a \in ignorable_actions[d] : At(a, Waiting(d)) # {}

\* A user's change that no handler has read or overwritten has an event that
\* IgnorableAction will not swallow, that is one more than the announced one,
\* under the same condition; after a crash the listing at start makes one.
ChangeIsRead ==
  \A d \in unread \ mixed :
    \/ hpc[d] \in {"ended", "register", "read_add", "read_mod"}
    \/ \E a \in {"Add", "Modified"} : \E i \in At(a, Waiting(d)) :
         a \in ignorable_actions[d] => At(a, Waiting(d)) # {i}

\* HandleRemoteModAction: "Check that the prev is what we have. If we have the
\* latest, then quit."  No user changes the file meanwhile.
DeltaFits ==
  rash = 0 =>
    \A d \in Devices :
      hpc[d] = "remote_mod" =>
        LET pkg == Download(key[d][1]) IN pkg.type = "DELTA" => pkg.base = Read(d)
=============================================================================
