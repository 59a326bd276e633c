----------------------------- MODULE LocalEvents -----------------------------
(***************************************************************************)
(* A change of a file on its way to the server: the watcher thread stamps  *)
(* inotify events with the time and puts them into UNFILTERED_QUEUE,       *)
(* QueueFilter moves them to UPDATE_QUEUE_CLIENT of the top directory, and *)
(* FileEventQueueHandler reads and uploads the file.  Client::Start queues *)
(* an addition for every file it finds.  The client process may end at     *)
(* every step and be started again.                                        *)
(***************************************************************************)
EXTENDS Integers, Sequences

CONSTANTS
  Paths,       \* files of one top directory
  Contents,    \* what a file may contain, other than nothing
  NoFile,      \* the file does not exist
  Empty,       \* the empty string, also what is read of a file that does not exist
  MaxChanges,  \* bound on changes the user makes
  MaxClock,    \* bound on time(NULL)
  MaxCrashes   \* bound on crashes of the client process

ASSUME EventsAssumption ==
  /\ Paths # {}
  /\ NoFile \notin Contents /\ Empty \notin Contents /\ NoFile # Empty
  /\ MaxChanges \in Nat /\ MaxClock \in Nat /\ MaxCrashes \in Nat

VARIABLES
  disk,                 \* the files
  inotify,              \* events the watcher has not been told of
  clock,                \* time(NULL)
  scan,                 \* files that AddDirectory has still to queue
  adding,               \* AddNewFileToUnfilteredQueue of watcher and of Start
  unfiltered,           \* UNFILTERED_QUEUE
  fpc, ts_path, state,  \* QueueFilter::Run
  update_queue_client,  \* UPDATE_QUEUE_CLIENT
  hpc, key, current,    \* FileEventQueueHandler::Run
  guids,                \* GUIDs registered for a path; 0: no LOCATION_RELPATH_ID
  lock,                 \* RELPATH_LOCK: the paths that are LOCKED
  head_file,            \* RELPATHS_HEAD_FILE
  head_file_hash,       \* RELPATHS_HEAD_FILE_HASH: the content it is the hash of
  uploaded,             \* server: content of the latest version
  delta,                \* server: the latest package's delta, or Snapshot
  changes, crashes,
  stamped, coalesced    \* history: keys given to events, paths with two events
                        \* of one key

queues == <<unfiltered, update_queue_client>>
filterVars == <<fpc, ts_path, state>>
handlerVars == <<hpc, key, current>>
fileVars == <<guids, lock, head_file, head_file_hash, uploaded, delta>>
userVars == <<disk, inotify, clock, changes>>
history == <<stamped, coalesced>>
vars == <<userVars, scan, adding, queues, filterVars, handlerVars, fileVars,
          crashes, history>>

Actions == {"Add", "Delete", "Modified"}
Absent == "absent"
Idle == [pc |-> "idle"]
Snapshot == [type |-> "SNAPSHOT"]
Delta(b, h) == [type |-> "DELTA", base |-> b, prev |-> h]

\* AddDirectory has not listed the directory yet.
Unlisted == {"unlisted"}

\* The key of an event is "<seconds>:<path>".
Keys == (0 .. MaxClock) \X Paths
FirstKey(queue, k) ==
  /\ queue[k] # Absent
  /\ \A j \in Keys : queue[j] # Absent => k[1] <= j[1]

\* A reported event, an event AddNewFileToUnfilteredQueue is dealing with.
Content == Contents \cup {Empty, NoFile}
Threads == {"start", "watcher"}
Note == [path : Paths, action : Actions]
Item == [pc : {"get", "put"}, key : Keys, action : Actions]

Files == {p \in Paths : disk[p] # NoFile}
Started == scan = {} /\ adding["start"] = Idle

Init ==
  /\ disk \in [Paths -> Contents \cup {Empty, NoFile}]
  /\ scan = Unlisted
  /\ inotify = <<>> /\ clock = 0 /\ changes = 0 /\ crashes = 0
  /\ adding = [w \in {"start", "watcher"} |-> Idle]
  /\ unfiltered = [k \in Keys |-> Absent]
  /\ update_queue_client = [k \in Keys |-> Absent]
  /\ fpc = "read" /\ ts_path = <<0, CHOOSE p \in Paths : TRUE>> /\ state = Absent
  /\ hpc = "first" /\ key = ts_path /\ current = Empty
  /\ guids = [p \in Paths |-> 0] /\ lock = {}
  /\ head_file = [p \in Paths |-> NoFile]
  /\ head_file_hash = [p \in Paths |-> NoFile]
  /\ uploaded = [p \in Paths |-> NoFile]
  /\ delta = [p \in Paths |-> Snapshot]
  /\ stamped = {} /\ coalesced = {}

-----------------------------------------------------------------------------
(* The user, the clock, the end of the process *)

\* What FileWatcherLinux::handleAction reports: a file that is created (and still
\* empty) or moved to the path is added, also when it replaces another one; one
\* that is closed after writing is modified.
Reported(old, new) ==
  CASE new = NoFile -> {"Delete"}
    [] old = NoFile -> {"Add"}
    [] OTHER -> {"Add", "Modified"}

Change(p, c, a) ==
  /\ changes < MaxChanges
  /\ c # disk[p]
  /\ a \in Reported(disk[p], c)
  /\ changes' = changes + 1
  /\ disk' = [disk EXCEPT ![p] = c]
  /\ inotify' = Append(inotify, [path |-> p, action |-> a])
  /\ UNCHANGED <<clock, scan, adding, queues, filterVars, handlerVars, fileVars,
                 crashes, history>>

Tick ==
  /\ clock < MaxClock
  /\ clock' = clock + 1
  /\ UNCHANGED <<disk, inotify, changes, scan, adding, queues, filterVars,
                 handlerVars, fileVars, crashes, history>>

\* Variant: the path locks are not cleaned.
CrashKeepsLocks ==
  /\ crashes < MaxCrashes
  /\ crashes' = crashes + 1
  /\ inotify' = <<>>
  /\ scan' = Unlisted
  /\ adding' = [w \in {"start", "watcher"} |-> Idle]
  /\ fpc' = "read" /\ hpc' = "first"
  /\ UNCHANGED <<disk, clock, changes, queues, ts_path, state, key, current,
                 fileVars, history>>

\* Client::Start releases every path lock and watches the directory.
Crash ==
  /\ crashes < MaxCrashes
  /\ crashes' = crashes + 1
  /\ inotify' = <<>>
  /\ scan' = Unlisted
  /\ adding' = [w \in {"start", "watcher"} |-> Idle]
  /\ fpc' = "read" /\ hpc' = "first"
  /\ lock' = {}
  /\ UNCHANGED <<disk, clock, changes, queues, ts_path, state, key, current,
                 guids, head_file, head_file_hash, uploaded, delta, history>>

-----------------------------------------------------------------------------
(* AddNewFileToUnfilteredQueue: stamp the event, look for the key, put *)

Stamp(w, p, a) ==
  LET k == <<clock, p>> IN
  /\ adding[w] = Idle
  /\ adding' = [adding EXCEPT ![w] = [pc |-> "get", key |-> k, action |-> a]]
  /\ stamped' = stamped \cup {k}
  /\ coalesced' = IF k \in stamped THEN coalesced \cup {p} ELSE coalesced
  /\ UNCHANGED <<disk, clock, changes, queues, filterVars, handlerVars, fileVars,
                 crashes>>

\* Variant: only the files that are not tracked yet are listed.
EnumerateUntracked ==
  /\ scan = Unlisted
  /\ scan' = {p \in Files : guids[p] = 0}
  /\ UNCHANGED <<userVars, adding, queues, filterVars, handlerVars, fileVars,
                 crashes, history>>

\* AddDirectory lists the directory it watches and queues an addition for each
\* file.
EnumerateFiles ==
  /\ scan = Unlisted
  /\ scan' = Files
  /\ UNCHANGED <<userVars, adding, queues, filterVars, handlerVars, fileVars,
                 crashes, history>>

Scan(p) ==
  /\ scan # Unlisted /\ p \in scan
  /\ scan' = scan \ {p}
  /\ Stamp("start", p, "Add")
  /\ UNCHANGED inotify

handleFileAction ==
  /\ inotify # <<>>
  /\ inotify' = Tail(inotify)
  /\ Stamp("watcher", Head(inotify).path, Head(inotify).action)
  /\ UNCHANGED scan

\* An existing entry is not overwritten.
GetExisting(w) ==
  /\ adding[w].pc = "get"
  /\ adding' = [adding EXCEPT ![w] = IF unfiltered[adding[w].key] # Absent
                                       THEN Idle ELSE [@ EXCEPT !.pc = "put"]]
  /\ UNCHANGED <<userVars, scan, queues, filterVars, handlerVars, fileVars,
                 crashes, history>>

PutUnfiltered(w) ==
  /\ adding[w].pc = "put"
  /\ unfiltered' = [unfiltered EXCEPT ![adding[w].key] = adding[w].action]
  /\ adding' = [adding EXCEPT ![w] = Idle]
  /\ UNCHANGED <<userVars, scan, update_queue_client, filterVars, handlerVars,
                 fileVars, crashes, history>>

-----------------------------------------------------------------------------
(* QueueFilter::Run, which Client::Start starts last *)

FilterRead ==
  /\ Started
  /\ fpc = "read"
  /\ \E k \in Keys :
       FirstKey(unfiltered, k) /\ ts_path' = k /\ state' = unfiltered[k]
  /\ fpc' = "put"
  /\ UNCHANGED <<userVars, scan, adding, queues, handlerVars, fileVars, crashes,
                 history>>

FilterPut ==
  /\ fpc = "put"
  /\ update_queue_client' = [update_queue_client EXCEPT ![ts_path] = state]
  /\ fpc' = "delete"
  /\ UNCHANGED <<userVars, scan, adding, unfiltered, ts_path, state, handlerVars,
                 fileVars, crashes, history>>

FilterDelete ==
  /\ fpc = "delete"
  /\ unfiltered' = [unfiltered EXCEPT ![ts_path] = Absent]
  /\ fpc' = "read"
  /\ UNCHANGED <<userVars, scan, adding, update_queue_client, ts_path, state,
                 handlerVars, fileVars, crashes, history>>

-----------------------------------------------------------------------------
(* FileEventQueueHandler::Run, its branch for local events *)

path == key[2]

\* Variant: a deletion is left in the queue.
FirstKeepsDeletion ==
  /\ Started
  /\ hpc = "first"
  /\ \E k \in Keys :
       /\ FirstKey(update_queue_client, k)
       /\ key' = k
       /\ hpc' = CASE update_queue_client[k] = "Delete" -> "first"
                   [] update_queue_client[k] = "Modified" /\ guids[k[2]] > 0
                        -> "read_mod"
                   [] OTHER -> "register"
  /\ UNCHANGED <<userVars, scan, adding, queues, filterVars, current, fileVars,
                 crashes, history>>

\* HandleLocalAction: deletions are not implemented; a modification of a path
\* without a GUID is an addition.
FirstLocal ==
  /\ Started
  /\ hpc = "first"
  /\ \E k \in Keys :
       /\ FirstKey(update_queue_client, k)
       /\ key' = k
       /\ hpc' = CASE update_queue_client[k] = "Delete" -> "delete"
                   [] update_queue_client[k] = "Modified" /\ guids[k[2]] > 0
                        -> "read_mod"
                   [] OTHER -> "register"
  /\ UNCHANGED <<userVars, scan, adding, queues, filterVars, current, fileVars,
                 crashes, history>>

\* HandleAddAction: a new GUID from the server, mapped to the path.
Register ==
  /\ hpc = "register"
  /\ guids' = [guids EXCEPT ![path] = @ + 1]
  /\ hpc' = "lock"
  /\ UNCHANGED <<userVars, scan, adding, queues, filterVars, key, current, lock,
                 head_file, head_file_hash, uploaded, delta, crashes, history>>

\* CHECK(AcquireLockPath): see LockIsFree.
AcquireLockPath ==
  /\ hpc = "lock"
  /\ path \notin lock
  /\ lock' = lock \cup {path}
  /\ hpc' = "read_add"
  /\ UNCHANGED <<userVars, scan, adding, queues, filterVars, key, current, guids,
                 head_file, head_file_hash, uploaded, delta, crashes, history>>

\* Variant: the result of a failed read is used as it is.
ReadMissingFile ==
  /\ hpc \in {"read_add", "read_mod"}
  /\ current' = disk[path]
  /\ hpc' = "upload"
  /\ UNCHANGED <<userVars, scan, adding, queues, filterVars, key, fileVars,
                 crashes, history>>

\* HandleModAction returns when the file is the version it knows.
ReadFile ==
  LET content == IF disk[path] = NoFile THEN Empty ELSE disk[path] IN
  /\ hpc \in {"read_add", "read_mod"}
  /\ current' = content
  /\ hpc' = IF hpc = "read_mod" /\ content = head_file_hash[path]
              THEN "delete" ELSE "upload"
  /\ UNCHANGED <<userVars, scan, adding, queues, filterVars, key, fileVars,
                 crashes, history>>

\* An addition is a snapshot; a modification is a delta from HEAD_FILE, with
\* HEAD_FILE_HASH as the version it applies to, or a snapshot when the delta is
\* not smaller.
UploadPackage ==
  /\ hpc = "upload"
  /\ uploaded' = [uploaded EXCEPT ![path] = current]
  /\ \E d \in {Snapshot, Delta(head_file[path], head_file_hash[path])} :
       /\ path \in lock \/ current = Empty => d = Snapshot
       /\ delta' = [delta EXCEPT ![path] = d]
  /\ hpc' = "store_file"
  /\ UNCHANGED <<userVars, scan, adding, queues, filterVars, key, current, guids,
                 lock, head_file, head_file_hash, crashes, history>>

\* Variant: the version that was sent is not kept.
StoreNothing ==
  /\ hpc = "store_file"
  /\ hpc' = "store_hash"
  /\ UNCHANGED <<userVars, scan, adding, queues, filterVars, key, current,
                 fileVars, crashes, history>>

StoreHeadFile ==
  /\ hpc = "store_file"
  /\ head_file' = [head_file EXCEPT ![path] = current]
  /\ hpc' = "store_hash"
  /\ UNCHANGED <<userVars, scan, adding, queues, filterVars, key, current, guids,
                 lock, head_file_hash, uploaded, delta, crashes, history>>

\* Then ReleaseLockPath, after an addition.
StoreHeadFileHash ==
  /\ hpc = "store_hash"
  /\ head_file_hash' = [head_file_hash EXCEPT ![path] = current]
  /\ lock' = lock \ {path}
  /\ hpc' = "delete"
  /\ UNCHANGED <<userVars, scan, adding, queues, filterVars, key, current, guids,
                 head_file, uploaded, delta, crashes, history>>

DeleteLocal ==
  /\ hpc = "delete"
  /\ update_queue_client' = [update_queue_client EXCEPT ![key] = Absent]
  /\ hpc' = "first"
  /\ UNCHANGED <<userVars, scan, adding, unfiltered, filterVars, key, current,
                 fileVars, crashes, history>>

-----------------------------------------------------------------------------
Add(w) == GetExisting(w) \/ PutUnfiltered(w)
StartStep == Add("start") \/ EnumerateFiles \/ \E p \in Paths : Scan(p)
WatcherStep == Add("watcher") \/ handleFileAction
FilterStep == FilterRead \/ FilterPut \/ FilterDelete
HandlerStep ==
  \/ FirstLocal \/ Register \/ AcquireLockPath \/ ReadFile \/ UploadPackage
  \/ StoreHeadFile \/ StoreHeadFileHash \/ DeleteLocal

Next ==
  \/ \E p \in Paths, c \in Contents \cup {Empty, NoFile}, a \in Actions :
       Change(p, c, a)
  \/ Tick \/ Crash
  \/ StartStep \/ WatcherStep \/ FilterStep \/ HandlerStep

Spec == Init /\ [][Next]_vars

\* The client's threads are scheduled.
Fairness ==
  /\ WF_vars(StartStep) /\ WF_vars(WatcherStep)
  /\ WF_vars(FilterStep) /\ WF_vars(HandlerStep)

FairSpec == Spec /\ Fairness

-----------------------------------------------------------------------------
(* Properties *)

\* The databases, the events and the locals of the threads hold values the code
\* can store in them; in particular the content read from a missing file is the
\* empty string.
TypeOK ==
  /\ disk \in [Paths -> Content] /\ inotify \in Seq(Note)
  /\ scan = Unlisted \/ scan \subseteq Paths
  /\ adding \in [Threads -> {Idle} \cup Item]
  /\ unfiltered \in [Keys -> Actions \cup {Absent}]
  /\ fpc \in {"read", "put", "delete"}
  /\ ts_path \in Keys /\ state \in Actions \cup {Absent}
  /\ update_queue_client \in [Keys -> Actions \cup {Absent}]
  /\ hpc \in {"first", "register", "lock", "read_add", "read_mod", "upload",
              "store_file", "store_hash", "delete"}
  /\ key \in Keys /\ current \in Contents \cup {Empty}
  /\ guids \in [Paths -> Nat] /\ lock \subseteq Paths
  /\ head_file \in [Paths -> Content] /\ head_file_hash \in [Paths -> Content]
  /\ uploaded \in [Paths -> Content]
  /\ delta \in [Paths -> {Snapshot} \cup
                         [type : {"DELTA"}, base : Content, prev : Content]]

BeforeRead == hpc \in {"first", "register", "lock", "read_add", "read_mod"}

\* Something on its way will make the handler read p, or it is about to upload
\* what is on the disk.
Pending(p) ==
  \/ scan = Unlisted \/ p \in scan
  \/ \E i \in DOMAIN inotify : inotify[i].path = p /\ inotify[i].action # "Delete"
  \/ \E w \in {"start", "watcher"} :
       adding[w] # Idle /\ adding[w].key[2] = p /\ adding[w].action # "Delete"
  \/ \E k \in Keys :
       /\ k[2] = p
       /\ \/ unfiltered[k] \in {"Add", "Modified"}
          \/ /\ update_queue_client[k] \in {"Add", "Modified"}
             /\ k = key => BeforeRead
  \/ hpc = "upload" /\ path = p /\ current = disk[p]

OutOfDate(p) == disk[p] # NoFile /\ uploaded[p] # disk[p]

\* A file that differs from the version on the server is still to be read, across
\* the three threads, the two queues and the end of the process at any step, as
\* long as no two events of the file carry the same second.
ChangeNotForgotten == \A p \in Paths \ coalesced : OutOfDate(p) => Pending(p)

\* HandleAddAction's CHECK(AcquireLockPath) holds, also after the process ended
\* while the path was LOCKED in the database.
LockIsFree == hpc = "lock" => path \notin lock

\* HandleModAction sends "the previous hash that corresponds to this update": a
\* delta applies to the version whose hash goes with it.
DeltaFitsPrevHash ==
  \A p \in Paths : delta[p].type = "DELTA" => delta[p].base = delta[p].prev

\* The same for a process that has not ended between its writes of
\* RELPATHS_HEAD_FILE and RELPATHS_HEAD_FILE_HASH.
DeltaFitsInOneRun == crashes = 0 => DeltaFitsPrevHash

\* The server catches up with every file: the scheduled threads bring each change
\* through both queues to UploadPackage, unless two events share a second.
UploadsCatchUp == \A p \in Paths : []<>(OutOfDate(p) => p \in coalesced)
=============================================================================
