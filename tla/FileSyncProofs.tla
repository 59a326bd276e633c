--------------------------- MODULE FileSyncProofs ---------------------------
(***************************************************************************)
(* For any devices, contents and bounds: the handler of a device tells the *)
(* events of its own writes from those of its user's changes.              *)
(***************************************************************************)
EXTENDS FileSyncTypesProofs


-----------------------------------------------------------------------------
(* The handler's own writes and the user's changes.                         *)

\* The event that Run is dealing with does not wait any more.
Skip(d) == IF key[d] = None /\ hpc[d] \notin {"first", "ended"} THEN 1 ELSE 0

\* Where the handler is about to read the file, or the listing at start will
\* make it do so.
Reading == {"ended", "register", "read_add", "read_mod"}

Announced(d) == \A a \in ignorable_actions[d] : Has(events[d], Skip(d), a)

Noticed(d) ==
  \/ hpc[d] \in Reading
  \/ \E a \in {"Add", "Modified"} :
       /\ Has(events[d], Skip(d), a)
       /\ a \in ignorable_actions[d] => Twice(events[d], Skip(d), a)

Told(d) == d \notin mixed => Announced(d) /\ (d \in unread => Noticed(d))

\* A change that is to be read left a file, and a process that has ended no
\* announced action.
Left(d) ==
  /\ d \in unread => disk[d] # NoFile
  /\ hpc[d] = "ended" => ignorable_actions[d] = {}

SInv == \A d \in Devices : Told(d) /\ Left(d)

\* The events that wait are those of the properties.
LEMMA Waits ==
  ASSUME TInv, NEW d \in Devices, NEW a \in Actions
  PROVE  /\ Has(events[d], Skip(d), a) => \E i : i \in At(a, Waiting(d))
         /\ Twice(events[d], Skip(d), a) =>
              \E i, j : i \in At(a, Waiting(d)) /\ j \in At(a, Waiting(d)) /\ i # j
<1>1. PICK w \in Seq(Actions) :
        /\ w = Waiting(d)
        /\ Has(events[d], Skip(d), a) => Has(w, 0, a)
        /\ Twice(events[d], Skip(d), a) => Twice(w, 0, a)
  <2>1. events[d] \in Seq(Actions)
    BY Zenon DEF TInv, Files
  <2>2. CASE key[d] = None /\ hpc[d] \notin {"first", "ended"}
    <3>1. events[d] # <<>> /\ Waiting(d) = Tail(events[d]) /\ Skip(d) = 1
      BY <2>2 DEF TInv, Places, Waiting, Skip, Local, Remote, Either
    <3> QED BY <2>1, <3>1, FirstDeleted, Zenon
  <2>3. CASE ~(key[d] = None /\ hpc[d] \notin {"first", "ended"})
    <3>1. Waiting(d) = events[d] /\ Skip(d) = 0
      BY <2>3, Zenon DEF Waiting, Skip
    <3> QED BY <2>1, <3>1, Zenon
  <2> QED BY <2>2, <2>3, Zenon
<1>2. Has(w, 0, a) => \E i : i \in At(a, w)
  BY Zenon DEF Has, At
<1>3. Twice(w, 0, a) => \E i, j : i \in At(a, w) /\ j \in At(a, w) /\ i # j
  BY Zenon DEF Twice, At
<1> QED BY <1>1, <1>2, <1>3, Zenon

LEMMA SInvTells == TInv /\ SInv => IgnorableIsQueued /\ ChangeIsRead
<1> SUFFICES ASSUME TInv, SInv PROVE IgnorableIsQueued /\ ChangeIsRead
  BY Zenon
<1>0. /\ ignorable_actions \in [Devices -> SUBSET {"Add", "Modified"}]
      /\ {"Add", "Modified"} \subseteq Actions /\ unread \subseteq Devices
  BY Zenon DEF TInv, Files, Actions
<1>1. ASSUME NEW d \in Devices \ mixed, NEW a \in ignorable_actions[d]
      PROVE  At(a, Waiting(d)) # {}
  <2>1. a \in Actions
    BY <1>0, Zenon
  <2>2. Has(events[d], Skip(d), a)
    BY Zenon DEF SInv, Told, Announced
  <2> QED BY <2>1, <2>2, Waits, Zenon
<1>2. ASSUME NEW d \in Devices \ mixed, d \in unread, hpc[d] \notin Reading
      PROVE  \E a \in {"Add", "Modified"} : \E i \in At(a, Waiting(d)) :
               a \in ignorable_actions[d] => At(a, Waiting(d)) # {i}
  <2>1. PICK a \in {"Add", "Modified"} :
          /\ Has(events[d], Skip(d), a)
          /\ a \in ignorable_actions[d] => Twice(events[d], Skip(d), a)
    BY <1>2, Zenon DEF SInv, Told, Noticed
  <2>2. a \in Actions
    BY <1>0, Zenon
  <2>3. CASE a \notin ignorable_actions[d]
    BY <2>1, <2>2, <2>3, Waits, Zenon
  <2>4. CASE Twice(events[d], Skip(d), a)
    <3>1. PICK i, j : i \in At(a, Waiting(d)) /\ j \in At(a, Waiting(d)) /\ i # j
      BY <2>2, <2>4, Waits, Zenon
    <3>2. At(a, Waiting(d)) # {i}
      BY <3>1, Zenon
    <3> QED BY <3>1, <3>2, Zenon
  <2> QED BY <2>1, <2>3, <2>4, Zenon
<1>3. IgnorableIsQueued
  BY <1>1, Zenon DEF IgnorableIsQueued
<1>4. ChangeIsRead
  BY <1>0, <1>2, Zenon DEF ChangeIsRead, Reading
<1> QED BY <1>3, <1>4, Zenon

\* A step that leaves a device's queue and announced actions alone, and the
\* reading of its file to come.
Quiet(d) ==
  /\ events'[d] = events[d] /\ ignorable_actions'[d] = ignorable_actions[d]
  /\ Skip(d)' = Skip(d)
  /\ d \in mixed => d \in mixed'
  /\ d \in unread' => d \in unread /\ (hpc[d] \in Reading => hpc'[d] \in Reading)

LEMMA QuietTold ==
  ASSUME NEW d \in Devices, Told(d), Quiet(d)
  PROVE  Told(d)'
<1>1. Announced(d) => Announced(d)'
  BY Zenon DEF Quiet, Announced
<1>2. d \in unread' /\ Noticed(d) => Noticed(d)'
  BY Zenon DEF Quiet, Noticed
<1> QED BY <1>1, <1>2, Zenon DEF Told, Quiet

\* The steps of a device are quiet for the other ones.
LEMMA OthersQuiet ==
  ASSUME TInv, NEW d \in Devices, NEW e \in Devices, e # d,
         \/ PollerStep(d) \/ HandlerStep(d) \/ Crash(d) \/ Start(d)
         \/ \E c \in Contents \cup {NoFile}, moved \in BOOLEAN : Change(d, c, moved)
  PROVE  Quiet(e)
<1> DEFINE Same == /\ events'[e] = events[e]
                   /\ ignorable_actions'[e] = ignorable_actions[e]
                   /\ hpc'[e] = hpc[e] /\ key'[e] = key[e]
                   /\ e \in mixed => e \in mixed'
                   /\ e \in unread' => e \in unread
<1> SUFFICES Same
  BY Zenon DEF Quiet, Skip
<1> USE DEF TInv, Files, Places, Goto, deviceVars, headVars, mapVars, queueVars,
            handlerVars, serverVars, counters, history
<1> HIDE DEF TInv
<1>1. /\ events \in [Devices -> Seq(Actions)]
      /\ ignorable_actions \in [Devices -> SUBSET {"Add", "Modified"}]
      /\ hpc \in [Devices -> Local \cup Remote \cup Either \cup {"first", "ended"}]
      /\ key \in [Devices -> ((DOMAIN packages) \X Nat) \cup {None}]
  BY Zenon DEF TInv
<1> HIDE DEF Files, Places
<1>2. CASE PollerStep(d)
  BY <1>1, <1>2, Zenon DEF PollerStep, Persist, PersistedUpdates
<1>3. CASE End(d)
  BY <1>1, <1>3, Zenon DEF End
<1>4. CASE Start(d)
  BY <1>1, <1>4, Zenon DEF Start
<1>5. CASE \E c \in Contents \cup {NoFile}, moved \in BOOLEAN : Change(d, c, moved)
  BY <1>1, <1>5 DEF Change
<1>6. CASE FirstRemote(d) \/ RemoteAdd(d) \/ RemoteMod(d) \/ DeleteRemote(d)
  BY <1>1, <1>6 DEF FirstRemote, RemoteAdd, RemoteMod, DeleteRemote
<1>7. CASE WriteFile(d)
  BY <1>1, <1>7, Zenon DEF WriteFile
<1>8. CASE FirstLocal(d) \/ Register(d) \/ ReadFile(d) \/ DeleteLocal(d)
  BY <1>1, <1>8, Zenon DEF FirstLocal, Register, ReadFile, DeleteLocal
<1>9. CASE UploadPackage(d) \/ RepeatUpload(d)
  BY <1>1, <1>9, Zenon DEF UploadPackage, RepeatUpload
<1>10. CASE StoreHeadFile(d) \/ StoreHeadFileHash(d)
  BY <1>1, <1>10, Zenon DEF StoreHeadFile, StoreHeadFileHash
<1>11. Crash(d) \/ RemoteAddCheckFails(d) \/ WriteCheckFails(d) => End(d)
  BY Zenon DEF Crash, RemoteAddCheckFails, WriteCheckFails
<1> QED
  BY <1>2, <1>3, <1>4, <1>5, <1>6, <1>7, <1>8, <1>9, <1>10, <1>11, Zenon
     DEF HandlerStep

\* The steps that are quiet for their own device.
LEMMA StepsQuiet ==
  ASSUME TInv, NEW d \in Devices,
         \/ PollerStep(d) \/ FirstRemote(d) \/ RemoteAdd(d) \/ RemoteMod(d)
         \/ DeleteRemote(d) \/ Register(d) \/ ReadFile(d) \/ UploadPackage(d)
         \/ RepeatUpload(d) \/ StoreHeadFile(d) \/ StoreHeadFileHash(d)
  PROVE  Quiet(d)
<1>1. /\ events' = events /\ ignorable_actions' = ignorable_actions
      /\ mixed' = mixed /\ unread' \subseteq unread
  BY Zenon DEF PollerStep, Persist, PersistedUpdates, FirstRemote, RemoteAdd, RemoteMod,
     DeleteRemote, Register, ReadFile, UploadPackage, RepeatUpload, StoreHeadFile,
     StoreHeadFileHash, deviceVars, headVars, mapVars, history
<1>2. /\ hpc \in [Devices -> Local \cup Remote \cup Either \cup {"first", "ended"}]
      /\ key \in [Devices -> ((DOMAIN packages) \X Nat) \cup {None}]
      /\ hpc[d] \in Local \cup {"first", "ended"} => key[d] = None
      /\ hpc[d] \in Remote => key[d] # None
  BY Zenon DEF TInv, Places
<1>3. CASE PollerStep(d)
  <2>1. hpc' = hpc /\ key' = key
    BY <1>3, Zenon DEF PollerStep, Persist, PersistedUpdates, handlerVars
  <2> QED BY <1>1, <2>1, Zenon DEF Quiet, Skip
<1>4. CASE FirstRemote(d)
  <2>1. hpc[d] = "first" /\ hpc'[d] \in {"remote_mod", "remote_add"}
    BY <1>2, <1>4, Zenon DEF FirstRemote, Goto
  <2>2. key'[d] # None
    <3>1. PICK u \in update_queue_server[d] : key' = [key EXCEPT ![d] = u]
      BY <1>4, Zenon DEF FirstRemote
    <3>2. u \in Nat \X Nat
      BY DEF TInv, Updates
    <3> QED BY <1>2, <3>1, <3>2, NoneAssumption, Zenon
  <2> QED BY <1>1, <2>1, <2>2, Zenon DEF Quiet, Skip, Reading
<1>5. CASE RemoteAdd(d) \/ RemoteMod(d)
  <2>1. hpc[d] \in Remote /\ hpc[d] \notin Reading /\ key' = key
    BY <1>5, Zenon DEF RemoteAdd, RemoteMod, Goto, Remote, Reading
  <2> QED BY <1>1, <1>2, <2>1, Zenon DEF Quiet, Skip
<1>6. CASE DeleteRemote(d)
  <2>1. hpc[d] = "delete_remote" /\ hpc'[d] = "first" /\ key[d] # None
    BY <1>2, <1>6, Zenon DEF DeleteRemote, Goto, Remote
  <2> QED BY <1>1, <2>1, Zenon DEF Quiet, Skip, Reading
<1>7. CASE Register(d)
  <2>1. hpc[d] = "register" /\ hpc'[d] = "read_add" /\ key' = key
    BY <1>2, <1>7, Zenon DEF Register, Goto
  <2> QED BY <1>1, <2>1, Zenon DEF Quiet, Skip, Reading
<1>8. CASE ReadFile(d)
  <2>1. /\ hpc[d] \in {"read_add", "read_mod"} /\ key' = key
        /\ hpc'[d] \in {"upload_add", "delete_local", "upload_mod"}
        /\ d \notin unread'
    BY <1>2, <1>8, Zenon DEF ReadFile, Goto
  <2> QED BY <1>1, <2>1, Zenon DEF Quiet, Skip
<1>9. CASE UploadPackage(d) \/ RepeatUpload(d)
  <2>1. /\ hpc[d] \in {"upload_add", "upload_mod", "repeat"} /\ key' = key
        /\ hpc'[d] \in {"store_file", "repeat"}
    BY <1>2, <1>9, Zenon DEF UploadPackage, RepeatUpload, Goto
  <2> QED BY <1>1, <2>1, Zenon DEF Quiet, Skip, Reading
<1>10. CASE StoreHeadFile(d) \/ StoreHeadFileHash(d)
  <2>1. /\ hpc[d] \in Either /\ key' = key
        /\ hpc'[d] \in {"store_hash", "delete_local", "delete_remote"}
    BY <1>2, <1>10, Zenon DEF StoreHeadFile, StoreHeadFileHash, Goto, Either
  <2> QED BY <1>1, <2>1, Zenon DEF Quiet, Skip, Reading, Either
<1> QED BY <1>3, <1>4, <1>5, <1>6, <1>7, <1>8, <1>9, <1>10, Zenon

\* SetIgnorableAction and WriteFile: the write's events follow at once.
LEMMA WriteTold ==
  ASSUME TInv, NEW d \in Devices, Told(d), WriteFile(d)
  PROVE  Told(d)'
<1>1. /\ events \in [Devices -> Seq(Actions)] /\ 0 \in 0 .. 1 /\ 0 <= Len(events[d])
      /\ ignorable_actions \in [Devices -> SUBSET {"Add", "Modified"}]
      /\ hpc \in [Devices -> Local \cup Remote \cup Either \cup {"first", "ended"}]
      /\ hpc[d] \in {"write_add", "write_mod"} /\ key[d] # None /\ key' = key
  <2>1. /\ events \in [Devices -> Seq(Actions)]
        /\ ignorable_actions \in [Devices -> SUBSET {"Add", "Modified"}]
    BY Zenon DEF TInv, Files
  <2>2. hpc[d] \in {"write_add", "write_mod"} /\ key' = key
    BY Zenon DEF WriteFile
  <2>3. /\ hpc \in [Devices -> Local \cup Remote \cup Either \cup {"first", "ended"}]
        /\ hpc[d] \in Remote => key[d] # None
    BY Zenon DEF TInv, Places
  <2>4. key[d] # None
    BY <2>2, <2>3, Zenon DEF Remote
  <2>5. 0 \in 0 .. 1 /\ 0 <= Len(events[d])
    BY <2>1
  <2> QED BY <2>1, <2>2, <2>3, <2>4, <2>5, Zenon
<1>2. Skip(d) = 0 /\ Skip(d)' = 0
  BY <1>1, Zenon DEF Skip
<1>3. d \notin unread'
  BY Zenon DEF WriteFile
<1>4. ASSUME d \notin mixed' PROVE Announced(d)'
  <2>1. PICK q \in Written(d) :
          /\ events' = [events EXCEPT ![d] = q]
          /\ mixed' = IF Len(q) = Len(events[d]) + (IF disk[d] = NoFile THEN 2 ELSE 1)
                           /\ (hpc[d] = "write_add" => disk[d] = NoFile)
                        THEN mixed ELSE mixed \cup {d}
    BY Zenon DEF WriteFile
  <2>2. /\ Len(q) = Len(events[d]) + (IF disk[d] = NoFile THEN 2 ELSE 1)
        /\ hpc[d] = "write_add" => disk[d] = NoFile
        /\ d \notin mixed
    BY <1>4, <2>1, Zenon
  <2>3. /\ Len(q) > Len(events[d]) => Gains(events[d], q, 0)
        /\ Has(q, 0, "Modified") /\ (disk[d] = NoFile => Has(q, 0, "Add"))
    BY <1>1, <2>1, <2>2, EventsOfWrite, Zenon
  <2>4. Len(q) > Len(events[d])
    BY <1>1, <2>2
  <2>5. ignorable_actions'[d] = ignorable_actions[d] \cup {Ignored(d)} /\ events'[d] = q
    BY <1>1, <2>1, Zenon DEF WriteFile
  <2>6. Has(q, 0, Ignored(d))
    BY <2>2, <2>3, Zenon DEF Ignored
  <2>7. \A a \in ignorable_actions[d] : Has(events[d], 0, a)
    BY <1>2, <2>2, Zenon DEF Told, Announced
  <2>8. \A a \in ignorable_actions[d] : a \in {"Add", "Modified"}
    BY <1>1, Zenon
  <2>9. \A a \in ignorable_actions[d] : Has(q, 0, a)
    BY <2>3, <2>4, <2>7, <2>8, Zenon DEF Gains
  <2>10. \A a \in ignorable_actions'[d] : Has(events'[d], Skip(d)', a)
    BY <1>2, <2>5, <2>6, <2>9, Zenon
  <2> QED BY <2>10, Zenon DEF Announced
<1> QED BY <1>3, <1>4, Zenon DEF Told

\* HandleLocalAction forgets an announced action with its event, and reads the
\* file for any other event but a deletion.
LEMMA FirstLocalTold ==
  ASSUME TInv, NEW d \in Devices, Told(d), FirstLocal(d)
  PROVE  Told(d)'
<1>1. /\ events \in [Devices -> Seq(Actions)] /\ events[d] # <<>> /\ events' = events
      /\ ignorable_actions \in [Devices -> SUBSET {"Add", "Modified"}]
      /\ hpc \in [Devices -> Local \cup Remote \cup Either \cup {"first", "ended"}]
      /\ hpc[d] = "first" /\ key[d] = None /\ key' = key
      /\ mixed' = mixed /\ unread' = unread
  BY Zenon DEF TInv, Files, Places, FirstLocal, Goto, history
<1>2. PICK h : h = Head(events[d])
  BY Zenon
<1>3. /\ h \in Actions /\ {"Add", "Modified"} \subseteq Actions
      /\ ignorable_actions'[d] = ignorable_actions[d] \ {h}
      /\ hpc'[d] = CASE h \in ignorable_actions[d] \cup {"Delete"} -> "delete_local"
                     [] h = "Modified" /\ location_relpath_id[d] # 0 -> "read_mod"
                     [] OTHER -> "register"
  <2>1. {"Add", "Modified"} \subseteq Actions
    BY Zenon DEF Actions
  <2> QED BY <1>1, <1>2, <2>1 DEF FirstLocal, Goto
<1>4. hpc'[d] \in {"delete_local", "read_mod", "register"}
  BY <1>3, Zenon
<1>5. Skip(d) = 0 /\ Skip(d)' = 1
  BY <1>1, <1>4, Zenon DEF Skip
<1>6. Announced(d) => Announced(d)'
  <2> SUFFICES ASSUME Announced(d), NEW a \in ignorable_actions'[d]
               PROVE  Has(events'[d], Skip(d)', a)
    BY Zenon DEF Announced
  <2>1. a \in ignorable_actions[d] /\ a # h /\ a \in Actions
    BY <1>1, <1>3, Zenon
  <2>2. Has(events[d], 0, a)
    BY <1>5, <2>1, Zenon DEF Announced
  <2>3. Has(events[d], 1, a)
    BY <1>1, <1>2, <2>1, <2>2, FirstTaken, Zenon
  <2> QED BY <1>1, <1>5, <2>3, Zenon
<1>7. ASSUME Noticed(d) PROVE Noticed(d)'
  <2>1. CASE hpc'[d] \in {"read_mod", "register"}
    BY <2>1, Zenon DEF Noticed, Reading
  <2>2. CASE hpc'[d] = "delete_local"
    <3>1. h \in ignorable_actions[d] \cup {"Delete"}
      BY <1>3, <2>2, Zenon
    <3>2. PICK a \in {"Add", "Modified"} :
            /\ Has(events[d], 0, a)
            /\ a \in ignorable_actions[d] => Twice(events[d], 0, a)
      BY <1>1, <1>5, <1>7, Zenon DEF Noticed, Reading
    <3>3. a \in Actions
      BY <1>3, <3>2, Zenon
    <3>4. CASE a = h
      <4>1. Twice(events[d], 0, a) /\ a \notin ignorable_actions'[d]
        BY <1>3, <3>1, <3>2, <3>4, Zenon
      <4>2. Has(events[d], 1, a)
        BY <1>1, <3>3, <4>1, FirstTaken, Zenon
      <4> QED BY <1>1, <1>5, <4>1, <4>2, Zenon DEF Noticed
    <3>5. CASE a # h
      <4>1. /\ Has(events[d], 1, a)
            /\ Twice(events[d], 0, a) => Twice(events[d], 1, a)
        BY <1>1, <1>2, <3>2, <3>3, <3>5, FirstTaken, Zenon
      <4>2. a \in ignorable_actions'[d] => a \in ignorable_actions[d]
        BY <1>3, Zenon
      <4>3. a \in ignorable_actions'[d] => Twice(events[d], 1, a)
        BY <3>2, <4>1, <4>2, Zenon
      <4> QED BY <1>1, <1>5, <4>1, <4>3, Zenon DEF Noticed
    <3> QED BY <3>4, <3>5, Zenon
  <2> QED BY <1>4, <2>1, <2>2, Zenon
<1> QED BY <1>1, <1>6, <1>7, Zenon DEF Told

\* Run deletes the event it has dealt with.
LEMMA DeleteLocalTold ==
  ASSUME TInv, NEW d \in Devices, Told(d), DeleteLocal(d)
  PROVE  Told(d)'
<1>1. /\ events \in [Devices -> Seq(Actions)] /\ events[d] # <<>>
      /\ events'[d] = Tail(events[d]) /\ ignorable_actions' = ignorable_actions
      /\ ignorable_actions \in [Devices -> SUBSET {"Add", "Modified"}]
      /\ hpc[d] = "delete_local" /\ hpc'[d] = "first" /\ key[d] = None /\ key' = key
      /\ mixed' = mixed /\ unread' = unread
  BY Zenon DEF TInv, Files, Places, Local, DeleteLocal, Goto, history
<1>2. Skip(d) = 1 /\ Skip(d)' = 0 /\ {"Add", "Modified"} \subseteq Actions
  BY <1>1, Zenon DEF Skip, Actions
<1>3. \A a \in {"Add", "Modified"} :
        /\ Has(events[d], 1, a) => Has(events'[d], 0, a)
        /\ Twice(events[d], 1, a) => Twice(events'[d], 0, a)
  BY <1>1, <1>2, FirstDeleted
<1>4. Announced(d) => Announced(d)'
  <2>1. \A a \in ignorable_actions[d] : a \in {"Add", "Modified"}
    BY <1>1, Zenon
  <2> QED BY <1>1, <1>2, <1>3, <2>1, Zenon DEF Announced
<1>5. ASSUME Noticed(d) PROVE Noticed(d)'
  <2>1. hpc[d] \notin Reading
    BY <1>1, Zenon DEF Reading
  <2> QED BY <1>1, <1>2, <1>3, <1>5, <2>1, Zenon DEF Noticed
<1> QED BY <1>1, <1>4, <1>5, Zenon DEF Told

\* The end of the process forgets every announced action.
LEMMA EndTold ==
  ASSUME TInv, NEW d \in Devices, End(d)
  PROVE  Told(d)'
<1>1. ignorable_actions'[d] = {} /\ hpc'[d] = "ended"
  BY Zenon DEF TInv, Files, Places, End
<1> QED BY <1>1, Zenon DEF Told, Announced, Noticed, Reading

\* The listing at start makes an event for a file that is there.
LEMMA StartTold ==
  ASSUME TInv, NEW d \in Devices, Left(d), Start(d)
  PROVE  Told(d)'
<1>1. /\ events \in [Devices -> Seq(Actions)] /\ events[d] \in Seq(Actions)
      /\ hpc[d] = "ended" /\ hpc'[d] = "first"
      /\ ignorable_actions' = ignorable_actions /\ ignorable_actions[d] = {}
      /\ unread' = unread /\ "Add" \in Actions /\ Apart \in BOOLEAN
  BY SyncAssumption, Zenon DEF TInv, Files, Places, Left, Start, Goto, Actions
<1>2. Skip(d)' = 0
  BY <1>1, Zenon DEF Skip
<1>3. Announced(d)'
  BY <1>1, Zenon DEF Announced
<1>4. ASSUME d \in unread', d \notin mixed' PROVE Noticed(d)'
  <2>1. disk[d] # NoFile
    BY <1>1, <1>4, Zenon DEF Left
  <2>2. PICK q \in Queued(events[d], "Add", Apart) :
          events' = [events EXCEPT ![d] = q] /\ Len(q) > Len(events[d])
    BY <1>4, <2>1, Zenon DEF Start
  <2>3. q = Append(events[d], "Add")
    BY <1>1, <2>2, QueuedForms
  <2>4. Has(q, 0, "Add")
    <3>1. 0 \in 0 .. 1 /\ 0 <= Len(events[d])
      BY <1>1
    <3> QED BY <1>1, <2>3, <3>1, OneMore, Zenon
  <2>5. events'[d] = q
    BY <1>1, <2>2, Zenon
  <2> QED BY <1>1, <1>2, <2>4, <2>5, Zenon DEF Noticed
<1> QED BY <1>3, <1>4, Zenon DEF Told

\* A change by the user.
LEMMA ChangeTold ==
  ASSUME TInv, NEW d \in Devices, Told(d), NEW c \in Contents \cup {NoFile},
         NEW moved \in BOOLEAN, Change(d, c, moved)
  PROVE  Told(d)'
<1>1. /\ events \in [Devices -> Seq(Actions)] /\ events[d] \in Seq(Actions)
      /\ ignorable_actions \in [Devices -> SUBSET {"Add", "Modified"}]
      /\ ignorable_actions' = ignorable_actions /\ hpc' = hpc /\ key' = key
  BY Zenon DEF TInv, Files, Change, handlerVars
<1>2. PICK k \in 0 .. 1 : k = Skip(d) /\ k = Skip(d)' /\ k <= Len(events[d])
  <2>1. CASE key[d] = None /\ hpc[d] \notin {"first", "ended"}
    <3>1. events[d] # <<>>
      BY <2>1, Zenon DEF TInv, Places, Local, Remote, Either
    <3>2. 1 <= Len(events[d]) /\ 1 \in 0 .. 1
      BY <1>1, <3>1
    <3>3. Skip(d) = 1 /\ Skip(d)' = 1
      BY <1>1, <2>1, Zenon DEF Skip
    <3> QED BY <3>2, <3>3, Zenon
  <2>2. CASE ~(key[d] = None /\ hpc[d] \notin {"first", "ended"})
    <3>1. 0 <= Len(events[d]) /\ 0 \in 0 .. 1
      BY <1>1
    <3>2. Skip(d) = 0 /\ Skip(d)' = 0
      BY <1>1, <2>2, Zenon DEF Skip
    <3> QED BY <3>1, <3>2, Zenon
  <2> QED BY <2>1, <2>2, Zenon
<1>3. PICK q \in Reported(d, c, moved) :
        /\ events' = [events EXCEPT ![d] = q]
        /\ mixed' = IF Len(q) > Len(events[d]) THEN mixed ELSE mixed \cup {d}
  BY Zenon DEF Change
<1>4. events'[d] = q
  BY <1>1, <1>3, Zenon
<1> SUFFICES ASSUME d \notin mixed'
             PROVE  Announced(d)' /\ (d \in unread' => Noticed(d)')
  BY Zenon DEF Told
<1>5. d \notin mixed /\ Len(q) > Len(events[d])
  BY <1>3, Zenon
<1>6. /\ \A b \in {"Add", "Modified"} : Has(events[d], k, b) => Has(q, k, b)
      /\ c # NoFile => Gains(events[d], q, k)
  BY <1>1, <1>2, <1>3, <1>5, EventsOfChange, Zenon
<1>7. \A a \in ignorable_actions[d] : Has(events[d], k, a) /\ a \in {"Add", "Modified"}
  BY <1>1, <1>2, <1>5, Zenon DEF Told, Announced
<1>8. Announced(d)'
  BY <1>1, <1>2, <1>4, <1>6, <1>7, Zenon DEF Announced
<1>9. ASSUME d \in unread' PROVE Noticed(d)'
  <2>1. Gains(events[d], q, k)
    BY <1>6, <1>9, Zenon DEF Change
  <2>2. PICK a \in {"Add", "Modified"} :
          Has(q, k, a) /\ (Has(events[d], k, a) => Twice(q, k, a))
    BY <2>1, Zenon DEF Gains
  <2> QED BY <1>1, <1>2, <1>4, <1>7, <2>2, Zenon DEF Noticed
<1> QED BY <1>8, <1>9, Zenon

LEMMA LeftStep ==
  ASSUME TInv, NEW d \in Devices, NEW e \in Devices, Left(e),
         \/ PollerStep(d) \/ HandlerStep(d) \/ Crash(d) \/ Start(d)
         \/ \E c \in Contents \cup {NoFile}, moved \in BOOLEAN : Change(d, c, moved)
  PROVE  Left(e)'
<1>1. /\ disk \in [Devices -> Stored \cup {NoFile}] /\ NoFile \notin Stored
      /\ current \in [Devices -> Stored]
      /\ ignorable_actions \in [Devices -> SUBSET {"Add", "Modified"}]
      /\ hpc \in [Devices -> Local \cup Remote \cup Either \cup {"first", "ended"}]
  BY SyncAssumption, Zenon DEF TInv, Files, Places, Stored
<1>2. CASE PollerStep(d)
  BY <1>1, <1>2, Zenon DEF Left, PollerStep, Persist, PersistedUpdates, deviceVars,
     handlerVars, history
<1>3. CASE End(d)
  BY <1>1, <1>3, Zenon DEF Left, End
<1>4. CASE Start(d)
  BY <1>1, <1>4, Zenon DEF Left, Start, Goto
<1>5. CASE \E c \in Contents \cup {NoFile}, moved \in BOOLEAN : Change(d, c, moved)
  BY <1>1, <1>5, Zenon DEF Left, Change, handlerVars
<1>6. CASE WriteFile(d)
  BY <1>1, <1>6, Zenon DEF Left, WriteFile, Goto
<1>7. CASE FirstLocal(d)
  BY <1>1, <1>7, Zenon DEF Left, FirstLocal, Goto, history
<1>8. CASE FirstRemote(d) \/ RemoteAdd(d) \/ RemoteMod(d) \/ DeleteRemote(d)
  BY <1>1, <1>8, Zenon DEF Left, FirstRemote, RemoteAdd, RemoteMod, DeleteRemote, Goto,
     deviceVars, history
<1>9. CASE Register(d) \/ ReadFile(d) \/ DeleteLocal(d)
  BY <1>1, <1>9, Zenon DEF Left, Register, ReadFile, DeleteLocal, Goto, deviceVars,
     history
<1>10. CASE UploadPackage(d) \/ RepeatUpload(d)
  BY <1>1, <1>10, Zenon DEF Left, UploadPackage, RepeatUpload, Goto, deviceVars, history
<1>11. CASE StoreHeadFile(d) \/ StoreHeadFileHash(d)
  BY <1>1, <1>11, Zenon DEF Left, StoreHeadFile, StoreHeadFileHash, Goto, history
<1>12. Crash(d) \/ RemoteAddCheckFails(d) \/ WriteCheckFails(d) => End(d)
  BY Zenon DEF Crash, RemoteAddCheckFails, WriteCheckFails
<1> QED
  BY <1>2, <1>3, <1>4, <1>5, <1>6, <1>7, <1>8, <1>9, <1>10, <1>11, <1>12, Zenon
     DEF HandlerStep

LEMMA ToldStep == TInv /\ SInv /\ [Next]_vars => SInv'
<1> SUFFICES ASSUME TInv, SInv, [Next]_vars PROVE SInv'
  BY Zenon
<1>1. CASE UNCHANGED vars
  <2>1. /\ events' = events /\ ignorable_actions' = ignorable_actions /\ hpc' = hpc
        /\ key' = key /\ mixed' = mixed /\ unread' = unread /\ disk' = disk
    BY <1>1, Zenon DEF vars, deviceVars, handlerVars, history
  <2>2. \A d \in Devices : Quiet(d) /\ (Left(d) => Left(d)')
    BY <2>1, Zenon DEF Quiet, Skip, Left
  <2> QED BY <2>2, QuietTold, Zenon DEF SInv
<1>2. CASE Next
  <2>1. PICK d \in Devices :
          \/ PollerStep(d) \/ HandlerStep(d) \/ Crash(d) \/ Start(d)
          \/ \E c \in Contents \cup {NoFile}, moved \in BOOLEAN : Change(d, c, moved)
    BY <1>2, Zenon DEF Next
  <2>2. \A e \in Devices : Left(e)'
    BY <2>1, LeftStep, Zenon DEF SInv
  <2>3. \A e \in Devices : e # d => Told(e)'
    BY <2>1, OthersQuiet, QuietTold, Zenon DEF SInv
  <2>4. Told(d)'
    <3>1. Told(d) /\ Left(d)
      BY Zenon DEF SInv
    <3>2. Crash(d) \/ RemoteAddCheckFails(d) \/ WriteCheckFails(d) => End(d)
      BY Zenon DEF Crash, RemoteAddCheckFails, WriteCheckFails
    <3>3. CASE \/ PollerStep(d) \/ FirstRemote(d) \/ RemoteAdd(d) \/ RemoteMod(d)
               \/ DeleteRemote(d) \/ Register(d) \/ ReadFile(d) \/ UploadPackage(d)
               \/ RepeatUpload(d) \/ StoreHeadFile(d) \/ StoreHeadFileHash(d)
      BY <3>1, <3>3, StepsQuiet, QuietTold, Zenon
    <3>4. CASE WriteFile(d) \/ FirstLocal(d) \/ DeleteLocal(d) \/ End(d)
      BY <3>1, <3>4, WriteTold, FirstLocalTold, DeleteLocalTold, EndTold, Zenon
    <3>5. CASE Start(d)
      BY <3>1, <3>5, StartTold, Zenon
    <3>6. CASE \E c \in Contents \cup {NoFile}, moved \in BOOLEAN : Change(d, c, moved)
      BY <3>1, <3>6, ChangeTold, Zenon
    <3> QED BY <2>1, <3>2, <3>3, <3>4, <3>5, <3>6, Zenon DEF HandlerStep
  <2> QED BY <2>2, <2>3, <2>4, Zenon DEF SInv
<1> QED BY <1>1, <1>2, Zenon

LEMMA InitSInv == Init => SInv
BY Zenon DEF Init, SInv, Told, Left, Announced, Noticed

LEMMA AlwaysTold == Spec => []SInv
BY InitSInv, ToldStep, AlwaysTyped, PTL DEF Spec

\* An action that SetIgnorableAction announced has its event in the queue, for any
\* number of devices, changes, crashes and lost answers, whatever events and
\* uploads share a second, as long as the device's events are one for one with
\* changes and announced writes.
THEOREM IgnorableAlwaysQueued == Spec => []IgnorableIsQueued
BY AlwaysTyped, AlwaysTold, SInvTells, PTL

\* Under the same condition IgnorableAction never swallows the last event of a
\* change that no handler has read or overwritten.
THEOREM ChangeAlwaysRead == Spec => []ChangeIsRead
BY AlwaysTyped, AlwaysTold, SInvTells, PTL
=============================================================================
