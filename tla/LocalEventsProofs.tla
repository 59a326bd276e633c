-------------------------- MODULE LocalEventsProofs --------------------------
(***************************************************************************)
(* Proofs about LocalEvents, for any number of files, changes, seconds and *)
(* ends of the process.                                                    *)
(***************************************************************************)
EXTENDS LocalEvents, TLAPS

-----------------------------------------------------------------------------
(* The inductive invariant *)

Types ==
  /\ TypeOK
  /\ clock \in 0 .. MaxClock /\ crashes \in Nat
  /\ stamped \subseteq Keys /\ coalesced \subseteq Paths

\* A path is LOCKED only while the handler adds the file.
LockInv ==
  /\ lock \subseteq {path}
  /\ lock # {} => hpc \in {"read_add", "upload", "store_file", "store_hash"}

\* In the first run the head file and its hash differ only between their writes.
HeadInv ==
  /\ hpc = "store_hash" => head_file[path] = current
  /\ crashes = 0 =>
       \A p \in Paths :
         /\ head_file[p] = head_file_hash[p] \/ (hpc = "store_hash" /\ path = p)
         /\ delta[p].type = "DELTA" => delta[p].base = delta[p].prev

\* Keys in use were given to an event; an event that is being queued is alone
\* with its key, unless its path has coalesced events.
KeyInv ==
  /\ \A k \in Keys : unfiltered[k] # Absent \/ update_queue_client[k] # Absent
                       => k \in stamped
  /\ \A w \in Threads : adding[w] # Idle => adding[w].key \in stamped
  /\ \A w \in Threads :
       adding[w] # Idle /\ adding[w].key[2] \notin coalesced =>
         /\ unfiltered[adding[w].key] = Absent
         /\ update_queue_client[adding[w].key] = Absent
         /\ \A v \in Threads \ {w} : adding[v] # Idle => adding[v].key # adding[w].key
  /\ fpc # "read" => unfiltered[ts_path] # Absent /\ state # Absent
  /\ hpc # "first" => update_queue_client[key] # Absent

\* A key stands for one action, wherever copies of it are, unless its path has
\* coalesced events.
ActionInv ==
  \A k \in Keys : k[2] \notin coalesced =>
    /\ unfiltered[k] # Absent /\ update_queue_client[k] # Absent
         => unfiltered[k] = update_queue_client[k]
    /\ fpc # "read" /\ ts_path = k => state = unfiltered[k]
    /\ hpc = "read_mod" /\ key = k => update_queue_client[k] = "Modified"
    /\ hpc = "delete" /\ key = k /\ update_queue_client[k] = "Add"
         => uploaded[k[2]] = head_file_hash[k[2]]

SentInv == hpc \in {"store_file", "store_hash"} => uploaded[path] = current

-----------------------------------------------------------------------------
USE EventsAssumption
USE DEF queues, filterVars, handlerVars, fileVars, userVars, history, path,
        Threads, Absent

\* The steps of Next.
LEMMA NextCases ==
  [Next]_vars =>
    \/ \E p \in Paths, c \in Contents \cup {Empty, NoFile}, a \in Actions : Change(p, c, a)
    \/ Tick \/ Crash \/ EnumerateFiles \/ handleFileAction
    \/ \E p \in Paths : Scan(p)
    \/ \E w \in Threads : GetExisting(w) \/ PutUnfiltered(w)
    \/ FilterRead \/ FilterPut \/ FilterDelete
    \/ FirstLocal \/ Register \/ AcquireLockPath \/ ReadFile \/ UploadPackage
    \/ StoreHeadFile \/ StoreHeadFileHash \/ DeleteLocal
    \/ UNCHANGED vars
  BY Zenon DEF Next, StartStep, WatcherStep, FilterStep, HandlerStep, Add

\* A key is of a path and of a second.
LEMMA KeyParts == \A k \in Keys : k[1] \in 0 .. MaxClock /\ k[2] \in Paths
  BY Zenon DEF Keys

\* What AddNewFileToUnfilteredQueue works on.
LEMMA ItemParts ==
  ASSUME Types, NEW w \in Threads
  PROVE  /\ adding[w] # Idle => /\ adding[w] \in Item /\ adding[w].key \in Keys
                                /\ adding[w].action \in Actions
         /\ adding[w].pc \in {"get", "put"} => adding[w] # Idle
  BY DEF Types, TypeOK, Item, Idle

\* The event handleFileAction takes, and what it leaves.
LEMMA Notes ==
  ASSUME inotify \in Seq(Note), inotify # <<>>
  PROVE  /\ Head(inotify) \in Note
         /\ Head(inotify).path \in Paths /\ Head(inotify).action \in Actions
         /\ Tail(inotify) \in Seq(Note)
         /\ \A i \in DOMAIN inotify :
              \/ inotify[i] = Head(inotify)
              \/ \E j \in DOMAIN Tail(inotify) : Tail(inotify)[j] = inotify[i]
<1>1. Head(inotify) \in Note /\ Tail(inotify) \in Seq(Note)
  OBVIOUS
<1>2. ASSUME NEW i \in DOMAIN inotify, i # 1
      PROVE  \E j \in DOMAIN Tail(inotify) : Tail(inotify)[j] = inotify[i]
  <2>1. i - 1 \in DOMAIN Tail(inotify) /\ Tail(inotify)[i - 1] = inotify[i]
    BY <1>2
  <2> QED BY <2>1, Zenon
<1>3. inotify[1] = Head(inotify)
  OBVIOUS
<1>4. Head(inotify).path \in Paths /\ Head(inotify).action \in Actions
  BY <1>1, Zenon DEF Note
<1> QED BY <1>1, <1>2, <1>3, <1>4, Zenon

\* A new event has a key of its own, or its path has coalesced events.
LEMMA StampKey ==
  ASSUME Types, KeyInv, NEW w \in Threads, NEW p \in Paths, NEW a \in Actions,
         Stamp(w, p, a)
  PROVE  KeyInv'
<1> DEFINE k == <<clock, p>>
<1> USE DEF KeyInv
<1>1. k \in Keys /\ k[2] = p
  BY Zenon DEF Keys, Types, TypeOK
<1>2. /\ adding' = [adding EXCEPT ![w] = [pc |-> "get", key |-> k, action |-> a]]
      /\ stamped' = stamped \cup {k} /\ adding[w] = Idle
      /\ coalesced' = IF k \in stamped THEN coalesced \cup {p} ELSE coalesced
      /\ UNCHANGED <<unfiltered, update_queue_client, fpc, ts_path, state, hpc, key>>
  BY Zenon DEF Stamp
<1>3. adding'[w].key = k /\ \A v \in Threads \ {w} : adding'[v] = adding[v]
  BY <1>2, Zenon DEF Types, TypeOK
<1> HIDE DEF k
<1>4. ASSUME NEW v \in Threads, adding'[v] # Idle, adding'[v].key[2] \notin coalesced'
      PROVE  /\ unfiltered'[adding'[v].key] = Absent
             /\ update_queue_client'[adding'[v].key] = Absent
             /\ \A u \in Threads \ {v} : adding'[u] # Idle => adding'[u].key # adding'[v].key
  <2>1. CASE v = w
    BY <1>1, <1>2, <1>3, <1>4, <2>1
  <2>2. CASE v # w
    BY <1>1, <1>2, <1>3, <1>4, <2>2
  <2> QED BY <2>1, <2>2, Zenon
<1>5. \A v \in Threads : adding'[v] # Idle => adding'[v].key \in stamped'
  BY <1>2, <1>3
<1> QED BY <1>2, <1>4, <1>5, Zenon

\* Initially.
LEMMA InitTypes == Init => Types
  BY DEF Init, Types, TypeOK, Keys, Actions, Idle, Snapshot, Note, Item, Content,
     Threads

\* Every step keeps the types.
LEMMA TypesStep == Types /\ [Next]_vars => Types'
<1> SUFFICES ASSUME Types, [Next]_vars PROVE Types'
  BY Zenon
<1> USE DEF Types, TypeOK, Content
<1> USE KeyParts
<1>1. ASSUME NEW p \in Paths, NEW c \in Contents \cup {Empty, NoFile}, NEW a \in Actions,
           Change(p, c, a) PROVE Types'
  BY <1>1 DEF Change, Note
<1>2. CASE Tick
  BY <1>2 DEF Tick
<1>3. CASE Crash
  BY <1>3 DEF Crash
<1>4. CASE EnumerateFiles
  BY <1>4, Zenon DEF EnumerateFiles, Files
<1>5. ASSUME NEW p \in Paths, Scan(p) PROVE Types'
  <2>1. <<clock, p>> \in Keys
    BY Zenon DEF Keys
  <2> QED BY <1>5, <2>1, Zenon DEF Scan, Stamp, Item, Actions
<1>6. CASE handleFileAction
  <2>1. /\ inotify' = Tail(inotify) /\ inotify \in Seq(Note) /\ inotify # <<>>
        /\ Stamp("watcher", Head(inotify).path, Head(inotify).action)
    BY <1>6, Zenon DEF handleFileAction
  <2>2. Head(inotify).path \in Paths /\ Head(inotify).action \in Actions
        /\ inotify' \in Seq(Note)
    BY <2>1, Notes, Zenon
  <2>3. <<clock, Head(inotify).path>> \in Keys
    BY <2>2, Zenon DEF Keys
  <2> QED BY <1>6, <2>2, <2>3, Zenon DEF handleFileAction, Stamp, Item
<1>7. ASSUME NEW w \in Threads, GetExisting(w) PROVE Types'
  BY <1>7, ItemParts, Zenon DEF GetExisting, Item
<1>8. ASSUME NEW w \in Threads, PutUnfiltered(w) PROVE Types'
  BY <1>8, ItemParts DEF PutUnfiltered
<1>9. CASE FilterRead
  BY <1>9 DEF FilterRead
<1>10. CASE FilterPut
  BY <1>10, Zenon DEF FilterPut
<1>11. CASE FilterDelete
  BY <1>11, Zenon DEF FilterDelete
<1>12. CASE FirstLocal
  BY <1>12, Zenon DEF FirstLocal
<1>13. CASE Register
  BY <1>13 DEF Register
<1>14. CASE AcquireLockPath
  BY <1>14, Zenon DEF AcquireLockPath
<1>15. CASE ReadFile
  BY <1>15, Zenon DEF ReadFile
<1>16. CASE UploadPackage
  <2>1. delta' \in [Paths -> {Snapshot} \cup
                         [type : {"DELTA"}, base : Content, prev : Content]]
    BY <1>16 DEF UploadPackage, Delta
  <2> QED BY <1>16, <2>1, Zenon DEF UploadPackage
<1>17. CASE StoreHeadFile
  BY <1>17, Zenon DEF StoreHeadFile
<1>18. CASE StoreHeadFileHash
  BY <1>18, Zenon DEF StoreHeadFileHash
<1>19. CASE DeleteLocal
  BY <1>19, Zenon DEF DeleteLocal
<1>20. CASE UNCHANGED vars
  BY <1>20, Zenon DEF vars
<1> QED BY <1>1, <1>2, <1>3, <1>4, <1>5, <1>6, <1>7, <1>8, <1>9, <1>10, <1>11, <1>12,
          <1>13, <1>14, <1>15, <1>16, <1>17, <1>18, <1>19, <1>20, NextCases, Zenon

\* Every step keeps LockInv: one handler adds one file at a time.
LEMMA LockStep == Types /\ LockInv /\ [Next]_vars => LockInv'
<1> SUFFICES ASSUME Types, LockInv, [Next]_vars PROVE LockInv'
  BY Zenon
<1> USE DEF LockInv
<1>1. ASSUME NEW p \in Paths, NEW c \in Contents \cup {Empty, NoFile}, NEW a \in Actions,
           Change(p, c, a) PROVE LockInv'
  BY <1>1, Zenon DEF Change
<1>2. CASE Tick
  BY <1>2, Zenon DEF Tick
<1>3. CASE Crash
  BY <1>3, Zenon DEF Crash
<1>4. CASE EnumerateFiles
  BY <1>4, Zenon DEF EnumerateFiles
<1>5. ASSUME NEW p \in Paths, Scan(p) PROVE LockInv'
  BY <1>5, Zenon DEF Scan, Stamp
<1>6. CASE handleFileAction
  BY <1>6, Zenon DEF handleFileAction, Stamp
<1>7. ASSUME NEW w \in Threads, GetExisting(w) PROVE LockInv'
  BY <1>7, Zenon DEF GetExisting
<1>8. ASSUME NEW w \in Threads, PutUnfiltered(w) PROVE LockInv'
  BY <1>8, Zenon DEF PutUnfiltered
<1>9. CASE FilterRead
  BY <1>9, Zenon DEF FilterRead
<1>10. CASE FilterPut
  BY <1>10, Zenon DEF FilterPut
<1>11. CASE FilterDelete
  BY <1>11, Zenon DEF FilterDelete
<1>12. CASE FirstLocal
  BY <1>12, Zenon DEF FirstLocal
<1>13. CASE Register
  BY <1>13, Zenon DEF Register
<1>14. CASE AcquireLockPath
  BY <1>14, Zenon DEF AcquireLockPath, Types, TypeOK
<1>15. CASE ReadFile
  BY <1>15, Zenon DEF ReadFile
<1>16. CASE UploadPackage
  BY <1>16, Zenon DEF UploadPackage
<1>17. CASE StoreHeadFile
  BY <1>17, Zenon DEF StoreHeadFile
<1>18. CASE StoreHeadFileHash
  BY <1>18, Zenon DEF StoreHeadFileHash
<1>19. CASE DeleteLocal
  BY <1>19, Zenon DEF DeleteLocal
<1>20. CASE UNCHANGED vars
  BY <1>20, Zenon DEF vars
<1> QED BY <1>1, <1>2, <1>3, <1>4, <1>5, <1>6, <1>7, <1>8, <1>9, <1>10, <1>11, <1>12,
          <1>13, <1>14, <1>15, <1>16, <1>17, <1>18, <1>19, <1>20, NextCases, Zenon

\* Every step keeps HeadInv.
LEMMA HeadStep == Types /\ LockInv /\ HeadInv /\ [Next]_vars => HeadInv'
<1> SUFFICES ASSUME Types, LockInv, HeadInv, [Next]_vars PROVE HeadInv'
  BY Zenon
<1> USE DEF HeadInv
<1> USE KeyParts
<1>1. ASSUME NEW p \in Paths, NEW c \in Contents \cup {Empty, NoFile}, NEW a \in Actions,
           Change(p, c, a) PROVE HeadInv'
  BY <1>1, Zenon DEF Change
<1>2. CASE Tick
  BY <1>2, Zenon DEF Tick
<1>3. CASE Crash
  BY <1>3 DEF Crash, Types, TypeOK
<1>4. CASE EnumerateFiles
  BY <1>4, Zenon DEF EnumerateFiles
<1>5. ASSUME NEW p \in Paths, Scan(p) PROVE HeadInv'
  BY <1>5, Zenon DEF Scan, Stamp
<1>6. CASE handleFileAction
  BY <1>6, Zenon DEF handleFileAction, Stamp
<1>7. ASSUME NEW w \in Threads, GetExisting(w) PROVE HeadInv'
  BY <1>7, Zenon DEF GetExisting
<1>8. ASSUME NEW w \in Threads, PutUnfiltered(w) PROVE HeadInv'
  BY <1>8, Zenon DEF PutUnfiltered
<1>9. CASE FilterRead
  BY <1>9, Zenon DEF FilterRead
<1>10. CASE FilterPut
  BY <1>10, Zenon DEF FilterPut
<1>11. CASE FilterDelete
  BY <1>11, Zenon DEF FilterDelete
<1>12. CASE FirstLocal
  BY <1>12, Zenon DEF FirstLocal
<1>13. CASE Register
  BY <1>13, Zenon DEF Register
<1>14. CASE AcquireLockPath
  BY <1>14, Zenon DEF AcquireLockPath
<1>15. CASE ReadFile
  BY <1>15, Zenon DEF ReadFile
<1>16. CASE UploadPackage
  BY <1>16 DEF UploadPackage, Types, TypeOK, Delta, Snapshot
<1>17. CASE StoreHeadFile
  BY <1>17, Zenon DEF StoreHeadFile, Types, TypeOK
<1>18. CASE StoreHeadFileHash
  BY <1>18 DEF StoreHeadFileHash, Types, TypeOK
<1>19. CASE DeleteLocal
  BY <1>19, Zenon DEF DeleteLocal
<1>20. CASE UNCHANGED vars
  BY <1>20, Zenon DEF vars
<1> QED BY <1>1, <1>2, <1>3, <1>4, <1>5, <1>6, <1>7, <1>8, <1>9, <1>10, <1>11, <1>12,
          <1>13, <1>14, <1>15, <1>16, <1>17, <1>18, <1>19, <1>20, NextCases, Zenon

\* Every step keeps KeyInv.
LEMMA KeyStep == Types /\ KeyInv /\ [Next]_vars => KeyInv'
<1> SUFFICES ASSUME Types, KeyInv, [Next]_vars PROVE KeyInv'
  OBVIOUS
<1> USE DEF KeyInv
<1> USE KeyParts
<1> USE DEF Types, TypeOK
<1>1. ASSUME NEW p \in Paths, NEW c \in Contents \cup {Empty, NoFile}, NEW a \in Actions,
           Change(p, c, a) PROVE KeyInv'
  BY <1>1 DEF Change
<1>2. CASE Tick
  BY <1>2 DEF Tick
<1>3. CASE Crash
  BY <1>3, Zenon DEF Crash
<1>4. CASE EnumerateFiles
  BY <1>4, Zenon DEF EnumerateFiles
<1>5. ASSUME NEW p \in Paths, Scan(p) PROVE KeyInv'
  <2>1. Stamp("start", p, "Add") /\ "Add" \in Actions
    BY <1>5, Zenon DEF Scan, Actions
  <2> QED BY <2>1, StampKey, Zenon
<1>6. CASE handleFileAction
  <2>1. Stamp("watcher", Head(inotify).path, Head(inotify).action) /\ inotify # <<>>
    BY <1>6, Zenon DEF handleFileAction
  <2>2. Head(inotify).path \in Paths /\ Head(inotify).action \in Actions
    BY <2>1, Notes, Zenon
  <2> QED BY <2>1, <2>2, StampKey, Zenon
<1>7. ASSUME NEW w \in Threads, GetExisting(w) PROVE KeyInv'
  BY <1>7, ItemParts DEF GetExisting, Idle
<1>8. ASSUME NEW w \in Threads, PutUnfiltered(w) PROVE KeyInv'
  <2> DEFINE k == adding[w].key
  <2>1. /\ adding[w] # Idle /\ k \in Keys /\ adding[w].action \in Actions
    BY <1>8, ItemParts, Zenon DEF PutUnfiltered
  <2>2. /\ unfiltered' = [unfiltered EXCEPT ![k] = adding[w].action]
        /\ adding' = [adding EXCEPT ![w] = Idle]
        /\ UNCHANGED <<update_queue_client, filterVars, handlerVars, history>>
    BY <1>8, Zenon DEF PutUnfiltered
  <2>3. \A v \in Threads : adding'[v] # Idle => v # w /\ adding'[v] = adding[v]
    BY <2>2, Zenon
  <2>4. \A j \in Keys : unfiltered'[j] = IF j = k THEN adding[w].action ELSE unfiltered[j]
    BY <2>1, <2>2, Zenon
  <2> HIDE DEF k
  <2>5. ASSUME NEW v \in Threads, adding'[v] # Idle, adding'[v].key[2] \notin coalesced'
        PROVE  adding[v].key # k /\ adding[v].key \in Keys
    BY <2>1, <2>2, <2>3, <2>5, ItemParts DEF k
  <2>6. adding[w].action # Absent
    BY <2>1, Zenon DEF Actions
  <2> QED BY <2>1, <2>2, <2>3, <2>4, <2>5, <2>6 DEF k
<1>9. CASE FilterRead
  BY <1>9 DEF FilterRead, FirstKey
<1>10. CASE FilterPut
  BY <1>10, Zenon DEF FilterPut
<1>11. CASE FilterDelete
  BY <1>11, Zenon DEF FilterDelete
<1>12. CASE FirstLocal
  BY <1>12 DEF FirstLocal, FirstKey
<1>13. CASE Register
  BY <1>13 DEF Register
<1>14. CASE AcquireLockPath
  BY <1>14 DEF AcquireLockPath
<1>15. CASE ReadFile
  BY <1>15 DEF ReadFile
<1>16. CASE UploadPackage
  BY <1>16 DEF UploadPackage
<1>17. CASE StoreHeadFile
  BY <1>17 DEF StoreHeadFile
<1>18. CASE StoreHeadFileHash
  BY <1>18 DEF StoreHeadFileHash
<1>19. CASE DeleteLocal
  BY <1>19 DEF DeleteLocal
<1>20. CASE UNCHANGED vars
  BY <1>20 DEF vars
<1> QED BY <1>1, <1>2, <1>3, <1>4, <1>5, <1>6, <1>7, <1>8, <1>9, <1>10, <1>11, <1>12,
          <1>13, <1>14, <1>15, <1>16, <1>17, <1>18, <1>19, <1>20, NextCases, Zenon

\* Every step keeps ActionInv and SentInv.
LEMMA ActionStep ==
  Types /\ KeyInv /\ ActionInv /\ SentInv /\ [Next]_vars => (ActionInv /\ SentInv)'
<1> SUFFICES ASSUME Types, KeyInv, ActionInv, SentInv, [Next]_vars
             PROVE  (ActionInv /\ SentInv)'
  BY Zenon
<1> USE DEF ActionInv, SentInv
<1> USE KeyParts
<1> USE DEF KeyInv
<1>1. ASSUME NEW p \in Paths, NEW c \in Contents \cup {Empty, NoFile}, NEW a \in Actions,
           Change(p, c, a) PROVE (ActionInv /\ SentInv)'
  BY <1>1, Zenon DEF Change
<1>2. CASE Tick
  BY <1>2, Zenon DEF Tick
<1>3. CASE Crash
  BY <1>3, Zenon DEF Crash
<1>4. CASE EnumerateFiles
  BY <1>4, Zenon DEF EnumerateFiles
<1>5. ASSUME NEW p \in Paths, Scan(p) PROVE (ActionInv /\ SentInv)'
  BY <1>5, Zenon DEF Scan, Stamp
<1>6. CASE handleFileAction
  BY <1>6, Zenon DEF handleFileAction, Stamp
<1>7. ASSUME NEW w \in Threads, GetExisting(w) PROVE (ActionInv /\ SentInv)'
  BY <1>7, ItemParts, Zenon DEF GetExisting, Idle
<1>8. ASSUME NEW w \in Threads, PutUnfiltered(w) PROVE (ActionInv /\ SentInv)'
  BY <1>8, ItemParts DEF PutUnfiltered, Item
<1>9. CASE FilterRead
  BY <1>9, Zenon DEF FilterRead
<1>10. CASE FilterPut
  BY <1>10 DEF FilterPut
<1>11. CASE FilterDelete
  BY <1>11 DEF FilterDelete
<1>12. CASE FirstLocal
  BY <1>12 DEF FirstLocal
<1>13. CASE Register
  BY <1>13, Zenon DEF Register
<1>14. CASE AcquireLockPath
  BY <1>14, Zenon DEF AcquireLockPath
<1>15. CASE ReadFile
  BY <1>15, Zenon DEF ReadFile
<1>16. CASE UploadPackage
  BY <1>16, Zenon DEF UploadPackage, Types, TypeOK
<1>17. CASE StoreHeadFile
  BY <1>17, Zenon DEF StoreHeadFile
<1>18. CASE StoreHeadFileHash
  BY <1>18, Zenon DEF StoreHeadFileHash, Types, TypeOK
<1>19. CASE DeleteLocal
  BY <1>19 DEF DeleteLocal
<1>20. CASE UNCHANGED vars
  BY <1>20, Zenon DEF vars
<1> QED BY <1>1, <1>2, <1>3, <1>4, <1>5, <1>6, <1>7, <1>8, <1>9, <1>10, <1>11, <1>12,
          <1>13, <1>14, <1>15, <1>16, <1>17, <1>18, <1>19, <1>20, NextCases, Zenon

-----------------------------------------------------------------------------
(* The theorems *)

TInv == Types /\ LockInv /\ HeadInv /\ KeyInv /\ ActionInv /\ SentInv

\* These parts of the invariant hold in every state.
THEOREM TypeInvariance == Spec => []TInv
<1>1. Init => TInv
  <2> SUFFICES ASSUME Init PROVE TInv
    BY Zenon
  <2>1. Types
    BY InitTypes, Zenon
  <2>2. LockInv /\ HeadInv /\ SentInv
    BY Zenon DEF Init, LockInv, HeadInv, SentInv, Snapshot
  <2>3. KeyInv /\ ActionInv
    BY Zenon DEF Init, KeyInv, ActionInv
  <2> QED BY <2>1, <2>2, <2>3, Zenon DEF TInv
<1>2. TInv /\ [Next]_vars => TInv'
  BY TypesStep, LockStep, HeadStep, KeyStep, ActionStep, Zenon DEF TInv
<1> QED BY <1>1, <1>2, PTL DEF Spec

\* The queues, the locals of the threads and what the server stores keep their
\* types; in particular what is read of a missing file is the empty string.
THEOREM TypeCorrect == Spec => []TypeOK
<1>1. TInv => TypeOK
  BY Zenon DEF TInv, Types, TypeOK
<1> QED BY <1>1, TypeInvariance, PTL

\* The CHECK in HandleAddAction never fails, wherever the process ended before.
THEOREM LockAlwaysFree == Spec => []LockIsFree
<1>1. TInv => LockIsFree
  BY Zenon DEF TInv, LockInv, LockIsFree
<1> QED BY <1>1, TypeInvariance, PTL

\* In a run that does not end in between, the hash sent with a delta is the hash
\* of the version the delta applies to.
THEOREM DeltasFitInOneRun == Spec => []DeltaFitsInOneRun
<1>1. TInv => DeltaFitsInOneRun
  BY Zenon DEF TInv, HeadInv, DeltaFitsInOneRun, DeltaFitsPrevHash
<1> QED BY <1>1, TypeInvariance, PTL

-----------------------------------------------------------------------------
(* No change of a file is forgotten: the inductive invariant *)

\* An event of p with an action in A that has not reached the queues.
Before(p, A) ==
  \/ scan = Unlisted \/ p \in scan
  \/ \E i \in DOMAIN inotify : inotify[i].path = p /\ inotify[i].action \in A
  \/ \E w \in Threads : adding[w] # Idle /\ adding[w].key[2] = p /\ adding[w].action \in A

\* A copy of the event with key k that is in a queue and not about to be moved.
Copy(k, A) ==
  \/ unfiltered[k] \in A /\ ~(fpc = "delete" /\ ts_path = k)
  \/ update_queue_client[k] \in A

\* One that the handler has still to take; done: it is done with its key.
InQueues(p, A, done) ==
  \E k \in Keys : k[2] = p /\ Copy(k, A) /\ (k = key => ~done)

OnItsWay(p) ==
  \/ Before(p, {"Add", "Modified"})
  \/ InQueues(p, {"Add", "Modified"}, ~BeforeRead)
  \/ hpc = "upload" /\ path = p /\ current = disk[p]

AddOnItsWay(p) == Before(p, {"Add"}) \/ InQueues(p, {"Add"}, hpc = "delete")

\* The server's version is not the file's, or will not be when the upload that is
\* under way arrives.
Stale(p) ==
  /\ disk[p] # NoFile
  /\ uploaded[p] # disk[p] \/ (hpc = "upload" /\ path = p /\ current # disk[p])

\* ChangeNotForgotten without the copies of an event that are about to go.
PendingInv == \A p \in Paths \ coalesced : Stale(p) => OnItsWay(p)

\* When the process ended between UploadPackage and the write of the hash, an
\* addition will be handled, which does not compare the hash.
HashInv ==
  \A p \in Paths \ coalesced :
    head_file_hash[p] # uploaded[p] =>
      \/ disk[p] = NoFile
      \/ AddOnItsWay(p)
      \/ hpc \in {"store_file", "store_hash"} /\ path = p

-----------------------------------------------------------------------------
\* Only the handler's steps and the end of the process change its locals and what
\* it knows of the server.
LEMMA HandlerChanges ==
  [Next]_vars =>
    \/ UNCHANGED <<hpc, key, current, uploaded, head_file_hash>>
    \/ Crash
    \/ FirstLocal \/ Register \/ AcquireLockPath \/ ReadFile \/ UploadPackage
    \/ StoreHeadFile \/ StoreHeadFileHash \/ DeleteLocal
  BY NextCases, Zenon DEF Change, Tick, EnumerateFiles, handleFileAction, Scan, Stamp,
       GetExisting, PutUnfiltered, FilterRead, FilterPut, FilterDelete, vars

\* Only the user changes files.
LEMMA DiskChanges ==
  [Next]_vars =>
    \/ UNCHANGED disk
    \/ \E p \in Paths, c \in Contents \cup {Empty, NoFile}, a \in Actions : Change(p, c, a)
  BY NextCases, Zenon DEF Tick, Crash, EnumerateFiles, handleFileAction, Scan, Stamp,
       GetExisting, PutUnfiltered, FilterRead, FilterPut, FilterDelete, FirstLocal,
       Register, AcquireLockPath, ReadFile, UploadPackage, StoreHeadFile,
       StoreHeadFileHash, DeleteLocal, vars

\* Paths with coalesced events are never forgotten.
LEMMA CoalescedGrows == [Next]_vars => coalesced \subseteq coalesced'
  BY NextCases, Zenon DEF Change, Tick, Crash, EnumerateFiles, handleFileAction, Scan, Stamp,
       GetExisting, PutUnfiltered, FilterRead, FilterPut, FilterDelete, FirstLocal,
       Register, AcquireLockPath, ReadFile, UploadPackage, StoreHeadFile,
       StoreHeadFileHash, DeleteLocal, vars

\* A copy of an event is lost only when the handler deletes its key.
LEMMA CopyStep ==
  ASSUME Types, KeyInv, ActionInv, [Next]_vars,
         NEW k \in Keys, k[2] \notin coalesced', NEW A \in SUBSET Actions, Copy(k, A)
  PROVE  Copy(k, A)' \/ (hpc = "delete" /\ key = k)
<1> USE DEF Copy, KeyInv, ActionInv
<1> DEFINE Goal == Copy(k, A)' \/ (hpc = "delete" /\ key = k)
<1>0. k[2] \notin coalesced
  BY CoalescedGrows, Zenon
<1>1. ASSUME NEW p \in Paths, NEW c \in Contents \cup {Empty, NoFile}, NEW a \in Actions,
           Change(p, c, a)
      PROVE  Goal
  BY <1>1, Zenon DEF Change
<1>2. CASE Tick
  BY <1>2, Zenon DEF Tick
<1>3. CASE Crash
  BY <1>3, Zenon DEF Crash
<1>4. CASE EnumerateFiles
  BY <1>4, Zenon DEF EnumerateFiles
<1>5. ASSUME NEW p \in Paths, Scan(p)
      PROVE  Goal
  BY <1>5, Zenon DEF Scan, Stamp
<1>6. CASE handleFileAction
  BY <1>6, Zenon DEF handleFileAction, Stamp
<1>7. ASSUME NEW w \in Threads, GetExisting(w)
      PROVE  Goal
  BY <1>7, Zenon DEF GetExisting
<1>8. ASSUME NEW w \in Threads, PutUnfiltered(w)
      PROVE  Goal
  BY <1>8, <1>0, ItemParts DEF PutUnfiltered, Types, TypeOK, Actions
<1>9. CASE FilterRead
  BY <1>9, Zenon DEF FilterRead
<1>10. CASE FilterPut
  BY <1>10, <1>0 DEF FilterPut, Types, TypeOK, Actions
<1>11. CASE FilterDelete
  BY <1>11 DEF FilterDelete
<1>12. CASE FirstLocal
  BY <1>12, Zenon DEF FirstLocal
<1>13. CASE Register
  BY <1>13, Zenon DEF Register
<1>14. CASE AcquireLockPath
  BY <1>14, Zenon DEF AcquireLockPath
<1>15. CASE ReadFile
  BY <1>15, Zenon DEF ReadFile
<1>16. CASE UploadPackage
  BY <1>16, Zenon DEF UploadPackage
<1>17. CASE StoreHeadFile
  BY <1>17, Zenon DEF StoreHeadFile
<1>18. CASE StoreHeadFileHash
  BY <1>18, Zenon DEF StoreHeadFileHash
<1>19. CASE DeleteLocal
  BY <1>19 DEF DeleteLocal
<1>20. CASE UNCHANGED vars
  BY <1>20, Zenon DEF vars
<1> QED BY <1>1, <1>2, <1>3, <1>4, <1>5, <1>6, <1>7, <1>8, <1>9, <1>10, <1>11, <1>12,
          <1>13, <1>14, <1>15, <1>16, <1>17, <1>18, <1>19, <1>20, NextCases, Zenon

\* An event that has not reached the queues moves on towards them; EnumerateFiles
\* lists every file.
LEMMA BeforeStep ==
  ASSUME Types, KeyInv, [Next]_vars,
         NEW p \in Paths, p \notin coalesced', disk[p] # NoFile,
         NEW A \in SUBSET Actions, "Add" \in A, Before(p, A)
  PROVE  \/ Before(p, A)'
         \/ \E k \in Keys : k[2] = p /\ Copy(k, A)' /\ (k = key' => hpc' = "first")
<1> USE DEF Before
<1> DEFINE Goal == \/ Before(p, A)'
                \/ \E k \in Keys : k[2] = p /\ Copy(k, A)' /\ (k = key' => hpc' = "first")
<1>0. p \notin coalesced
  BY CoalescedGrows, Zenon
<1>1. ASSUME NEW q \in Paths, NEW c \in Contents \cup {Empty, NoFile}, NEW a \in Actions,
             Change(q, c, a)
      PROVE  Goal
  <2>1. \A i \in DOMAIN inotify : i \in DOMAIN inotify' /\ inotify'[i] = inotify[i]
    BY <1>1 DEF Change, Types, TypeOK, Note
  <2> QED BY <1>1, <2>1, Zenon DEF Change
<1>2. CASE Tick
  BY <1>2, Zenon DEF Tick
<1>3. CASE Crash
  BY <1>3, Zenon DEF Crash
<1>4. CASE EnumerateFiles
  BY <1>4, Zenon DEF EnumerateFiles, Files
<1>5. ASSUME NEW q \in Paths, Scan(q)
      PROVE  Goal
  <2>1. /\ adding["start"] = Idle /\ scan' = scan \ {q} /\ inotify' = inotify
        /\ adding' = [adding EXCEPT !["start"] =
                        [pc |-> "get", key |-> <<clock, q>>, action |-> "Add"]]
    BY <1>5, Zenon DEF Scan, Stamp
  <2>2. /\ adding'["start"].key[2] = q /\ adding'["start"].action = "Add"
        /\ adding'["start"] # Idle /\ adding'["watcher"] = adding["watcher"]
    BY <2>1, Zenon DEF Types, TypeOK, Idle
  <2> QED BY <1>5, <2>1, <2>2, Zenon DEF Scan
<1>6. CASE handleFileAction
  <2> DEFINE e == Head(inotify)
  <2>1. /\ adding["watcher"] = Idle /\ scan' = scan /\ inotify' = Tail(inotify)
        /\ adding' = [adding EXCEPT !["watcher"] =
                        [pc |-> "get", key |-> <<clock, e.path>>, action |-> e.action]]
        /\ inotify # <<>>
    BY <1>6, Zenon DEF handleFileAction, Stamp
  <2>2. /\ adding'["watcher"].key[2] = e.path /\ adding'["watcher"].action = e.action
        /\ adding'["watcher"] # Idle /\ adding'["start"] = adding["start"]
    BY <2>1, Zenon DEF Types, TypeOK, Idle
  <2>3. \A i \in DOMAIN inotify :
          inotify[i] = e \/ \E j \in DOMAIN inotify' : inotify'[j] = inotify[i]
    BY <2>1, Notes, Zenon DEF Types, TypeOK
  <2> QED BY <2>1, <2>2, <2>3
<1>7. ASSUME NEW w \in Threads, GetExisting(w)
      PROVE  Goal
  <2>1. adding[w] # Idle
    BY <1>7, ItemParts, Zenon DEF GetExisting
  <2>2. CASE adding[w].key[2] = p
    <3>1. unfiltered[adding[w].key] = Absent
      BY <1>0, <2>1, <2>2, Zenon DEF KeyInv
    <3>2. adding' = [adding EXCEPT ![w] = [@ EXCEPT !.pc = "put"]]
      BY <1>7, <3>1, Zenon DEF GetExisting
    <3>3. \A v \in Threads : adding[v] # Idle =>
            /\ adding'[v] # Idle /\ adding'[v].key = adding[v].key
            /\ adding'[v].action = adding[v].action
      BY <2>1, <3>2, ItemParts, Zenon DEF Types, TypeOK, Item, Idle
    <3> QED BY <1>7, <3>3, Zenon DEF GetExisting
  <2>3. CASE adding[w].key[2] # p
    <3>1. \A v \in Threads \ {w} : adding'[v] = adding[v]
      BY <1>7, Zenon DEF GetExisting, Types, TypeOK
    <3> QED BY <1>7, <2>3, <3>1 DEF GetExisting
  <2> QED BY <2>2, <2>3, Zenon
<1>8. ASSUME NEW w \in Threads, PutUnfiltered(w)
      PROVE  Goal
  <2>1. PICK k \in Keys : k = adding[w].key /\ adding[w] # Idle
    BY <1>8, ItemParts, Zenon DEF PutUnfiltered
  <2>2. \A v \in Threads \ {w} : adding'[v] = adding[v]
    BY <1>8, Zenon DEF PutUnfiltered, Types, TypeOK
  <2>3. ASSUME k[2] = p, adding[w].action \in A
        PROVE  Copy(k, A)' /\ (k = key' => hpc' = "first")
    <3>1. unfiltered[k] = Absent /\ update_queue_client[k] = Absent
      BY <1>0, <2>1, <2>3, Zenon DEF KeyInv
    <3>2. unfiltered'[k] \in A
      BY <1>8, <2>1, <2>3, Zenon DEF PutUnfiltered, Types, TypeOK
    <3> QED BY <1>8, <3>1, <3>2, Zenon DEF PutUnfiltered, Copy, KeyInv
  <2> QED BY <1>8, <2>1, <2>2, <2>3 DEF PutUnfiltered
<1>9. CASE FilterRead
  BY <1>9, Zenon DEF FilterRead
<1>10. CASE FilterPut
  BY <1>10, Zenon DEF FilterPut
<1>11. CASE FilterDelete
  BY <1>11, Zenon DEF FilterDelete
<1>12. CASE FirstLocal
  BY <1>12, Zenon DEF FirstLocal
<1>13. CASE Register
  BY <1>13, Zenon DEF Register
<1>14. CASE AcquireLockPath
  BY <1>14, Zenon DEF AcquireLockPath
<1>15. CASE ReadFile
  BY <1>15, Zenon DEF ReadFile
<1>16. CASE UploadPackage
  BY <1>16, Zenon DEF UploadPackage
<1>17. CASE StoreHeadFile
  BY <1>17, Zenon DEF StoreHeadFile
<1>18. CASE StoreHeadFileHash
  BY <1>18, Zenon DEF StoreHeadFileHash
<1>19. CASE DeleteLocal
  BY <1>19, Zenon DEF DeleteLocal
<1>20. CASE UNCHANGED vars
  BY <1>20, Zenon DEF vars
<1> QED BY <1>1, <1>2, <1>3, <1>4, <1>5, <1>6, <1>7, <1>8, <1>9, <1>10, <1>11, <1>12,
          <1>13, <1>14, <1>15, <1>16, <1>17, <1>18, <1>19, <1>20, NextCases, Zenon

\* A change by the user of an existing or new file makes an event.
LEMMA ChangeNotes ==
  ASSUME Types, NEW p \in Paths, disk'[p] # disk[p], disk'[p] # NoFile, [Next]_vars
  PROVE  \E i \in DOMAIN inotify' :
           /\ inotify'[i].path = p /\ inotify'[i].action \in {"Add", "Modified"}
           /\ disk[p] = NoFile => inotify'[i].action = "Add"
<1>1. PICK q \in Paths, c \in Contents \cup {Empty, NoFile}, a \in Actions : Change(q, c, a)
  BY DiskChanges, Zenon
<1>2. q = p /\ c # NoFile
  BY <1>1, Zenon DEF Change, Types, TypeOK
<1>3. a \in {"Add", "Modified"} /\ (disk[p] = NoFile => a = "Add")
  BY <1>1, <1>2, Zenon DEF Change, Reported
<1>4. inotify' = Append(inotify, [path |-> p, action |-> a]) /\ inotify \in Seq(Note)
  BY <1>1, <1>2, Zenon DEF Change, Types, TypeOK
<1>5. /\ Len(inotify) + 1 \in DOMAIN inotify'
      /\ inotify'[Len(inotify) + 1] = [path |-> p, action |-> a]
  BY <1>4
<1> QED BY <1>3, <1>5

\* Every step keeps PendingInv.
LEMMA PendingStep ==
  Types /\ KeyInv /\ ActionInv /\ PendingInv /\ HashInv /\ [Next]_vars => PendingInv'
<1> SUFFICES ASSUME Types, KeyInv, ActionInv, PendingInv, HashInv, [Next]_vars,
                    NEW p \in Paths, p \notin coalesced', Stale(p)'
             PROVE  OnItsWay(p)'
  BY Zenon DEF PendingInv
<1> DEFINE A == {"Add", "Modified"}
<1> USE KeyParts
<1>0. p \notin coalesced /\ A \in SUBSET Actions /\ "Add" \in A
  BY CoalescedGrows, Zenon DEF Actions
<1>1. CASE disk'[p] # disk[p]
  BY <1>1, ChangeNotes, Zenon DEF Stale, OnItsWay, Before
<1>2. CASE disk'[p] = disk[p] /\ ~Stale(p)
  <2>1. /\ disk[p] # NoFile /\ uploaded[p] = disk[p]
        /\ ~(hpc = "upload" /\ path = p /\ current # disk[p])
    BY <1>2, Zenon DEF Stale
  <2>2. uploaded'[p] # disk[p] \/ (hpc' = "upload" /\ path' = p /\ current' # disk[p])
    BY <1>2, Zenon DEF Stale
  <2>3. CASE Crash
    BY <2>3, Zenon DEF Crash, OnItsWay, Before
  <2>4. CASE UploadPackage
    BY <2>1, <2>2, <2>4, Zenon DEF UploadPackage, Types, TypeOK
  <2>5. CASE ReadFile
    BY <2>1, <2>2, <2>5, Zenon DEF ReadFile
  <2> QED BY <2>1, <2>2, <2>3, <2>4, <2>5, HandlerChanges, Zenon DEF FirstLocal, Register,
            AcquireLockPath, StoreHeadFile, StoreHeadFileHash, DeleteLocal
<1>3. CASE disk'[p] = disk[p] /\ Stale(p)
  <2>0. OnItsWay(p) /\ disk[p] # NoFile
    BY <1>0, <1>3, Zenon DEF PendingInv, Stale
  <2>1. CASE Before(p, A)
    BY <1>0, <2>0, <2>1, BeforeStep DEF OnItsWay, InQueues, BeforeRead
  <2>2. ASSUME NEW k \in Keys, k[2] = p, Copy(k, A), k = key => BeforeRead
        PROVE  OnItsWay(p)'
    <3>1. Copy(k, A)'
      BY <1>0, <2>2, CopyStep, Zenon DEF BeforeRead
    <3>2. CASE k = key' => BeforeRead'
      BY <2>2, <3>1, <3>2, Zenon DEF OnItsWay, InQueues
    <3>3. CASE k = key' /\ ~BeforeRead'
      <4>1. CASE FirstLocal
        <5>1. update_queue_client[k] = "Delete"
          BY <3>3, <4>1, Zenon DEF FirstLocal, BeforeRead
        <5> QED BY <1>0, <2>2, <5>1, Zenon DEF Copy, ActionInv
      <4>2. CASE ReadFile /\ hpc' = "upload"
        BY <2>0, <2>2, <3>3, <4>2, <1>3, Zenon DEF ReadFile, OnItsWay
      <4>3. CASE ReadFile /\ hpc' = "delete"
        <5>1. /\ hpc = "read_mod" /\ k = key /\ disk[p] = head_file_hash[p]
              /\ UNCHANGED <<uploaded, inotify, scan, adding, unfiltered,
                             update_queue_client, fpc, ts_path, key>>
          BY <2>0, <2>2, <3>3, <4>3, Zenon DEF ReadFile
        <5>2. head_file_hash[p] # uploaded[p]
          BY <1>3, <5>1, Zenon DEF Stale
        <5>3. AddOnItsWay(p)
          BY <1>0, <2>0, <5>1, <5>2, Zenon DEF HashInv
        <5>4. update_queue_client[k] = "Modified"
          BY <1>0, <2>2, <5>1, Zenon DEF ActionInv
        <5>5. CASE Before(p, {"Add"})
          BY <5>1, <5>5, Zenon DEF Before, OnItsWay
        <5>6. CASE InQueues(p, {"Add"}, hpc = "delete")
          <6>1. PICK j \in Keys : j[2] = p /\ Copy(j, {"Add"})
            BY <5>6, Zenon DEF InQueues
          <6>2. j # k
            BY <1>0, <2>2, <5>4, <6>1, Zenon DEF Copy, ActionInv, Absent
          <6> QED BY <5>1, <6>1, <6>2, Zenon DEF Copy, OnItsWay, InQueues
        <5> QED BY <5>3, <5>5, <5>6, Zenon DEF AddOnItsWay
      <4>4. CASE Crash
        BY <4>4, Zenon DEF Crash, OnItsWay, Before
      <4> QED BY <2>2, <3>3, <4>1, <4>2, <4>3, <4>4, HandlerChanges, Zenon DEF BeforeRead,
                Register, AcquireLockPath, ReadFile, UploadPackage, StoreHeadFile,
                StoreHeadFileHash, DeleteLocal
    <3> QED BY <3>2, <3>3, Zenon
  <2>3. CASE hpc = "upload" /\ path = p /\ current = disk[p]
    <3>1. CASE Crash
      BY <3>1 DEF Crash, OnItsWay, Before
    <3>2. CASE UploadPackage
      BY <1>3, <2>3, <3>2, Zenon DEF UploadPackage, Stale, Types, TypeOK
    <3> QED BY <1>3, <2>3, <3>1, <3>2, HandlerChanges, Zenon DEF OnItsWay, FirstLocal, Register,
              AcquireLockPath, ReadFile, StoreHeadFile, StoreHeadFileHash, DeleteLocal
  <2> QED BY <2>0, <2>1, <2>2, <2>3, Zenon DEF OnItsWay, InQueues
<1> QED BY <1>1, <1>2, <1>3, Zenon

\* Every step keeps HashInv.
LEMMA HashStep ==
  Types /\ KeyInv /\ ActionInv /\ SentInv /\ HashInv /\ [Next]_vars => HashInv'
<1> SUFFICES ASSUME Types, KeyInv, ActionInv, SentInv, HashInv, [Next]_vars,
                    NEW p \in Paths, p \notin coalesced',
                    head_file_hash'[p] # uploaded'[p], disk'[p] # NoFile,
                    ~(hpc' \in {"store_file", "store_hash"} /\ path' = p)
             PROVE  AddOnItsWay(p)'
  BY Zenon DEF HashInv
<1> USE KeyParts
<1>0. p \notin coalesced /\ {"Add"} \in SUBSET Actions
  BY CoalescedGrows, Zenon DEF Actions
<1>1. CASE Crash
  BY <1>1, Zenon DEF Crash, AddOnItsWay, Before
<1>2. CASE disk[p] = NoFile
  BY <1>2, ChangeNotes, Zenon DEF AddOnItsWay, Before
<1>3. CASE ~Crash /\ disk[p] # NoFile
  <2>1. head_file_hash[p] # uploaded[p] /\ ~(hpc \in {"store_file", "store_hash"} /\ path = p)
    <3>1. CASE UploadPackage
      BY <3>1, Zenon DEF UploadPackage, Types, TypeOK
    <3>2. CASE StoreHeadFileHash
      BY <3>2, Zenon DEF StoreHeadFileHash, SentInv, Types, TypeOK
    <3> QED BY <1>3, <3>1, <3>2, HandlerChanges, Zenon DEF FirstLocal, Register,
              AcquireLockPath, ReadFile, StoreHeadFile, DeleteLocal
  <2>2. AddOnItsWay(p)
    BY <1>0, <1>3, <2>1, Zenon DEF HashInv
  <2>3. CASE Before(p, {"Add"})
    BY <1>0, <1>3, <2>3, BeforeStep, Zenon DEF AddOnItsWay, InQueues
  <2>4. ASSUME NEW k \in Keys, k[2] = p, Copy(k, {"Add"}), k = key => hpc # "delete"
        PROVE  AddOnItsWay(p)'
    <3>1. Copy(k, {"Add"})'
      BY <1>0, <2>4, CopyStep, Zenon
    <3>2. ASSUME k = key' PROVE hpc' # "delete"
      <4>1. CASE FirstLocal
        BY <1>0, <2>4, <3>2, <4>1, Zenon DEF FirstLocal, Copy, ActionInv, FirstKey
      <4>2. CASE ReadFile
        BY <1>0, <2>4, <3>2, <4>2, Zenon DEF ReadFile, Copy, ActionInv
      <4>3. CASE StoreHeadFileHash
        BY <2>1, <2>4, <3>2, <4>3, Zenon DEF StoreHeadFileHash
      <4> QED BY <1>3, <2>4, <3>2, <4>1, <4>2, <4>3, HandlerChanges, Zenon DEF Register,
                AcquireLockPath, UploadPackage, StoreHeadFile, DeleteLocal
    <3> QED BY <2>4, <3>1, <3>2, Zenon DEF AddOnItsWay, InQueues
  <2> QED BY <2>2, <2>3, <2>4, Zenon DEF AddOnItsWay, InQueues
<1> QED BY <1>1, <1>2, <1>3, Zenon

-----------------------------------------------------------------------------
(* The theorem *)

IInv == TInv /\ PendingInv /\ HashInv

\* The invariant is always true.
THEOREM Invariance == Spec => []IInv
<1>1. Init => PendingInv /\ HashInv
  BY Zenon DEF Init, PendingInv, HashInv, OnItsWay, AddOnItsWay, Before
<1>2. TInv /\ PendingInv /\ HashInv /\ [Next]_vars => PendingInv' /\ HashInv'
  BY PendingStep, HashStep, Zenon DEF TInv
<1> QED BY <1>1, <1>2, TypeInvariance, PTL DEF Spec, IInv

\* A file that differs from the server's version is still to be read, whatever
\* the threads do and wherever the process ends, unless two of its events had the
\* same key.
THEOREM NoChangeForgotten == Spec => []ChangeNotForgotten
<1>1. ASSUME IInv, NEW p \in Paths, p \notin coalesced, OutOfDate(p) PROVE Pending(p)
  <2>1. OnItsWay(p) /\ Types
    BY <1>1, Zenon DEF IInv, TInv, PendingInv, Stale, OutOfDate
  <2>2. CASE Before(p, {"Add", "Modified"})
    BY <2>1, <2>2, ItemParts, Zenon DEF Before, Pending, Actions
  <2>3. CASE InQueues(p, {"Add", "Modified"}, ~BeforeRead)
    <3>1. PICK k \in Keys : /\ k[2] = p /\ Copy(k, {"Add", "Modified"})
                            /\ k = key => BeforeRead
      BY <2>3, Zenon DEF InQueues
    <3> QED BY <3>1, Zenon DEF Copy, Pending
  <2> QED BY <2>1, <2>2, <2>3, Zenon DEF OnItsWay, Pending
<1>2. IInv => ChangeNotForgotten
  BY <1>1, Zenon DEF ChangeNotForgotten
<1> QED BY <1>2, Invariance, PTL
=============================================================================
