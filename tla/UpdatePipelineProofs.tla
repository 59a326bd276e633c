------------------------- MODULE UpdatePipelineProofs -------------------------
(***************************************************************************)
(* Theorems about UpdatePipeline for every number of threads, queuers,     *)
(* users, devices, files, requests and crashes.                            *)
(***************************************************************************)
EXTENDS UpdatePipeline, TLAPS

USE DEF NoOne

(***************************************************************************)
(* Type correctness.  A busy thread has a package, a queuer past Take has  *)
(* a tuple.                                                                *)
(***************************************************************************)
BusyThreads == \A t \in Threads : tpc[t] # "idle" => pkg[t] \in Package
BusyQueuers ==
  \A q \in Queuers :
     qpc[q] \in {"delete", "editors", "fan_out"} => tuple[q] \in Tuple
TypeInv == TypeOK /\ BusyThreads /\ BusyQueuers

\* data_sha1 of a package is one of the hashes the databases are keyed by.
LEMMA HashOfPackage == \A p \in Package : data_sha1(p) \in Hash
  BY DEF Package, data_sha1, Hash

\* Restart, the effect of a crash and of a failed CHECK, keeps the types.
LEMMA RestartType == TypeInv /\ Restart => TypeInv'
<1> SUFFICES ASSUME TypeInv, Restart PROVE TypeInv'
  OBVIOUS
<1> USE DEF Restart, serverDB, TypeInv, TypeOK
<1>1. (/\ user_device \subseteq Devices /\ editors \subseteq Users
       /\ relpath \in [RelPaths -> Head] /\ fptrs \in [Hash -> Head]
       /\ data \in [Hash -> Package \cup {Absent}]
       /\ action_queue \subseteq Tuple /\ action_log \subseteq Tuple
       /\ device_sync \subseteq Entry
       /\ guids \in Nat /\ clock \in Nat /\ requests \in Nat)'
  OBVIOUS
<1>2. crashes' \in Nat /\ db_mutex' \subseteq Queuers
  OBVIOUS
<1>3. /\ tpc' \in [Threads -> UploadPc \cup {"idle", "get_previous"}]
      /\ pkg' \in [Threads -> Package \cup {Absent}]
      /\ previous' \in [Threads -> Head]
  BY DEF Head
<1>4. /\ qpc' \in [Queuers -> {"check", "block", "asleep", "take", "delete",
                               "editors", "fan_out"}]
      /\ tuple' \in [Queuers -> Tuple \cup {Absent}]
      /\ user_ids' \in [Queuers -> SUBSET Users]
      /\ devices' \in [Queuers -> SUBSET Devices]
  OBVIOUS
<1>5. owed' \subseteq Owed /\ lost' \subseteq Owed
  OBVIOUS
<1>6. BusyThreads' /\ BusyQueuers'
  BY DEF BusyThreads, BusyQueuers
<1> QED BY <1>1, <1>2, <1>3, <1>4, <1>5, <1>6


\* Every step keeps the types, busy threads and queuers included.
LEMMA TypeStep == TypeInv /\ [Next]_vars => TypeInv'
<1> SUFFICES ASSUME TypeInv, [Next]_vars PROVE TypeInv'
  OBVIOUS
<1> USE PipelineAssumption DEF TypeInv, TypeOK, BusyThreads, BusyQueuers,
        serverDB, threadVars, queuerVars, history
<1>1. ASSUME NEW d \in Devices, RegisterDevice(d) PROVE TypeInv'
  BY <1>1 DEF RegisterDevice
<1>2. ASSUME NEW u \in Users, ShareTopDir(u) PROVE TypeInv'
  BY <1>2 DEF ShareTopDir
<1>3. ASSUME NEW r \in RelPaths, RegisterRelativePath(r) PROVE TypeInv'
  BY <1>3 DEF RegisterRelativePath, Head
<1>4. ASSUME NEW t \in Threads, NEW p \in Package, Receive(t, p)
      PROVE TypeInv'
  BY <1>4 DEF Receive
<1>5. ASSUME NEW q \in Queuers, SpuriousWakeup(q) PROVE TypeInv'
  BY <1>5 DEF SpuriousWakeup
<1>6. CASE Tick
  BY <1>6 DEF Tick
<1>7. CASE Crash
  BY <1>7, RestartType DEF Crash
<1>8. ASSUME NEW t \in Threads, ThreadStep(t) PROVE TypeInv'
  <2>1. CASE GetPrevious(t)
    BY <1>8, <2>1 DEF GetPrevious, UploadPc, Package
  <2>2. CASE PutHead(t)
    BY <1>8, <2>2, HashOfPackage, Zenon DEF PutHead, UploadPc, Head
  <2>3. CASE PutFptrs(t)
    BY <1>8, <2>3, HashOfPackage DEF PutFptrs, UploadPc
  <2>4. CASE PutData(t)
    BY <1>8, <2>4, HashOfPackage DEF PutData, UploadPc
  <2>5. CASE PutQueue(t)
    BY <1>8, <2>5, HashOfPackage
       DEF PutQueue, UploadPc, UpdateTuple, Tuple, Package, Recipients, Owed
  <2>6. CASE Notify(t)
    BY <1>8, <2>6 DEF Notify, Sleepers
  <2> QED BY <1>8, <2>1, <2>2, <2>3, <2>4, <2>5, <2>6 DEF ThreadStep
<1>9. ASSUME NEW q \in Queuers, QueuerStep(q) PROVE TypeInv'
  <2>1. CASE CheckEmpty(q)
    BY <2>1 DEF CheckEmpty
  <2>2. CASE Block(q)
    BY <2>2 DEF Block
  <2>3. CASE Take(q)
    BY <2>3 DEF Take
  <2>4. CASE DeleteFromQueue(q)
    BY <2>4 DEF DeleteFromQueue
  <2>5. CASE ReadEditors(q)
    BY <2>5 DEF ReadEditors
  <2>6. CASE EndOfLoop(q)
    BY <2>6 DEF EndOfLoop
  <2>7. CASE TakeCheckFails(q)
    BY <2>7, RestartType DEF TakeCheckFails
  <2>8. ASSUME NEW u \in Users, ReadDevices(q, u) PROVE TypeInv'
    BY <2>8 DEF ReadDevices, DevicesOf
  <2>9. ASSUME NEW u \in Users, DevicesCheckFails(q, u) PROVE TypeInv'
    BY <2>9, RestartType DEF DevicesCheckFails
  <2>10. ASSUME NEW d \in Devices, AppendDeviceSync(q, d) PROVE TypeInv'
    <3>1. tuple[q] \in Tuple /\ guids + 1 \in Nat
      BY <2>10 DEF AppendDeviceSync
    <3>2. [guid |-> guids + 1, device |-> d, tuple |-> tuple[q]] \in Entry
      BY <3>1 DEF Entry
    <3>3. guids' \in Nat /\ device_sync' \subseteq Entry
      BY <2>10, <3>1, <3>2 DEF AppendDeviceSync
    <3>4. devices' \in [Queuers -> SUBSET Devices]
      BY <2>10 DEF AppendDeviceSync
    <3> QED BY <2>10, <3>3, <3>4, Zenon DEF AppendDeviceSync
  <2> QED BY <1>9, <2>1, <2>2, <2>3, <2>4, <2>5, <2>6, <2>7, <2>8, <2>9, <2>10, Zenon
             DEF QueuerStep
<1>10. CASE UNCHANGED vars
  BY <1>10 DEF vars
<1> QED
  BY <1>1, <1>2, <1>3, <1>4, <1>5, <1>6, <1>7, <1>8, <1>9, <1>10, Zenon
     DEF Next, Environment

\* TypeInv holds in every reachable state.
LEMMA TypeInvariant == Spec => []TypeInv
<1>1. Init => TypeInv
  <2> SUFFICES ASSUME Init PROVE TypeInv
    OBVIOUS
  <2>1. /\ user_device \subseteq Devices /\ editors \subseteq Users
        /\ db_mutex \subseteq Queuers
    BY PipelineAssumption DEF Init, NoOne
  <2>2. /\ relpath \in [RelPaths -> Head] /\ fptrs \in [Hash -> Head]
        /\ data \in [Hash -> Package \cup {Absent}]
    BY DEF Init, Head
  <2>3. /\ tpc \in [Threads -> UploadPc \cup {"idle", "get_previous"}]
        /\ pkg \in [Threads -> Package \cup {Absent}]
        /\ previous \in [Threads -> Head]
    BY DEF Init, Head
  <2>4. /\ qpc \in [Queuers -> {"check", "block", "asleep", "take", "delete",
                                "editors", "fan_out"}]
        /\ tuple \in [Queuers -> Tuple \cup {Absent}]
        /\ user_ids \in [Queuers -> SUBSET Users]
        /\ devices \in [Queuers -> SUBSET Devices]
    BY DEF Init
  <2>5. /\ guids \in Nat /\ clock \in Nat /\ requests \in Nat /\ crashes \in Nat
        /\ action_queue \subseteq Tuple /\ action_log \subseteq Tuple
        /\ device_sync \subseteq Entry /\ owed \subseteq Owed /\ lost \subseteq Owed
    BY DEF Init
  <2>6. BusyThreads /\ BusyQueuers
    BY DEF Init, BusyThreads, BusyQueuers
  <2> QED BY <2>1, <2>2, <2>3, <2>4, <2>5, <2>6, Zenon DEF TypeInv, TypeOK
<1> QED BY <1>1, TypeStep, PTL DEF Spec

\* The databases, program counters and locals of the upload pipeline keep their
\* types, whatever the number of threads, requests and crashes.
THEOREM TypeCorrect == Spec => []TypeOK
<1>1. TypeInv => TypeOK
  BY DEF TypeInv
<1> QED BY <1>1, TypeInvariant, PTL
-----------------------------------------------------------------------------
(***************************************************************************)
(* UpdateHasData.  UploadPackage stores the package two steps before it    *)
(* queues the update, and nothing removes a key of TOP_DIR_DATA.           *)
(***************************************************************************)
Stored(h) == data[h] # Absent

DataInv ==
  /\ \A t \in Threads :
       tpc[t] \in {"put_queue", "notify"} => Stored(data_sha1(pkg[t]))
  /\ \A u \in action_queue : Stored(u.hash)
  /\ \A u \in action_log : Stored(u.hash)
  /\ \A q \in Queuers :
       qpc[q] \in {"delete", "editors", "fan_out"} => Stored(tuple[q].hash)
  /\ \A e \in device_sync : Stored(e.tuple.hash)

\* Every step keeps DataInv: data only gains keys, and an update is copied from
\* the queue to the log, to a queuer and to DEVICE_SYNC.
LEMMA DataStep == TypeInv /\ DataInv /\ [Next]_vars => DataInv'
<1> SUFFICES ASSUME TypeInv, DataInv, [Next]_vars PROVE DataInv'
  OBVIOUS
<1> USE DEF DataInv, Stored, serverDB, threadVars, queuerVars, history
<1>a. BusyThreads /\ TypeOK
  BY DEF TypeInv
<1>c. BusyQueuers
  BY DEF TypeInv
<1>b. /\ tpc \in [Threads -> UploadPc \cup {"idle", "get_previous"}]
      /\ pkg \in [Threads -> Package \cup {Absent}]
      /\ qpc \in [Queuers -> {"check", "block", "asleep", "take", "delete",
                              "editors", "fan_out"}]
      /\ tuple \in [Queuers -> Tuple \cup {Absent}]
      /\ data \in [Hash -> Package \cup {Absent}]
  BY <1>a DEF TypeOK
<1>0. ASSUME Restart PROVE DataInv'
  BY <1>0 DEF Restart
<1>1. ASSUME NEW d \in Devices, RegisterDevice(d) PROVE DataInv'
  BY <1>1 DEF RegisterDevice
<1>2. ASSUME NEW u \in Users, ShareTopDir(u) PROVE DataInv'
  BY <1>2 DEF ShareTopDir
<1>3. ASSUME NEW r \in RelPaths, RegisterRelativePath(r) PROVE DataInv'
  BY <1>3 DEF RegisterRelativePath
<1>4. ASSUME NEW t \in Threads, NEW p \in Package, Receive(t, p)
      PROVE DataInv'
  BY <1>4, <1>b DEF Receive
<1>5. ASSUME NEW q \in Queuers, SpuriousWakeup(q) PROVE DataInv'
  BY <1>5, <1>b DEF SpuriousWakeup
<1>6. CASE Tick
  BY <1>6 DEF Tick
<1>7. CASE Crash
  BY <1>7, <1>0 DEF Crash
<1>8. ASSUME NEW t \in Threads, ThreadStep(t) PROVE DataInv'
  <2>1. CASE GetPrevious(t)
    BY <2>1, <1>b DEF GetPrevious
  <2>2. CASE PutHead(t)
    BY <2>2, <1>b DEF PutHead
  <2>3. CASE PutFptrs(t)
    BY <2>3, <1>b DEF PutFptrs
  <2>4. CASE PutData(t)
    <3>1. pkg[t] \in Package /\ data_sha1(pkg[t]) \in Hash
      BY <2>4, <1>a, HashOfPackage DEF PutData, BusyThreads
    <3>0. /\ data' = [data EXCEPT ![data_sha1(pkg[t])] = pkg[t]]
          /\ pkg' = pkg /\ pkg[t] # Absent
      BY <2>4, <3>1, AbsentIsNoPackage DEF PutData
    <3>2. ASSUME NEW h \in Hash, Stored(h) PROVE Stored(h)'
      <4>1. CASE h = data_sha1(pkg[t])
        BY <4>1, <3>0, <3>1, <1>b
      <4>2. CASE h # data_sha1(pkg[t])
        BY <4>2, <3>0, <3>2, <1>b
      <4> QED BY <4>1, <4>2
    <3>3. Stored(data_sha1(pkg[t]))'
      BY <3>0, <3>1, <1>b
    <3>4. /\ tpc' = [tpc EXCEPT ![t] = "put_queue"]
          /\ UNCHANGED <<action_queue, action_log, qpc, tuple, device_sync>>
      BY <2>4 DEF PutData
    <3>5. \A u \in Tuple : u.hash \in Hash
      BY DEF Tuple
    <3>6. \A x \in Threads :
            tpc'[x] \in {"put_queue", "notify"} => Stored(data_sha1(pkg[x]))'
      <4> SUFFICES ASSUME NEW x \in Threads, tpc'[x] \in {"put_queue", "notify"}
                   PROVE  Stored(data_sha1(pkg[x]))'
        BY <3>0
      <4>1. CASE x = t
        BY <4>1, <3>3
      <4>2. CASE x # t
        <5>1. tpc[x] = tpc'[x]
          BY <4>2, <3>4, <1>b
        <5>2. data_sha1(pkg[x]) \in Hash
          BY <5>1, <1>a, HashOfPackage DEF BusyThreads
        <5>3. Stored(data_sha1(pkg[x]))
          BY <5>1
        <5> QED BY <5>2, <5>3, <3>0, <3>2
      <4> QED BY <4>1, <4>2
    <3>7. /\ \A u \in action_queue' : Stored(u.hash)'
          /\ \A u \in action_log' : Stored(u.hash)'
      BY <3>2, <3>4, <3>5, <1>a DEF TypeOK
    <3>8. \A p \in Queuers : (qpc[p] \in {"delete", "editors", "fan_out"}
                                => Stored(tuple[p].hash))'
      <4> SUFFICES ASSUME NEW p \in Queuers,
                          qpc[p] \in {"delete", "editors", "fan_out"}
                   PROVE  Stored(tuple[p].hash)'
        BY <3>4
      <4>1. tuple[p].hash \in Hash
        BY <3>5, <1>c DEF BusyQueuers
      <4>2. Stored(tuple[p].hash)
        OBVIOUS
      <4> QED BY <4>1, <4>2, <3>2, <3>4
    <3>9. \A e \in device_sync' : Stored(e.tuple.hash)'
      <4>1. \A e \in device_sync : e.tuple \in Tuple
        BY <1>a DEF TypeOK, Entry
      <4> QED BY <4>1, <3>2, <3>4, <3>5
    <3> HIDE DEF Stored
    <3> QED BY <3>0, <3>4, <3>6, <3>7, <3>8, <3>9
  <2>5. CASE PutQueue(t)
    <3>1. Stored(data_sha1(pkg[t]))
      BY <2>5 DEF PutQueue
    <3>2. UpdateTuple(pkg[t]).hash = data_sha1(pkg[t])
      BY DEF UpdateTuple
    <3>3. /\ action_queue' = action_queue \cup {UpdateTuple(pkg[t])}
          /\ tpc' = [tpc EXCEPT ![t] = "notify"]
          /\ UNCHANGED <<data, pkg, action_log, qpc, tuple, device_sync>>
      BY <2>5 DEF PutQueue
    <3>4. \A u \in action_queue' : Stored(u.hash)
      BY <3>1, <3>2, <3>3
    <3>5. \A x \in Threads :
            tpc'[x] \in {"put_queue", "notify"} => Stored(data_sha1(pkg[x]))
      BY <3>1, <3>3, <1>b
    <3> QED BY <3>3, <3>4, <3>5
  <2>6. CASE Notify(t)
    BY <2>6, <1>b DEF Notify, Sleepers
  <2> QED BY <1>8, <2>1, <2>2, <2>3, <2>4, <2>5, <2>6 DEF ThreadStep
<1>9. ASSUME NEW q \in Queuers, QueuerStep(q) PROVE DataInv'
  <2>1. CASE CheckEmpty(q)
    BY <2>1, <1>b DEF CheckEmpty
  <2>2. CASE Block(q)
    BY <2>2, <1>b DEF Block
  <2>3. CASE Take(q)
    BY <2>3, <1>b DEF Take
  <2>4. CASE DeleteFromQueue(q)
    BY <2>4, <1>b DEF DeleteFromQueue
  <2>5. CASE ReadEditors(q)
    BY <2>5, <1>b DEF ReadEditors
  <2>6. CASE EndOfLoop(q)
    BY <2>6, <1>b DEF EndOfLoop
  <2>7. CASE TakeCheckFails(q)
    BY <2>7, <1>0 DEF TakeCheckFails
  <2>8. ASSUME NEW u \in Users, ReadDevices(q, u) PROVE DataInv'
    BY <2>8 DEF ReadDevices
  <2>9. ASSUME NEW u \in Users, DevicesCheckFails(q, u) PROVE DataInv'
    BY <2>9, <1>0 DEF DevicesCheckFails
  <2>10. ASSUME NEW d \in Devices, AppendDeviceSync(q, d) PROVE DataInv'
    <3>1. Stored(tuple[q].hash) /\ data' = data
      BY <2>10 DEF AppendDeviceSync
    <3>2. ASSUME NEW e \in device_sync' PROVE Stored(e.tuple.hash)
      <4>1. CASE e \in device_sync
        BY <4>1
      <4>2. CASE e = [guid |-> guids + 1, device |-> d, tuple |-> tuple[q]]
        BY <4>2, <3>1
      <4> QED BY <2>10, <3>2, <4>1, <4>2 DEF AppendDeviceSync
    <3>3. UNCHANGED <<tpc, pkg, action_queue, action_log, qpc, tuple>>
      BY <2>10 DEF AppendDeviceSync
    <3> QED BY <3>1, <3>2, <3>3
  <2> QED BY <1>9, <2>1, <2>2, <2>3, <2>4, <2>5, <2>6, <2>7, <2>8, <2>9, <2>10, Zenon
             DEF QueuerStep
<1>10. CASE UNCHANGED vars
  BY <1>10 DEF vars
<1> QED
  BY <1>1, <1>2, <1>3, <1>4, <1>5, <1>6, <1>7, <1>8, <1>9, <1>10
     DEF Next, Environment

\* A device that is told of an update can download its package: UploadPackage
\* stores a package before it queues the update, in every interleaving of the
\* pool threads and across crashes.
THEOREM UpdatesHaveData == Spec => []UpdateHasData
<1>1. Init => DataInv
  BY DEF Init, DataInv
<1>2. DataInv => UpdateHasData
  BY DEF DataInv, Stored, UpdateHasData
<1> QED BY <1>1, <1>2, TypeInvariant, DataStep, PTL DEF Spec
-----------------------------------------------------------------------------
(***************************************************************************)
(* NoUpdateLost and RightRecipients.  The fan-out reads EDITORS and        *)
(* USER_DEVICE after the update was queued; both only grow, so it reaches  *)
(* at least the devices the update was owed to, and only devices that      *)
(* belong to an editor by the time the entry is written.                   *)
(***************************************************************************)
OwedInv ==
  \A o \in owed : /\ o.since <= guids
                  /\ o.device \in Recipients(o.tuple.device)

FanOutInv ==
  \A q \in Queuers :
     /\ user_ids[q] \subseteq editors
     /\ qpc[q] = "fan_out" => devices[q] \subseteq Recipients(tuple[q].device)
     /\ qpc[q] # "fan_out" => devices[q] = {}

DeliveryInv == OwedInv /\ FanOutInv /\ RightRecipients /\ NoUpdateLost

\* Recipients only grow when devices and editors do.
LEMMA RecipientsGrow ==
  ASSUME user_device \subseteq user_device', editors \subseteq editors'
  PROVE  \A d : Recipients(d) \subseteq Recipients(d)'
  BY DEF Recipients

\* Steps that leave the queues, DEVICE_SYNC, the queuers and the history alone
\* keep DeliveryInv while devices and editors may be added.
LEMMA DeliveryFrame ==
  ASSUME DeliveryInv, user_device \subseteq user_device',
         editors \subseteq editors',
         UNCHANGED <<action_queue, device_sync, guids, tuple, user_ids,
                     devices, owed, lost, qpc>>
  PROVE  DeliveryInv'
<1>1. \A d : Recipients(d) \subseteq Recipients(d)'
  BY RecipientsGrow
<1>2. OwedInv' /\ FanOutInv' /\ RightRecipients'
  BY <1>1 DEF DeliveryInv, OwedInv, FanOutInv, RightRecipients
<1>3. NoUpdateLost'
  BY DEF DeliveryInv, NoUpdateLost, Carried, Carries, Delivered
<1> QED BY <1>2, <1>3 DEF DeliveryInv

\* A step of one queuer, or a wakeup, between states in which that queuer
\* carries nothing keeps DeliveryInv.
LEMMA DeliveryIdleQueuer ==
  ASSUME TypeOK, DeliveryInv, NEW q \in Queuers,
         qpc[q] \notin {"delete", "editors", "fan_out"}
           \/ (qpc[q] = "fan_out" /\ devices[q] = {} /\ user_ids[q] = {}),
         NEW to, to \notin {"delete", "editors", "fan_out"},
         qpc' = [qpc EXCEPT ![q] = to],
         UNCHANGED <<user_device, editors, action_queue, device_sync, guids,
                     tuple, user_ids, devices, owed, lost>>
  PROVE  DeliveryInv'
<1>1. \A d : Recipients(d)' = Recipients(d)
  BY DEF Recipients
<1>2. OwedInv' /\ RightRecipients'
  BY <1>1 DEF DeliveryInv, OwedInv, RightRecipients
<1>3. FanOutInv'
  BY <1>1 DEF DeliveryInv, FanOutInv, TypeOK
<1>4. \A o \in owed : Carried(o) => Carried(o)'
  BY DEF Carried, Carries, TypeOK
<1>5. NoUpdateLost'
  BY <1>4, Zenon DEF DeliveryInv, NoUpdateLost, Delivered
<1> QED BY <1>2, <1>3, <1>5 DEF DeliveryInv

\* The end of the process moves what queuers carried to |lost|.
LEMMA DeliveryRestart == DeliveryInv /\ Restart => DeliveryInv'
<1> SUFFICES ASSUME DeliveryInv, Restart PROVE DeliveryInv'
  OBVIOUS
<1> USE DEF Restart, serverDB
<1>1. \A d : Recipients(d)' = Recipients(d)
  BY DEF Recipients
<1>2. OwedInv' /\ RightRecipients' /\ FanOutInv'
  BY <1>1 DEF DeliveryInv, OwedInv, RightRecipients, FanOutInv
<1>3. NoUpdateLost'
  BY DEF DeliveryInv, NoUpdateLost, Delivered
<1> QED BY <1>2, <1>3 DEF DeliveryInv

\* PutQueue adds the update to the queue together with those it is owed to.
LEMMA DeliveryPutQueue ==
  ASSUME TypeInv, DeliveryInv, NEW t \in Threads, PutQueue(t)
  PROVE  DeliveryInv'
<1> DEFINE u == UpdateTuple(pkg[t])
           new == {[tuple |-> u, device |-> d, since |-> guids] :
                      d \in Recipients(u.device)}
<1>1. \A d : Recipients(d)' = Recipients(d)
  BY DEF PutQueue, Recipients
<1>2. owed' = owed \cup new /\ action_queue' = action_queue \cup {u}
  BY DEF PutQueue
<1>3. guids \in Nat /\ guids' = guids
  BY DEF PutQueue, TypeInv, TypeOK
<1>4. ASSUME NEW o \in new
      PROVE  /\ o.tuple = u /\ o.since = guids
             /\ o.device \in Recipients(u.device)
  <2> HIDE DEF u
  <2>1. PICK d \in Recipients(u.device) :
          o = [tuple |-> u, device |-> d, since |-> guids]
    BY <1>4
  <2> QED BY <2>1
<1>5. OwedInv'
  <2> HIDE DEF u, new
  <2> SUFFICES ASSUME NEW o \in owed'
               PROVE  /\ o.since <= guids
                      /\ o.device \in Recipients(o.tuple.device)
    BY <1>1, <1>3 DEF OwedInv
  <2>1. CASE o \in new
    BY <2>1, <1>3, <1>4
  <2>2. CASE o \in owed
    BY <2>2 DEF DeliveryInv, OwedInv
  <2> QED BY <1>2, <2>1, <2>2
<1> USE DEF PutQueue, queuerVars
<1>6. FanOutInv' /\ RightRecipients'
  BY <1>1 DEF DeliveryInv, FanOutInv, RightRecipients
<1>7. NoUpdateLost'
  <2> SUFFICES ASSUME NEW o \in owed'
               PROVE  (\/ o.tuple \in action_queue \/ Carried(o)
                       \/ Delivered(o) \/ o \in lost)'
    BY DEF NoUpdateLost
  <2>1. CASE o \in new
    BY <2>1, <1>2, <1>4
  <2>2. CASE o \in owed
    BY <2>2, <1>2 DEF DeliveryInv, NoUpdateLost, Carried, Carries, Delivered
  <2> QED BY <1>2, <2>1, <2>2, Zenon
<1> QED BY <1>5, <1>6, <1>7 DEF DeliveryInv

\* Take and DeleteFromQueue hand an update from the queue to the queuer.
LEMMA DeliveryTake ==
  ASSUME TypeInv, DeliveryInv, NEW q \in Queuers,
         Take(q) \/ DeleteFromQueue(q)
  PROVE  DeliveryInv'
<1> USE DEF Take, DeleteFromQueue, threadVars, history
<1>0. TypeOK
  BY DEF TypeInv
<1>1. \A d : Recipients(d)' = Recipients(d)
  BY DEF Recipients
<1>2. OwedInv' /\ RightRecipients'
  BY <1>1 DEF DeliveryInv, OwedInv, RightRecipients
<1>3. FanOutInv'
  BY <1>0, <1>1 DEF DeliveryInv, FanOutInv, TypeOK
<1>4. \A o \in owed : Carried(o) => Carried(o)'
  BY <1>0, Zenon DEF Carried, Carries, TypeOK
<1>5. \A o \in owed : o.tuple \in action_queue /\ o.tuple \notin action_queue'
                         => Carried(o)'
  BY <1>0, Zenon DEF Carried, Carries, TypeOK
<1>6. NoUpdateLost'
  BY <1>4, <1>5 DEF DeliveryInv, NoUpdateLost, Delivered
<1> QED BY <1>2, <1>3, <1>6 DEF DeliveryInv

\* ReadEditors sees at least the editors the update was owed to.
LEMMA DeliveryReadEditors ==
  ASSUME TypeInv, DeliveryInv, NEW q \in Queuers, ReadEditors(q)
  PROVE  DeliveryInv'
<1> USE DEF ReadEditors, serverDB, threadVars, history
<1>0. TypeOK
  BY DEF TypeInv
<1>1. \A d : Recipients(d)' = Recipients(d)
  BY DEF Recipients
<1>2. OwedInv' /\ RightRecipients'
  BY <1>1 DEF DeliveryInv, OwedInv, RightRecipients
<1>3. FanOutInv'
  BY <1>0, <1>1 DEF DeliveryInv, FanOutInv, TypeOK
<1>4. \A o \in owed : DeviceUser[o.device] \in editors
  BY DEF DeliveryInv, OwedInv, Recipients
<1>5. \A o \in owed : Carried(o) => Carried(o)'
  BY <1>0, <1>4, Zenon DEF Carried, Carries, TypeOK
<1>6. NoUpdateLost'
  BY <1>5 DEF DeliveryInv, NoUpdateLost, Delivered
<1> QED BY <1>2, <1>3, <1>6 DEF DeliveryInv

\* ReadDevices sees at least the devices the update was owed to.
LEMMA DeliveryReadDevices ==
  ASSUME TypeInv, DeliveryInv, NEW q \in Queuers, NEW u \in Users,
         ReadDevices(q, u)
  PROVE  DeliveryInv'
<1> USE DEF ReadDevices, serverDB, threadVars, history
<1>0. TypeOK
  BY DEF TypeInv
<1>1. \A d : Recipients(d)' = Recipients(d)
  BY DEF Recipients
<1>2. OwedInv' /\ RightRecipients'
  BY <1>1 DEF DeliveryInv, OwedInv, RightRecipients
<1>3. FanOutInv'
  <2>1. /\ user_ids \in [Queuers -> SUBSET Users]
        /\ devices \in [Queuers -> SUBSET Devices]
        /\ FanOutInv
    BY <1>0 DEF TypeOK, DeliveryInv
  <2>2. editors' = editors /\ qpc' = qpc /\ tuple' = tuple
    OBVIOUS
  <2>3. DevicesOf(u) \ {tuple[q].device} \subseteq Recipients(tuple[q].device)
    BY <2>1 DEF FanOutInv, DevicesOf, Recipients
  <2> SUFFICES ASSUME NEW p \in Queuers
               PROVE  /\ user_ids'[p] \subseteq editors
                      /\ qpc[p] = "fan_out"
                           => devices'[p] \subseteq Recipients(tuple[p].device)
                      /\ qpc[p] # "fan_out" => devices'[p] = {}
    BY <1>1, <2>2 DEF FanOutInv
  <2>4. CASE p = q
    <3>1. /\ user_ids'[q] = user_ids[q] \ {u} /\ qpc[q] = "fan_out"
          /\ devices'[q] = DevicesOf(u) \ {tuple[q].device}
      BY <2>1
    <3> QED BY <2>1, <2>3, <2>4, <3>1 DEF FanOutInv
  <2>5. CASE p # q
    <3>1. user_ids'[p] = user_ids[p] /\ devices'[p] = devices[p]
      BY <2>1, <2>5
    <3> QED BY <2>1, <3>1 DEF FanOutInv
  <2> QED BY <2>4, <2>5
<1>4. \A o \in owed : /\ o.device \in user_device
                      /\ o.device # o.tuple.device
  BY Zenon DEF DeliveryInv, OwedInv, Recipients
<1>5. \A o \in owed : Carried(o) => Carried(o)'
  <2> SUFFICES ASSUME NEW o \in owed, NEW p \in Queuers, Carries(p, o)
               PROVE  Carries(p, o)'
    BY DEF Carried
  <2>1. CASE p # q
    BY <2>1, <1>0, Zenon DEF Carries, TypeOK
  <2>2. CASE p = q
    BY <2>2, <1>0, <1>4, Zenon DEF Carries, TypeOK, DevicesOf
  <2> QED BY <2>1, <2>2
<1>6. NoUpdateLost'
  BY <1>5 DEF DeliveryInv, NoUpdateLost, Delivered
<1> QED BY <1>2, <1>3, <1>6 DEF DeliveryInv

\* AppendDeviceSync delivers what it takes out of the queuer's hands.
LEMMA DeliveryAppend ==
  ASSUME TypeInv, DeliveryInv, NEW q \in Queuers, NEW d \in Devices,
         AppendDeviceSync(q, d)
  PROVE  DeliveryInv'
<1> USE DEF AppendDeviceSync, threadVars, history
<1> DEFINE new == [guid |-> guids + 1, device |-> d, tuple |-> tuple[q]]
<1>0. TypeOK
  BY Zenon DEF TypeInv
<1>1. \A x : Recipients(x)' = Recipients(x)
  BY DEF Recipients
<1>2. guids \in Nat /\ \A o \in owed : o.since \in Nat /\ o.since <= guids
  BY <1>0 DEF TypeOK, Owed, DeliveryInv, OwedInv
<1>3. OwedInv'
  <2>1. owed' = owed /\ guids' = guids + 1
    OBVIOUS
  <2> SUFFICES ASSUME NEW o \in owed
               PROVE  /\ o.since <= guids'
                      /\ o.device \in Recipients(o.tuple.device)'
    BY <2>1 DEF OwedInv
  <2> HIDE DEF AppendDeviceSync
  <2>2. o.since <= guids'
    BY <1>2, <2>1
  <2>3. o.device \in Recipients(o.tuple.device)
    BY DEF DeliveryInv, OwedInv
  <2>4. Recipients(o.tuple.device)' = Recipients(o.tuple.device)
    BY DEF AppendDeviceSync, threadVars, history, Recipients
  <2> QED BY <2>2, <2>3, <2>4
<1>4. FanOutInv'
  BY <1>0, <1>1 DEF DeliveryInv, FanOutInv, TypeOK
<1>5. device_sync' = device_sync \cup {new} /\ new \in device_sync'
  BY Zenon
<1>6. d \in Recipients(tuple[q].device)
  BY DEF DeliveryInv, FanOutInv
<1>7. RightRecipients'
  <2>1. new.device = d /\ new.tuple = tuple[q]
    BY Zenon
  <2> HIDE DEF new, AppendDeviceSync
  <2> SUFFICES ASSUME NEW e \in device_sync'
               PROVE  e.device \in Recipients(e.tuple.device)
    BY <1>1 DEF RightRecipients
  <2>2. CASE e = new
    BY <2>1, <2>2, <1>6
  <2>3. CASE e \in device_sync
    BY <2>3 DEF DeliveryInv, RightRecipients
  <2> QED BY <1>5, <2>2, <2>3
<1>8. \A o \in owed : Delivered(o) => Delivered(o)'
  BY <1>5, Zenon DEF Delivered
<1>9. \A o \in owed : o.tuple = tuple[q] /\ o.device = d => Delivered(o)'
  <2> SUFFICES ASSUME NEW o \in owed, o.tuple = tuple[q], o.device = d
               PROVE  Delivered(o)'
    OBVIOUS
  <2>1. /\ new.tuple = o.tuple /\ new.device = o.device
        /\ new.guid > o.since
    <3>1. new.tuple = tuple[q] /\ new.device = d /\ new.guid = guids + 1
      BY Zenon
    <3> HIDE DEF new, AppendDeviceSync
    <3>2. guids + 1 > o.since
      BY <1>2
    <3> QED BY <3>1, <3>2
  <2> QED BY <2>1, <1>5, Zenon DEF Delivered
<1>10. \A o \in owed : Carried(o) => Carried(o)' \/ Delivered(o)'
  <2> SUFFICES ASSUME NEW o \in owed, NEW p \in Queuers, Carries(p, o),
                      ~Delivered(o)'
               PROVE  Carries(p, o)'
    BY DEF Carried
  <2>1. ~(o.tuple = tuple[q] /\ o.device = d)
    BY <1>9
  <2> QED BY <2>1, <1>0, Zenon DEF Carries, TypeOK
<1>11. NoUpdateLost'
  BY <1>8, <1>10 DEF DeliveryInv, NoUpdateLost
<1> QED BY <1>3, <1>4, <1>7, <1>11 DEF DeliveryInv

\* Every step keeps DeliveryInv.
LEMMA DeliveryStep == TypeInv /\ DeliveryInv /\ [Next]_vars => DeliveryInv'
<1> SUFFICES ASSUME TypeInv, DeliveryInv, [Next]_vars PROVE DeliveryInv'
  OBVIOUS
<1>a. TypeOK
  BY DEF TypeInv
<1> USE DEF serverDB, queuerVars, history
<1>1. ASSUME NEW d \in Devices, RegisterDevice(d) PROVE DeliveryInv'
  BY <1>1, DeliveryFrame DEF RegisterDevice
<1>2. ASSUME NEW u \in Users, ShareTopDir(u) PROVE DeliveryInv'
  BY <1>2, DeliveryFrame DEF ShareTopDir
<1>3. ASSUME NEW r \in RelPaths, RegisterRelativePath(r) PROVE DeliveryInv'
  BY <1>3, DeliveryFrame DEF RegisterRelativePath
<1>4. ASSUME NEW t \in Threads, NEW p \in Package, Receive(t, p)
      PROVE DeliveryInv'
  BY <1>4, DeliveryFrame DEF Receive
<1>5. ASSUME NEW q \in Queuers, SpuriousWakeup(q) PROVE DeliveryInv'
  BY <1>5, <1>a, DeliveryIdleQueuer, Zenon DEF SpuriousWakeup
<1>6. CASE Tick
  BY <1>6, DeliveryFrame DEF Tick
<1>7. CASE Crash
  BY <1>7, DeliveryRestart DEF Crash
<1>8. ASSUME NEW t \in Threads, ThreadStep(t) PROVE DeliveryInv'
  <2>1. CASE GetPrevious(t) \/ PutHead(t) \/ PutFptrs(t) \/ PutData(t)
    BY <2>1, DeliveryFrame, Zenon DEF GetPrevious, PutHead, PutFptrs, PutData
  <2>2. CASE PutQueue(t)
    BY <2>2, DeliveryPutQueue
  <2>3. CASE Notify(t)
    <3>1. CASE UNCHANGED qpc
      BY <2>3, <3>1, DeliveryFrame DEF Notify
    <3>2. CASE \E q \in Sleepers : qpc' = [qpc EXCEPT ![q] = "check"]
      BY <2>3, <3>2, <1>a, DeliveryIdleQueuer, Zenon DEF Notify, Sleepers
    <3> QED BY <2>3, <3>1, <3>2 DEF Notify
  <2> QED BY <1>8, <2>1, <2>2, <2>3 DEF ThreadStep
<1>9. ASSUME NEW q \in Queuers, QueuerStep(q) PROVE DeliveryInv'
  <2>1. CASE CheckEmpty(q)
    BY <2>1, <1>a, DeliveryIdleQueuer, Zenon DEF CheckEmpty
  <2>2. CASE Block(q)
    BY <2>2, <1>a, DeliveryIdleQueuer, Zenon DEF Block
  <2>3. CASE Take(q) \/ DeleteFromQueue(q)
    BY <2>3, DeliveryTake
  <2>4. CASE ReadEditors(q)
    BY <2>4, DeliveryReadEditors
  <2>5. CASE EndOfLoop(q)
    BY <2>5, <1>a, DeliveryIdleQueuer, Zenon DEF EndOfLoop
  <2>6. CASE TakeCheckFails(q)
    BY <2>6, DeliveryRestart DEF TakeCheckFails
  <2>7. ASSUME NEW u \in Users, ReadDevices(q, u) \/ DevicesCheckFails(q, u)
        PROVE DeliveryInv'
    BY <2>7, DeliveryReadDevices, DeliveryRestart DEF DevicesCheckFails
  <2>8. ASSUME NEW d \in Devices, AppendDeviceSync(q, d) PROVE DeliveryInv'
    BY <2>8, DeliveryAppend
  <2> QED BY <1>9, <2>1, <2>2, <2>3, <2>4, <2>5, <2>6, <2>7, <2>8
             DEF QueuerStep
<1>10. CASE UNCHANGED vars
  BY <1>10, DeliveryFrame DEF vars
<1> QED
  BY <1>1, <1>2, <1>3, <1>4, <1>5, <1>6, <1>7, <1>8, <1>9, <1>10
     DEF Next, Environment

\* DeliveryInv holds in every reachable state.
LEMMA DeliveryInvariant == Spec => []DeliveryInv
<1>1. Init => DeliveryInv
  BY Zenon DEF Init, DeliveryInv, OwedInv, FanOutInv, RightRecipients, NoUpdateLost
<1> QED BY <1>1, TypeInvariant, DeliveryStep, PTL DEF Spec

\* UploadPackage and UpdateQueuer::Run lose no update while the server runs, and
\* at most what a queuer had in hand when the process ends.
THEOREM NoUpdateIsLost == Spec => []NoUpdateLost
<1>1. DeliveryInv => NoUpdateLost
  BY DEF DeliveryInv
<1> QED BY <1>1, DeliveryInvariant, PTL

\* DEVICE_SYNC entries are written for editors' devices only and never for the
\* device that uploaded the update.
THEOREM OnlyRightRecipients == Spec => []RightRecipients
<1>1. DeliveryInv => RightRecipients
  BY DEF DeliveryInv
<1> QED BY <1>1, DeliveryInvariant, PTL

-----------------------------------------------------------------------------
(***************************************************************************)
(* QueuerFindsWork needs that server.cc starts one queuer only.            *)
(***************************************************************************)
OneQueuer == \A p, q \in Queuers : p = q
WorkInv == \A q \in Queuers : qpc[q] = "take" => action_queue # {}

\* With one queuer nobody but the thread itself empties the queue between the
\* predicate of cv.wait and db_lock.lock().
LEMMA WorkStep ==
  ASSUME OneQueuer
  PROVE  TypeInv /\ WorkInv /\ [Next]_vars => WorkInv'
<1> SUFFICES ASSUME TypeOK, WorkInv, [Next]_vars PROVE WorkInv'
  BY DEF TypeInv
<1> USE DEF WorkInv, TypeOK, serverDB, threadVars, queuerVars
<1>0. ASSUME Restart PROVE WorkInv'
  BY <1>0 DEF Restart
<1>1. CASE Environment
  BY <1>1, <1>0, Zenon
     DEF Environment, RegisterDevice, ShareTopDir, RegisterRelativePath,
         Receive, SpuriousWakeup, Tick, Crash
<1>2. ASSUME NEW t \in Threads, ThreadStep(t) PROVE WorkInv'
  BY <1>2, Zenon DEF ThreadStep, GetPrevious, PutHead, PutFptrs, PutData, PutQueue,
              Notify, Sleepers
<1>3. ASSUME NEW q \in Queuers, QueuerStep(q) PROVE WorkInv'
  <2>1. \A p \in Queuers : p = q
    BY DEF OneQueuer
  <2> QED BY <2>1, <1>3, <1>0, Zenon
             DEF QueuerStep, CheckEmpty, Block, Take, DeleteFromQueue,
                 ReadEditors, EndOfLoop, TakeCheckFails, ReadDevices,
                 DevicesCheckFails, AppendDeviceSync
<1>4. CASE UNCHANGED vars
  BY <1>4 DEF vars
<1> QED BY <1>1, <1>2, <1>3, <1>4 DEF Next

\* With the one queuer that server.cc starts, CHECK(it->Valid()) of
\* UpdateQueuer::Run never fails.
THEOREM OneQueuerFindsWork ==
  ASSUME OneQueuer PROVE Spec => []QueuerFindsWork
<1>1. Init => WorkInv
  BY DEF Init, WorkInv
<1>2. WorkInv => QueuerFindsWork
  BY DEF WorkInv, QueuerFindsWork
<1>3. TypeInv /\ WorkInv /\ [Next]_vars => WorkInv'
  BY WorkStep
<1> QED BY <1>1, <1>2, <1>3, TypeInvariant, PTL DEF Spec
=============================================================================
