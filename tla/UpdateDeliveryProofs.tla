-------------------------- MODULE UpdateDeliveryProofs --------------------------
(***************************************************************************)
(* For any number of entries, directories, failures and crashes: types,    *)
(* no update is lost, and UpdateDelivery implements ReliableDelivery.      *)
(***************************************************************************)
EXTENDS UpdateDelivery, TLAPS

USE DeliveryAssumption DEF kNumTransportAttempts

-----------------------------------------------------------------------------
\* What a running handler holds: a key of its own directory that is still in
\* UPDATE_QUEUE_SERVER, handled already when the handler is about to delete it.
HandlerInv ==
  \A t \in TopDirs : hpc[t] # "first" =>
     /\ key[t] \in Entries /\ TopDirOf[key[t]] = t
     /\ update_queue_server[key[t]] > 0
     /\ hpc[t] = "delete" => handled[key[t]] > 0

\* What the poller holds at each of its steps.
PollerInv ==
  /\ updates \cap updates_persisted = {}
  /\ pc # "persist" => updates = {}
  /\ pc \in {"poll", "ended"} => updates_persisted = {}

\* Only entries that were sent are anywhere; what the client acknowledges, or a
\* pool thread is still deleting for it, is in UPDATE_QUEUE_SERVER or handled.
HandOverInv ==
  /\ device_sync \cup updates \cup updates_persisted \cup deleting \subseteq sent
  /\ \A e \in Entries \ sent : update_queue_server[e] = 0 /\ handled[e] = 0
  /\ \A e \in updates_persisted \cup deleting :
        update_queue_server[e] > 0 \/ handled[e] > 0

Inv == TypeOK /\ HandlerInv /\ PollerInv /\ HandOverInv /\ NotLost

\* The end of the client keeps the invariant: it forgets locals only.
LEMMA EndInv ==
  ASSUME Inv, End, failures' \in Nat, crashes' \in Nat PROVE Inv'
<1> USE DEF Inv, End, serverVars
<1>1. TypeOK'
  BY DEF TypeOK
<1>2. HandlerInv'
  BY DEF HandlerInv
<1>3. PollerInv'
  BY DEF PollerInv
<1>4. HandOverInv' /\ NotLost'
  BY DEF HandOverInv, NotLost
<1> QED BY <1>1, <1>2, <1>3, <1>4

\* Every step keeps the invariant.
LEMMA InvStep == Inv /\ [Next]_vars => Inv'
<1> SUFFICES ASSUME Inv, [Next]_vars PROVE Inv'
  OBVIOUS
<1> USE DEF Inv, serverVars, pollVars, handlerVars
<1>0. TypeOK /\ HandlerInv /\ PollerInv /\ HandOverInv /\ NotLost
  OBVIOUS
<1>1. ASSUME NEW t \in TopDirs, ShareTopDir(t) PROVE Inv'
  BY <1>1 DEF ShareTopDir, TypeOK, HandlerInv, PollerInv, HandOverInv, NotLost
<1>2. ASSUME NEW e \in Entries, AppendDeviceSync(e) PROVE Inv'
  BY <1>2 DEF AppendDeviceSync, TypeOK, HandlerInv, PollerInv, HandOverInv,
              NotLost
<1>3. ASSUME NEW e \in Entries, DeleteDeviceSync(e) PROVE Inv'
  BY <1>3 DEF DeleteDeviceSync, TypeOK, HandlerInv, PollerInv, HandOverInv,
              NotLost
<1>4. CASE ServerCrash
  BY <1>4 DEF ServerCrash, TypeOK, HandlerInv, PollerInv, HandOverInv, NotLost
<1>5. CASE ClientCrash
  BY <1>5, EndInv DEF ClientCrash, TypeOK
<1>6. CASE PollForUpdates \/ PollException
  BY <1>6 DEF PollForUpdates, PollException, TypeOK, HandlerInv, PollerInv,
              HandOverInv, NotLost
<1>7. ASSUME NEW e \in Entries, Append(e) PROVE Inv'
  <2> USE DEF Append
  <2>1. TypeOK'
    BY <1>7 DEF TypeOK
  <2>2. \A f \in Entries : update_queue_server[f] <= update_queue_server'[f]
    BY <1>7 DEF TypeOK
  <2>3. update_queue_server'[e] > 0
    BY <1>7 DEF TypeOK
  <2>4. HandlerInv'
    BY <1>7, <2>2 DEF HandlerInv, TypeOK
  <2>5. PollerInv'
    BY <1>7 DEF PollerInv, TypeOK
  <2>6. HandOverInv'
    <3>1. e \in sent
      BY <1>7 DEF HandOverInv
    <3>2. \A f \in Entries \ {e} :
             update_queue_server'[f] = update_queue_server[f]
      BY <1>7 DEF TypeOK
    <3> QED BY <1>7, <2>3, <3>1, <3>2 DEF HandOverInv, TypeOK
  <2>7. NotLost'
    BY <1>7, <2>2, <2>3 DEF NotLost, TypeOK
  <2> QED BY <2>1, <2>4, <2>5, <2>6, <2>7
<1>8. ASSUME NEW e \in Entries, AppendCheckFails(e) PROVE Inv'
  BY <1>8, EndInv DEF AppendCheckFails, TypeOK
<1>9. CASE PersistedUpdates \/ PersistedUpdatesReturns
  BY <1>9 DEF PersistedUpdates, PersistedUpdatesReturns, TypeOK, HandlerInv,
              PollerInv, HandOverInv, NotLost
<1>10. CASE TransportFailure
  <2>1. failures' \in Nat /\ crashes' \in Nat
    BY <1>10 DEF TransportFailure, TypeOK
  <2>2. CASE End
    BY <2>1, <2>2, EndInv
  <2>3. CASE ~End
    BY <1>10, <2>1, <2>3
       DEF TransportFailure, TypeOK, HandlerInv, PollerInv, HandOverInv, NotLost
  <2> QED BY <2>2, <2>3
<1>11. ASSUME NEW t \in TopDirs, First(t) PROVE Inv'
  BY <1>11 DEF First, TypeOK, HandlerInv, PollerInv, HandOverInv, NotLost
<1>12. ASSUME NEW t \in TopDirs, WriteFile(t) PROVE Inv'
  <2> USE DEF WriteFile
  <2>1. key[t] \in Entries /\ key[t] \in sent
    BY <1>12 DEF HandlerInv, HandOverInv, TypeOK
  <2>2. TypeOK'
    BY <1>12, <2>1 DEF TypeOK
  <2>3. \A f \in Entries : /\ handled[f] <= handled'[f]
                           /\ f # key[t] => handled'[f] = handled[f]
    BY <1>12, <2>1 DEF TypeOK
  <2>4. handled'[key[t]] > 0
    BY <1>12, <2>1 DEF TypeOK
  <2>5. HandlerInv'
    BY <1>12, <2>1, <2>3, <2>4 DEF HandlerInv, TypeOK
  <2>6. PollerInv'
    BY <1>12 DEF PollerInv
  <2>7. HandOverInv' /\ NotLost'
    BY <1>12, <2>1, <2>3 DEF HandOverInv, NotLost, TypeOK
  <2> QED BY <2>2, <2>5, <2>6, <2>7
<1>13. ASSUME NEW t \in TopDirs, Delete(t) PROVE Inv'
  <2> USE DEF Delete
  <2>1. /\ key[t] \in Entries /\ TopDirOf[key[t]] = t
        /\ update_queue_server[key[t]] > 0 /\ handled[key[t]] > 0
    BY <1>13 DEF HandlerInv
  <2>2. TypeOK'
    BY <1>13, <2>1 DEF TypeOK
  <2>3. \A f \in Entries : f # key[t] =>
           update_queue_server'[f] = update_queue_server[f]
    BY <1>13, <2>1 DEF TypeOK
  <2>4. HandlerInv'
    <3> SUFFICES ASSUME NEW s \in TopDirs, hpc'[s] # "first"
                 PROVE  /\ key[s] \in Entries /\ TopDirOf[key[s]] = s
                        /\ update_queue_server'[key[s]] > 0
                        /\ hpc'[s] = "delete" => handled[key[s]] > 0
      BY <1>13 DEF HandlerInv
    <3>1. s # t /\ hpc'[s] = hpc[s]
      BY <1>13 DEF TypeOK
    <3>2. key[s] # key[t]
      BY <2>1, <3>1 DEF HandlerInv
    <3> QED BY <2>3, <3>1, <3>2 DEF HandlerInv
  <2>5. PollerInv'
    BY <1>13 DEF PollerInv
  <2>6. key[t] \in sent
    BY <2>1 DEF HandOverInv
  <2>7. HandOverInv' /\ NotLost'
    BY <1>13, <2>1, <2>3, <2>6 DEF HandOverInv, NotLost, TypeOK
  <2> QED BY <2>2, <2>4, <2>5, <2>7
<1>14. CASE UNCHANGED vars
  BY <1>14 DEF vars, TypeOK, HandlerInv, PollerInv, HandOverInv, NotLost
<1>15. ASSUME NEW t \in TopDirs, HandleRemoteAction(t) PROVE Inv'
  <2>1. key[t] \in Entries
    BY <1>15 DEF HandleRemoteAction, HandlerInv, TypeOK
  <2> QED BY <1>15, <2>1 DEF HandleRemoteAction, TypeOK, HandlerInv, PollerInv,
                              HandOverInv, NotLost
<1>16. ASSUME NEW t \in TopDirs,
              RemoteAddCheckFails(t) \/ DownloadCheckFails(t) \/ WriteCheckFails(t)
       PROVE  Inv'
  BY <1>16, EndInv
     DEF RemoteAddCheckFails, DownloadCheckFails, WriteCheckFails, TypeOK
<1>17. CASE Start
  BY <1>17 DEF Start, Ended, TypeOK, HandlerInv, PollerInv, HandOverInv, NotLost
<1> QED
  BY <1>1, <1>2, <1>3, <1>4, <1>5, <1>6, <1>7, <1>8, <1>9, <1>10, <1>11, <1>12,
     <1>13, <1>14, <1>15, <1>16, <1>17 DEF Next, PollerStep, HandlerStep

\* The invariant holds in every reachable state.
LEMMA Invariance == Spec => []Inv
<1>1. Init => Inv
  BY DEF Init, Inv, TypeOK, HandlerInv, PollerInv, HandOverInv, NotLost
<1> QED BY <1>1, InvStep, PTL DEF Spec

\* The databases and locals of server and client keep their types.
THEOREM TypeCorrect == Spec => []TypeOK
<1>1. Inv => TypeOK
  BY DEF Inv
<1> QED BY <1>1, Invariance, PTL

\* UpdateFromServer::Run and FileEventQueueHandler::Run lose no update, wherever
\* a connection breaks, the server crashes or the client ends.
THEOREM UpdatesNotLost == Spec => []NotLost
<1>1. Inv => NotLost
  BY DEF Inv
<1> QED BY <1>1, Invariance, PTL

-----------------------------------------------------------------------------
(* UpdateDelivery implements ReliableDelivery *)

\* The deliveries still to make are counted in natural numbers, and an entry
\* that the client has, or has handled, stays accounted for.
LEMMA TodoFacts ==
  ASSUME Inv, NEW e \in Entries
  PROVE  /\ Unhandled(e) \in Nat /\ Expected(e) \in {0, 1}
         /\ Todo \in [Entries -> Nat] /\ Todo[e] = Unhandled(e) + Expected(e)
         /\ update_queue_server[e] > 0 \/ handled[e] > 0
               => Unhandled(e) + handled[e] > 0
<1>1. ASSUME NEW f \in Entries
      PROVE  Unhandled(f) \in Nat /\ Expected(f) \in {0, 1}
  BY DEF Inv, TypeOK, HandlerInv, Unhandled, Expected
<1>2. Todo \in [Entries -> Nat] /\ Todo[e] = Unhandled(e) + Expected(e)
  BY <1>1 DEF Todo
<1>3. update_queue_server[e] > 0 \/ handled[e] > 0 => Unhandled(e) + handled[e] > 0
  BY DEF Inv, TypeOK, HandlerInv, Unhandled
<1> QED BY <1>1, <1>2, <1>3

\* An entry is accounted for exactly when it was sent.
LEMMA SeenIsSent ==
  ASSUME Inv, NEW e \in Entries
  PROVE  Promise!Seen(e) \in Nat /\ (Promise!Seen(e) = 0 <=> e \notin sent)
<1>1. handled[e] \in Nat
  BY DEF Inv, TypeOK
<1>2. CASE e \notin sent
  <2>1. Unhandled(e) = 0 /\ Expected(e) = 0 /\ handled[e] = 0
    BY <1>2 DEF Inv, TypeOK, HandlerInv, HandOverInv, Unhandled, Expected
  <2> QED BY <1>2, <2>1, TodoFacts DEF Promise!Seen
<1>3. CASE e \in sent
  <2>1. CASE e \in device_sync /\ e \notin updates_persisted
    BY <1>1, <1>3, <2>1, TodoFacts DEF Promise!Seen, Expected
  <2>2. CASE update_queue_server[e] > 0 \/ handled[e] > 0
    BY <1>1, <1>3, <2>2, TodoFacts DEF Promise!Seen
  <2> QED BY <1>3, <2>1, <2>2 DEF Inv, NotLost, HandOverInv
<1> QED BY <1>2, <1>3

\* A step that leaves every entry's two numbers alone is a stutter.
LEMMA TodoSame ==
  ASSUME Inv, Inv',
         \A e \in Entries :
            Unhandled(e)' + Expected(e)' = Unhandled(e) + Expected(e)
  PROVE  Todo' = Todo
BY DEF Todo

\* An end of the client is an End of the promise.
LEMMA EndRefines ==
  ASSUME Inv, Inv', End PROVE Promise!End
<1> USE DEF End, serverVars
<1>1. Todo' \in [Entries -> Nat]
  <2>1. ASSUME NEW e \in Entries PROVE (Unhandled(e) + Expected(e))' \in Nat
    BY DEF Inv, TypeOK, HandlerInv, Unhandled, Expected
  <2> QED BY <2>1 DEF Todo
<1>2. ASSUME NEW e \in Entries
      PROVE  IF Promise!Seen(e) = 0 THEN Todo'[e] = 0
             ELSE Todo'[e] <= Todo[e] + 2 /\ Todo'[e] + handled[e] > 0
  <2>1. Todo[e] = Unhandled(e) + Expected(e) /\ Todo'[e] = Unhandled(e)' + Expected(e)'
    BY DEF Todo
  <2>2. /\ Unhandled(e)' = update_queue_server[e]
        /\ Expected(e)' = IF e \in device_sync THEN 1 ELSE 0
    BY DEF Unhandled, Expected, Inv, TypeOK
  <2>3. Unhandled(e)' <= Unhandled(e) + 1 /\ Expected(e)' <= Expected(e) + 1
    BY <2>2 DEF Unhandled, Expected, Inv, TypeOK
  <2>4. CASE e \notin sent
    BY <2>1, <2>2, <2>4, SeenIsSent DEF Inv, HandOverInv
  <2>5. CASE e \in sent
    <3>1. Todo'[e] + handled[e] > 0
      BY <2>1, <2>2, <2>5 DEF Inv, NotLost, TypeOK
    <3>2. Unhandled(e) \in Nat /\ Expected(e) \in Nat
          /\ Unhandled(e)' \in Nat /\ Expected(e)' \in Nat
      BY <2>2, TodoFacts DEF Inv, TypeOK
    <3> QED BY <2>1, <2>3, <2>5, <3>1, <3>2, SeenIsSent
  <2> QED BY <2>4, <2>5
<1> QED BY <1>1, <1>2 DEF Promise!End

\* Every step is a step of the promise or a stutter.
LEMMA StepRefines ==
  ASSUME Inv, Inv', [Next]_vars PROVE [Promise!Next]_Promise!vars
<1> USE DEF serverVars, pollVars, handlerVars
<1>0. /\ handled \in [Entries -> Nat] /\ update_queue_server \in [Entries -> Nat]
      /\ hpc \in [TopDirs -> {"first", "handle", "write", "delete"}]
  BY DEF Inv, TypeOK
<1>s. ASSUME \A e \in Entries :
                Unhandled(e)' + Expected(e)' = Unhandled(e) + Expected(e),
             UNCHANGED <<handled, ends>>
      PROVE  UNCHANGED Promise!vars
  BY <1>s, TodoSame DEF Promise!vars
<1>r. ASSUME End PROVE Promise!Next
  BY <1>r, EndRefines DEF Promise!Next
<1>1. ASSUME NEW e \in Entries, AppendDeviceSync(e) PROVE Promise!Next
  <2> USE DEF AppendDeviceSync
  <2>1. Promise!Seen(e) = 0
    BY <1>1, SeenIsSent
  <2>2. Unhandled(e)' + Expected(e)' = 1
    <3>1. Unhandled(e)' = Unhandled(e) /\ Unhandled(e) = 0
      BY <1>1 DEF Unhandled, Inv, HandlerInv, HandOverInv, TypeOK
    <3>2. Expected(e)' = 1
      BY <1>1 DEF Expected, Inv, HandOverInv
    <3> QED BY <3>1, <3>2
  <2>3. \A f \in Entries \ {e} :
           Unhandled(f)' + Expected(f)' = Unhandled(f) + Expected(f)
    BY <1>1 DEF Unhandled, Expected
  <2>4. Todo' = [Todo EXCEPT ![e] = 1]
    BY <2>2, <2>3 DEF Todo
  <2> QED BY <1>1, <2>1, <2>4 DEF Promise!Next, Promise!Send
<1>2. ASSUME NEW e \in Entries, DeleteDeviceSync(e)
      PROVE  [Promise!Next]_Promise!vars
  <2> USE DEF DeleteDeviceSync
  <2>1. \A f \in Entries : Unhandled(f)' = Unhandled(f)
    BY <1>2 DEF Unhandled
  <2>2. \A f \in Entries \ {e} : Expected(f)' = Expected(f)
    BY <1>2 DEF Expected
  <2>3. CASE Expected(e)' = Expected(e)
    BY <1>2, <2>1, <2>2, <2>3, <1>s
  <2>4. CASE Expected(e)' # Expected(e)
    <3>1. Expected(e) = 1 /\ Expected(e)' = 0
      BY <1>2, <2>4 DEF Expected
    <3>2. Unhandled(e) + handled[e] > 0
      BY <1>2, TodoFacts DEF Inv, HandOverInv
    <3>3. Todo[e] > 0 /\ Promise!Seen(e) > 1
      BY <3>1, <3>2, <1>0, TodoFacts DEF Promise!Seen
    <3>4. Todo' = [Todo EXCEPT ![e] = @ - 1]
      <4>1. Unhandled(e)' + Expected(e)' = Todo[e] - 1
        BY <2>1, <3>1, TodoFacts
      <4> QED BY <2>1, <2>2, <4>1 DEF Todo
    <3> QED BY <1>2, <3>3, <3>4 DEF Promise!Next, Promise!DropDuplicate
  <2> QED BY <2>3, <2>4
<1>3. CASE \/ ServerCrash \/ PersistedUpdates \/ PollException
           \/ \E t \in TopDirs : ShareTopDir(t)
  BY <1>3, <1>s
     DEF ServerCrash, PersistedUpdates, PollException, ShareTopDir, Unhandled, Expected
<1>4. CASE PollForUpdates \/ PersistedUpdatesReturns
  <2>1. \A e \in Entries : Unhandled(e)' = Unhandled(e)
    BY <1>4 DEF PollForUpdates, PersistedUpdatesReturns, Unhandled
  <2>2. \A e \in Entries : Expected(e)' = Expected(e)
    BY <1>4 DEF PollForUpdates, PersistedUpdatesReturns, Expected, Inv, PollerInv
  <2> QED BY <1>4, <2>1, <2>2, <1>s DEF PollForUpdates, PersistedUpdatesReturns
<1>5. ASSUME NEW e \in Entries, Append(e) PROVE UNCHANGED Promise!vars
  <2>1. \A f \in Entries \ {e} :
           Unhandled(f)' = Unhandled(f) /\ Expected(f)' = Expected(f)
    BY <1>5, <1>0 DEF Append, Unhandled, Expected
  <2>2. Unhandled(e)' = Unhandled(e) + 1 /\ Expected(e)' = 0 /\ Expected(e) = 1
    BY <1>5, <1>0 DEF Append, Unhandled, Expected, Inv, PollerInv
  <2>3. Unhandled(e) \in Nat
    BY TodoFacts
  <2>4. Unhandled(e)' + Expected(e)' = Unhandled(e) + Expected(e)
    BY <2>2, <2>3
  <2> QED BY <1>5, <2>1, <2>4, <1>s DEF Append
<1>6. CASE TransportFailure
  <2>1. CASE End
    BY <2>1, <1>r
  <2>2. CASE ~End
    BY <1>6, <2>2, <1>s DEF TransportFailure, Unhandled, Expected
  <2> QED BY <2>1, <2>2
<1>7. CASE ClientCrash \/ \E e \in Entries : AppendCheckFails(e)
  BY <1>7, <1>r DEF ClientCrash, AppendCheckFails
<1>8. ASSUME NEW t \in TopDirs, First(t) PROVE UNCHANGED Promise!vars
  <2>1. \A e \in Entries : Unhandled(e)' = Unhandled(e) /\ Expected(e)' = Expected(e)
    BY <1>8, <1>0 DEF First, Unhandled, Expected, Inv, TypeOK
  <2> QED BY <1>8, <2>1, <1>s DEF First
<1>9. ASSUME NEW t \in TopDirs, WriteFile(t) PROVE Promise!Next
  <2> USE DEF WriteFile
  <2>0. PICK k \in Entries : k = key[t]
    BY <1>9 DEF Inv, HandlerInv
  <2>1. k = key[t] /\ TopDirOf[k] = t /\ update_queue_server[k] > 0
    BY <1>9, <2>0 DEF Inv, HandlerInv
  <2>2. Unhandled(k) = update_queue_server[k] /\ Unhandled(k)' = Unhandled(k) - 1
    BY <1>9, <1>0, <2>1 DEF Unhandled
  <2>3. \A e \in Entries \ {k} : Unhandled(e)' = Unhandled(e)
    BY <1>9, <1>0, <2>1 DEF Unhandled
  <2>4. \A e \in Entries : Expected(e)' = Expected(e)
    BY <1>9 DEF Expected
  <2>5. Todo[k] > 0 /\ Unhandled(k)' + Expected(k)' = Todo[k] - 1
    BY <2>1, <2>2, <2>4, <1>0, TodoFacts
  <2>6. Todo' = [Todo EXCEPT ![k] = @ - 1]
    BY <2>1, <2>3, <2>4, <2>5 DEF Todo
  <2> QED BY <1>9, <2>1, <2>5, <2>6 DEF Promise!Next, Promise!Handle
<1>10. ASSUME NEW t \in TopDirs, Delete(t) PROVE UNCHANGED Promise!vars
  <2>1. key[t] \in Entries /\ TopDirOf[key[t]] = t
    BY <1>10 DEF Inv, HandlerInv, Delete
  <2>2. \A e \in Entries : Unhandled(e)' = Unhandled(e)
    BY <1>10, <1>0, <2>1 DEF Delete, Unhandled
  <2>3. \A e \in Entries : Expected(e)' = Expected(e)
    BY <1>10 DEF Delete, Expected
  <2> QED BY <1>10, <2>2, <2>3, <1>s DEF Delete
<1>11. CASE UNCHANGED vars
  BY <1>11, <1>s DEF vars, Unhandled, Expected
<1>12. ASSUME NEW t \in TopDirs, HandleRemoteAction(t) PROVE UNCHANGED Promise!vars
  <2>1. \A e \in Entries : Unhandled(e)' = Unhandled(e) /\ Expected(e)' = Expected(e)
    BY <1>12, <1>0 DEF HandleRemoteAction, Unhandled, Expected
  <2> QED BY <1>12, <2>1, <1>s DEF HandleRemoteAction
<1>13. ASSUME NEW t \in TopDirs,
              RemoteAddCheckFails(t) \/ DownloadCheckFails(t) \/ WriteCheckFails(t)
       PROVE  Promise!Next
  BY <1>13, <1>r DEF RemoteAddCheckFails, DownloadCheckFails, WriteCheckFails
<1>14. CASE Start
  BY <1>14, <1>s DEF Start, Unhandled, Expected
<1> QED
  BY <1>1, <1>2, <1>3, <1>4, <1>5, <1>6, <1>7, <1>8, <1>9, <1>10, <1>11,
     <1>12, <1>13, <1>14 DEF Next, PollerStep, HandlerStep

\* The code's polling, persisting, acknowledging and handling implement
\* ReliableDelivery.
THEOREM Implements == Spec => ImplementsPromise
<1>1. Init => Promise!Init
  BY DEF Init, Promise!Init, Todo, Unhandled, Expected
<1>2. Inv /\ Inv' /\ [Next]_vars => [Promise!Next]_Promise!vars
  BY StepRefines
<1> QED BY <1>1, <1>2, Invariance, PTL DEF Spec, Promise!Spec, ImplementsPromise

\* The bound the promise gives on the deliveries made and still to make.
Bound == \A e \in Entries : Promise!Seen(e) <= 1 + 2 * ends

\* A step of the promise keeps the bound.
LEMMA BoundStep ==
  ASSUME Inv, Bound, [Promise!Next]_Promise!vars PROVE Bound'
<1>0. handled \in [Entries -> Nat] /\ Todo \in [Entries -> Nat] /\ ends \in Nat
  <2>1. ASSUME NEW e \in Entries PROVE Unhandled(e) + Expected(e) \in Nat
    BY TodoFacts
  <2> QED BY <2>1 DEF Inv, TypeOK, Todo
<1> USE DEF Bound, Promise!Seen
<1>1. ASSUME NEW e \in Entries,
             Promise!Send(e) \/ Promise!Handle(e) \/ Promise!DropDuplicate(e)
      PROVE  Bound'
  BY <1>0, <1>1 DEF Promise!Send, Promise!Handle, Promise!DropDuplicate
<1>2. CASE Promise!End
  BY <1>0, <1>2 DEF Promise!End
<1>3. CASE UNCHANGED Promise!vars
  BY <1>3 DEF Promise!vars
<1> QED BY <1>1, <1>2, <1>3 DEF Promise!Next

\* An update is handled once, and at most twice more per end of the client,
\* whatever Exec retries and however often the server crashes.
THEOREM HandledOncePerRun == Spec => []HandledAtMost
<1>1. Init => Bound
  <2> SUFFICES ASSUME Init, NEW e \in Entries
               PROVE  Promise!Seen(e) <= 1 + 2 * ends
    BY DEF Bound
  <2>1. Unhandled(e) = 0 /\ Expected(e) = 0
    BY DEF Init, Unhandled, Expected
  <2> QED BY <2>1 DEF Init, Promise!Seen, Todo
<1>2. Inv /\ Inv' /\ Bound /\ [Next]_vars => Bound'
  BY StepRefines, BoundStep
<1>3. Inv /\ Bound => HandledAtMost
  <2> SUFFICES ASSUME Inv, Bound, NEW e \in Entries
               PROVE  handled[e] <= 1 + 2 * ends
    BY DEF HandledAtMost
  <2>1. Todo[e] \in Nat /\ handled[e] \in Nat /\ ends \in Nat
    BY TodoFacts DEF Inv, TypeOK
  <2> QED BY <2>1 DEF Bound, Promise!Seen
<1> QED BY <1>1, <1>2, <1>3, Invariance, PTL DEF Spec
=============================================================================
