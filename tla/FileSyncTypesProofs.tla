------------------------ MODULE FileSyncTypesProofs -------------------------
(***************************************************************************)
(* For any devices, contents and bounds: the handlers' state keeps its     *)
(* types.  Also what the events of a device's files make of its queue.     *)
(***************************************************************************)
EXTENDS FileSync, TLAPS

-----------------------------------------------------------------------------
(* Events in a queue.  The handler has still to look at those after the     *)
(* first k.                                                                 *)

Has(q, k, a) == \E i \in DOMAIN q : i > k /\ q[i] = a
Twice(q, k, a) ==
  \E i, j \in DOMAIN q : i > k /\ j > k /\ i # j /\ q[i] = a /\ q[j] = a

\* An event that is appended is one more of its kind.
LEMMA OneMore ==
  ASSUME NEW q \in Seq(Actions), NEW a \in Actions, NEW k \in 0 .. 1, k <= Len(q)
  PROVE  /\ Append(q, a) \in Seq(Actions)
         /\ Has(Append(q, a), k, a)
         /\ Has(q, k, a) => Twice(Append(q, a), k, a)
         /\ \A b \in Actions : Has(q, k, b) => Has(Append(q, a), k, b)
<1> DEFINE r == Append(q, a)
<1>1. /\ r \in Seq(Actions) /\ Len(r) = Len(q) + 1 /\ DOMAIN r = 1 .. Len(q) + 1
      /\ DOMAIN q = 1 .. Len(q) /\ Len(q) \in Nat
      /\ \A i \in 1 .. Len(q) : r[i] = q[i]
      /\ r[Len(q) + 1] = a
  OBVIOUS
<1> HIDE DEF r
<1>2. Has(r, k, a)
  BY <1>1 DEF Has
<1>3. ASSUME Has(q, k, a) PROVE Twice(r, k, a)
  <2>1. PICK i \in DOMAIN q : i > k /\ q[i] = a
    BY <1>3, Zenon DEF Has
  <2>2. /\ i \in DOMAIN r /\ Len(q) + 1 \in DOMAIN r /\ i # Len(q) + 1
        /\ Len(q) + 1 > k /\ r[i] = a
    BY <1>1, <2>1
  <2> QED BY <1>1, <2>1, <2>2, Zenon DEF Twice
<1>4. \A b \in Actions : Has(q, k, b) => Has(r, k, b)
  BY <1>1 DEF Has
<1> QED BY <1>1, <1>2, <1>3, <1>4, Zenon DEF r

\* An event that is the first one no longer waits once the handler takes it.
LEMMA FirstTaken ==
  ASSUME NEW q \in Seq(Actions), q # <<>>, NEW b \in Actions
  PROVE  /\ b # Head(q) /\ Has(q, 0, b) => Has(q, 1, b)
         /\ b # Head(q) /\ Twice(q, 0, b) => Twice(q, 1, b)
         /\ Twice(q, 0, b) => Has(q, 1, b)
<1>1. /\ Head(q) = q[1] /\ DOMAIN q = 1 .. Len(q) /\ Len(q) \in Nat
  OBVIOUS
<1>2. \A i \in DOMAIN q : i > 0 /\ (i > 1 \/ i = 1)
  BY <1>1
<1> QED BY <1>1, <1>2, Zenon DEF Has, Twice

\* Deleting the event the handler has dealt with leaves those that wait.
LEMMA FirstDeleted ==
  ASSUME NEW q \in Seq(Actions), q # <<>>, NEW b \in Actions
  PROVE  /\ Tail(q) \in Seq(Actions)
         /\ Has(q, 1, b) => Has(Tail(q), 0, b)
         /\ Twice(q, 1, b) => Twice(Tail(q), 0, b)
<1> DEFINE r == Tail(q)
<1>1. /\ r \in Seq(Actions) /\ DOMAIN q = 1 .. Len(q) /\ Len(q) \in Nat
      /\ DOMAIN r = 1 .. Len(q) - 1
      /\ \A i \in 1 .. Len(q) - 1 : r[i] = q[i + 1]
  OBVIOUS
<1> HIDE DEF r
<1>2. \A i \in DOMAIN q : i > 1 =>
        i - 1 \in DOMAIN r /\ i - 1 > 0 /\ r[i - 1] = q[i]
  BY <1>1
<1>3. Has(q, 1, b) => Has(r, 0, b)
  BY <1>2, Zenon DEF Has
<1>4. Twice(q, 1, b) => Twice(r, 0, b)
  <2>1. SUFFICES ASSUME NEW i \in DOMAIN q, NEW j \in DOMAIN q, i > 1, j > 1, i # j,
                        q[i] = b, q[j] = b
                 PROVE  Twice(r, 0, b)
    BY Zenon DEF Twice
  <2>2. i - 1 # j - 1
    BY <1>1, <2>1
  <2> QED BY <1>2, <2>1, <2>2, Zenon DEF Twice
<1> QED BY <1>1, <1>3, <1>4, Zenon DEF r

\* Queues that Queued may make, of a queue with at least k events.
LEMMA QueuedForms ==
  ASSUME NEW q \in Seq(Actions), NEW a \in Actions, NEW apart \in BOOLEAN,
         NEW r \in Queued(q, a, apart)
  PROVE  /\ r \in Seq(Actions) /\ Len(r) >= Len(q) /\ (q # <<>> => r # <<>>)
         /\ \/ r = Append(q, a) /\ Len(r) = Len(q) + 1
            \/ q # <<>> /\ r = q
            \/ q # <<>> /\ r = [q EXCEPT ![Len(q)] = a] /\ Len(r) = Len(q)
BY DEF Queued

\* No kind of event that waits is lost, and one event of a change is new.
Gains(q, r, k) ==
  /\ \A b \in {"Add", "Modified"} : Has(q, k, b) => Has(r, k, b)
  /\ \E a \in {"Add", "Modified"} : Has(r, k, a) /\ (Has(q, k, a) => Twice(r, k, a))

LEMMA AppendGains ==
  ASSUME NEW q \in Seq(Actions), NEW a \in {"Add", "Modified"}, NEW k \in 0 .. 1,
         k <= Len(q)
  PROVE  Gains(q, Append(q, a), k)
<1>1. {"Add", "Modified"} \subseteq Actions
  BY Zenon DEF Actions
<1> QED BY <1>1, OneMore, Zenon DEF Gains

\* An event that makes way for another one.
LEMMA LastReplaced ==
  ASSUME NEW q \in Seq(Actions), q # <<>>, NEW a \in Actions
  PROVE  LET r == [q EXCEPT ![Len(q)] = a] IN
         /\ r \in Seq(Actions) /\ Len(r) = Len(q) /\ r # <<>>
         /\ DOMAIN r = DOMAIN q /\ DOMAIN q = 1 .. Len(q) /\ Len(q) \in Nat \ {0}
         /\ r[Len(q)] = a
         /\ \A i \in DOMAIN q : i # Len(q) => r[i] = q[i]
OBVIOUS

\* A file is created over the event before, and then written: the event that is
\* replaced is made up for by the two new ones.
LEMMA ReplacedGains ==
  ASSUME NEW q \in Seq(Actions), q # <<>>, NEW k \in 0 .. 1
  PROVE  Gains(q, Append([q EXCEPT ![Len(q)] = "Add"], "Modified"), k)
<1> DEFINE s == [q EXCEPT ![Len(q)] = "Add"]
           r == Append(s, "Modified")
<1> SUFFICES Gains(q, r, k)
  BY Zenon
<1>1. "Add" \in Actions /\ "Modified" \in Actions
  BY Zenon DEF Actions
<1>2. /\ s \in Seq(Actions) /\ Len(s) = Len(q) /\ s[Len(q)] = "Add"
      /\ DOMAIN q = 1 .. Len(q) /\ Len(q) \in Nat \ {0}
      /\ \A i \in DOMAIN q : i # Len(q) => s[i] = q[i]
  BY <1>1, LastReplaced, Zenon
<1> HIDE DEF s
<1>3. /\ DOMAIN r = 1 .. Len(q) + 1 /\ r[Len(q) + 1] = "Modified"
      /\ r[Len(q)] = "Add"
      /\ \A i \in DOMAIN q : i # Len(q) => r[i] = q[i]
  BY <1>1, <1>2
<1> HIDE DEF r
<1>4. Has(r, k, "Modified")
  BY <1>2, <1>3 DEF Has
<1>5. CASE Len(q) > k
  <2>1. Has(r, k, "Add")
    BY <1>2, <1>3, <1>5 DEF Has
  <2>2. CASE q[Len(q)] # "Add"
    <3>1. \A b \in {"Add", "Modified"} : Has(q, k, b) => Has(r, k, b)
      BY <1>2, <1>3, <1>4, <2>2 DEF Has
    <3>2. ASSUME Has(q, k, "Add") PROVE Twice(r, k, "Add")
      <4>1. PICK i \in DOMAIN q : i > k /\ q[i] = "Add"
        BY <3>2, Zenon DEF Has
      <4>2. i # Len(q) /\ i \in DOMAIN r /\ Len(q) \in DOMAIN r
        BY <1>2, <1>3, <2>2, <4>1
      <4> QED BY <1>3, <1>5, <4>1, <4>2, Zenon DEF Twice
    <3> QED BY <2>1, <3>1, <3>2, Zenon DEF Gains
  <2>3. CASE q[Len(q)] = "Add"
    <3>1. \A b \in {"Add", "Modified"} : Has(q, k, b) => Has(r, k, b)
      BY <1>2, <1>3, <2>1, <2>3 DEF Has
    <3>2. ASSUME Has(q, k, "Modified") PROVE Twice(r, k, "Modified")
      <4>1. PICK i \in DOMAIN q : i > k /\ q[i] = "Modified"
        BY <3>2, Zenon DEF Has
      <4>2. /\ i # Len(q) /\ i \in DOMAIN r /\ Len(q) + 1 \in DOMAIN r
            /\ i # Len(q) + 1 /\ Len(q) + 1 > k
        BY <1>2, <1>3, <2>3, <4>1
      <4> QED BY <1>3, <4>1, <4>2, Zenon DEF Twice
    <3> QED BY <1>4, <3>1, <3>2, Zenon DEF Gains
  <2> QED BY <2>2, <2>3, Zenon
<1>6. CASE Len(q) <= k
  <2>1. \A b : ~Has(q, k, b)
    BY <1>2, <1>6 DEF Has
  <2> QED BY <1>4, <2>1, Zenon DEF Gains
<1> QED BY <1>2, <1>5, <1>6

LEMMA AppendedReplaced ==
  ASSUME NEW q \in Seq(Actions), NEW a \in Actions, NEW b \in Actions
  PROVE  LET s == Append(q, a) IN [s EXCEPT ![Len(s)] = b] = Append(q, b)
<1>1. PICK s : s = Append(q, a)
  BY Zenon
<1>2. /\ s \in Seq(Actions) /\ Len(s) = Len(q) + 1 /\ DOMAIN s = 1 .. Len(q) + 1
      /\ \A i \in 1 .. Len(q) : s[i] = q[i]
  BY <1>1
<1>3. PICK r : r = [s EXCEPT ![Len(q) + 1] = b]
  BY Zenon
<1>4. /\ r \in Seq(Actions) /\ Len(r) = Len(q) + 1 /\ r[Len(q) + 1] = b
      /\ \A i \in 1 .. Len(q) : r[i] = q[i]
  BY <1>2, <1>3
<1>5. r = Append(q, b)
  <2>1. PICK t : t = Append(q, b)
    BY Zenon
  <2>2. /\ t \in Seq(Actions) /\ Len(t) = Len(q) + 1 /\ t[Len(q) + 1] = b
        /\ \A i \in 1 .. Len(q) : t[i] = q[i]
    BY <2>1
  <2>3. \A i \in 1 .. Len(q) + 1 : r[i] = t[i]
    BY <1>4, <2>2
  <2> QED BY <1>4, <2>1, <2>2, <2>3
<1> QED BY <1>1, <1>2, <1>3, <1>5, Zenon

\* The events of a write: as many as before at least; those of a longer queue
\* gain; one that is as much longer as it can be has the events of the write.
LEMMA EventsOfWrite ==
  ASSUME NEW d \in Devices, events[d] \in Seq(Actions), NEW r \in Written(d),
         NEW k \in 0 .. 1, k <= Len(events[d])
  PROVE  /\ r \in Seq(Actions) /\ Len(r) >= Len(events[d])
         /\ events[d] # <<>> => r # <<>>
         /\ Len(r) > Len(events[d]) => Gains(events[d], r, k)
         /\ Len(r) = Len(events[d]) + (IF disk[d] = NoFile THEN 2 ELSE 1) =>
              /\ Has(r, k, "Modified")
              /\ disk[d] = NoFile => Has(r, k, "Add")
<1> DEFINE q == events[d]
<1>0. /\ q \in Seq(Actions) /\ Len(q) \in Nat /\ {"Add", "Modified"} \subseteq Actions
      /\ Apart \in BOOLEAN
  BY SyncAssumption DEF Actions
<1>1. CASE disk[d] # NoFile
  <2>1. r \in Queued(q, "Modified", Apart)
    BY <1>1, Zenon DEF Written
  <2>2. /\ r \in Seq(Actions) /\ Len(r) >= Len(q) /\ (q # <<>> => r # <<>>)
        /\ Len(r) > Len(q) => r = Append(q, "Modified")
    BY <1>0, <2>1, QueuedForms
  <2>3. Gains(q, Append(q, "Modified"), k) /\ Has(Append(q, "Modified"), k, "Modified")
    BY <1>0, AppendGains, OneMore, Zenon
  <2>4. /\ Len(r) > Len(q) => Gains(q, r, k) /\ Has(r, k, "Modified")
        /\ Len(r) = Len(q) + 1 => Len(r) > Len(q)
    <3>1. Len(r) \in Nat /\ Len(q) \in Nat
      BY <1>0, <2>2
    <3>2. Len(r) > Len(q) => Gains(q, r, k) /\ Has(r, k, "Modified")
      BY <2>2, <2>3, Zenon
    <3> QED BY <3>1, <3>2
  <2> QED BY <1>1, <2>2, <2>4, Zenon
<1>2. CASE disk[d] = NoFile
  <2>1. PICK s \in Queued(q, "Add", Apart) : r \in Queued(s, "Modified", FALSE)
    BY <1>2, Zenon DEF Written
  <2>2. /\ s \in Seq(Actions) /\ Len(s) >= Len(q) /\ (q # <<>> => s # <<>>)
        /\ \/ s = Append(q, "Add") /\ Len(s) = Len(q) + 1
           \/ q # <<>> /\ s = q
           \/ q # <<>> /\ s = [q EXCEPT ![Len(q)] = "Add"] /\ Len(s) = Len(q)
    BY <1>0, <2>1, QueuedForms
  <2>3. /\ r \in Seq(Actions) /\ Len(r) >= Len(s) /\ (s # <<>> => r # <<>>)
        /\ \/ r = Append(s, "Modified") /\ Len(r) = Len(s) + 1
           \/ s # <<>> /\ r = s
           \/ s # <<>> /\ r = [s EXCEPT ![Len(s)] = "Modified"] /\ Len(r) = Len(s)
    BY <1>0, <2>1, <2>2, QueuedForms, Zenon
  <2>4. r \in Seq(Actions) /\ Len(r) >= Len(q) /\ (q # <<>> => r # <<>>)
    BY <1>0, <2>2, <2>3
  <2>5. CASE s = Append(q, "Add") /\ Len(s) = Len(q) + 1
    <3>1. Gains(q, s, k) /\ Has(s, k, "Add") /\ k <= Len(s)
      BY <1>0, <2>5, AppendGains, OneMore
    <3>2. CASE r = Append(s, "Modified") /\ Len(r) = Len(s) + 1
      <4>1. /\ Has(r, k, "Modified") /\ \A b \in Actions : Has(s, k, b) => Has(r, k, b)
            /\ Has(s, k, "Modified") => Twice(r, k, "Modified")
        BY <1>0, <2>2, <3>1, <3>2, OneMore, Zenon
      <4>2. \A b \in {"Add", "Modified"} :
              Has(q, k, b) => Has(s, k, b) /\ Has(r, k, b)
        BY <1>0, <3>1, <4>1, Zenon DEF Gains
      <4>3. Gains(q, r, k)
        BY <4>1, <4>2, Zenon DEF Gains
      <4>4. Has(r, k, "Add")
        BY <1>0, <3>1, <4>1, Zenon
      <4> QED BY <2>4, <4>1, <4>3, <4>4, Zenon
    <3>3. CASE r = s
      BY <1>0, <1>2, <2>4, <2>5, <3>1, <3>3
    <3>4. CASE r = [s EXCEPT ![Len(s)] = "Modified"] /\ Len(r) = Len(s)
      <4>1. r = Append(q, "Modified")
        BY <1>0, <2>5, <3>4, AppendedReplaced, Zenon
      <4>2. Gains(q, r, k)
        BY <1>0, <4>1, AppendGains, Zenon
      <4> QED BY <1>0, <1>2, <2>4, <2>5, <3>4, <4>2
    <3> QED BY <2>3, <3>2, <3>3, <3>4, Zenon
  <2>6. CASE Len(s) = Len(q)
    <3>1. Len(r) <= Len(q) + 1 /\ Len(r) # Len(q) + 2
      BY <1>0, <2>3, <2>6
    <3>2. ASSUME Len(r) > Len(q) PROVE Gains(q, r, k)
      <4>1. r = Append(s, "Modified")
        BY <1>0, <2>3, <2>6, <3>2
      <4>2. CASE s = q
        BY <1>0, <4>1, <4>2, AppendGains, Zenon
      <4>3. CASE q # <<>> /\ s = [q EXCEPT ![Len(q)] = "Add"]
        BY <1>0, <4>1, <4>3, ReplacedGains, Zenon
      <4> QED BY <1>0, <2>2, <2>6, <4>2, <4>3
    <3> QED BY <1>2, <2>4, <3>1, <3>2, Zenon
  <2> QED BY <2>2, <2>5, <2>6, Zenon
<1> QED BY <1>1, <1>2, Zenon

-----------------------------------------------------------------------------
(* The inductive invariant of the types.                                    *)

\* Where Run is with an event of its own disk, with an update, and with either.
Uploading == {"read_add", "read_mod", "upload_add", "upload_mod"}
Local == Uploading \cup {"register", "repeat", "delete_local"}
Remote == {"remote_add", "remote_mod", "write_add", "write_mod", "delete_remote"}
Either == {"store_file", "store_hash"}

Files ==
  /\ disk \in [Devices -> Stored \cup {NoFile}]
  /\ events \in [Devices -> Seq(Actions)]
  /\ ignorable_actions \in [Devices -> SUBSET {"Add", "Modified"}]
  /\ head_file \in [Devices -> Stored]
  /\ head_file_hash \in [Devices -> Stored \cup {NoFile}]
  /\ current \in [Devices -> Stored]
  /\ unread \subseteq Devices

Guids ==
  /\ rel_paths \in Nat
  /\ relpath_id_location \in [Devices -> SUBSET (1 .. rel_paths)]
  /\ location_relpath_id \in [Devices -> 0 .. rel_paths]
  /\ \A n \in DOMAIN packages : packages[n].guid <= rel_paths

Updates ==
  /\ packages \in Seq(Package)
  /\ device_sync \in [Devices -> SUBSET (DOMAIN packages)]
  /\ unacked \in [Devices -> SUBSET (DOMAIN packages)]
  /\ update_queue_server \in [Devices -> SUBSET ((DOMAIN packages) \X Nat)]

\* What Run holds at each of its places.
Places ==
  /\ hpc \in [Devices -> Local \cup Remote \cup Either \cup {"first", "ended"}]
  /\ key \in [Devices -> ((DOMAIN packages) \X Nat) \cup {None}]
  /\ \A d \in Devices :
       /\ hpc[d] \in Local \cup {"first", "ended"} => key[d] = None
       /\ hpc[d] \in Remote => key[d] # None
       /\ hpc[d] \in Local \cup Either /\ key[d] = None => events[d] # <<>>
       /\ hpc[d] \in Uploading => location_relpath_id[d] # 0
       /\ hpc[d] = "repeat" => \E n \in DOMAIN packages : packages[n].device = d

\* Modifications, and the uploads of a device, have a last one, which Download and
\* Exec look for.
HasLast(S) == S = {} \/ \E m \in S : \A n \in S : m >= n
Mods == {n \in DOMAIN packages : packages[n].kind = "mod"}
Of(d) == {n \in DOMAIN packages : packages[n].device = d}
Lasts == HasLast(Mods) /\ \A d \in Devices : HasLast(Of(d))

TInv == Files /\ Guids /\ Updates /\ Places /\ Lasts

LEMMA TInvTypes == TInv => TypeOK
BY DEF TInv, TypeOK, Files, Guids, Updates, Stored, Package, Actions

LEMMA LastOne ==
  ASSUME NEW S, HasLast(S), S # {}
  PROVE  Max(S) \in S
BY Zenon DEF Max, HasLast

\* What a handler downloads is a package of the server; a modification is
\* answered by one.
LEMMA DownloadType ==
  ASSUME Updates, Lasts, NEW n \in DOMAIN packages
  PROVE  \E m \in DOMAIN packages :
           Download(n) = packages[m] /\ packages[m].kind = packages[n].kind
<1>1. packages[n] \in Package /\ DOMAIN packages = 1 .. Len(packages)
        /\ Len(packages) \in Nat
  BY DEF Updates
<1>2. packages[n].kind \in {"add", "mod"}
  BY <1>1, Zenon DEF Package
<1>3. CASE packages[n].kind = "add"
  BY <1>3, Zenon DEF Download
<1>4. CASE packages[n].kind = "mod"
  <2>1. Mods # {}
    BY <1>4, Zenon DEF Mods
  <2>2. Max(Mods) \in Mods
    BY <2>1, LastOne, Zenon DEF Lasts
  <2>3. Download(n) = packages[Max(Mods)]
    BY <1>4, Zenon DEF Download, Mods
  <2> QED BY <1>4, <2>2, <2>3, Zenon DEF Mods
<1> QED BY <1>2, <1>3, <1>4, Zenon

LEMMA PackageFields ==
  ASSUME Updates, NEW n \in DOMAIN packages
  PROVE  /\ packages[n] \in Package /\ packages[n].content \in Stored
         /\ packages[n].guid \in Nat \ {0}
<1>1. packages[n] \in Package
  BY DEF Updates
<1> QED BY <1>1, Zenon DEF Package

\* UploadPackage adds one package of the device and loses nothing.
LEMMA UploadType ==
  ASSUME Updates, Lasts, NEW d \in Devices, NEW pkg, Upload(d, pkg),
         pkg.kind \in {"add", "mod"}, pkg.type \in {"SNAPSHOT", "DELTA"},
         pkg.base \in Stored, pkg.content \in Stored, pkg.guid \in Nat \ {0}
  PROVE  /\ packages' \in Seq(Package)
         /\ DOMAIN packages \subseteq DOMAIN packages'
         /\ \A n \in DOMAIN packages : packages'[n] = packages[n]
         /\ DOMAIN packages' = DOMAIN packages \cup {Len(packages) + 1}
         /\ packages'[Len(packages) + 1].device = d
         /\ packages'[Len(packages) + 1].guid = pkg.guid
         /\ device_sync' \in [Devices -> SUBSET (DOMAIN packages')]
         /\ Lasts'
<1>1. /\ packages \in Seq(Package) /\ DOMAIN packages = 1 .. Len(packages)
      /\ Len(packages) \in Nat
  BY DEF Updates
<1> DEFINE last == IF packages = <<>> THEN 0 ELSE packages[Len(packages) + 1 - 1].ts
<1>2. last \in Nat
  <2>1. CASE packages # <<>>
    <3>1. Len(packages) + 1 - 1 \in DOMAIN packages
      BY <1>1, <2>1
    <3>2. packages[Len(packages) + 1 - 1] \in Package
      BY <1>1, <3>1
    <3> QED BY <2>1, <3>2, Zenon DEF Package
  <2> QED BY <2>1, Zenon
<1> HIDE DEF last
<1>3. PICK ts \in {last, last + 1} :
        packages' = Append(packages, [ts |-> ts, device |-> d, kind |-> pkg.kind,
                                      type |-> pkg.type, base |-> pkg.base,
                                      content |-> pkg.content, guid |-> pkg.guid])
  BY DEF Upload, last
<1>4. PICK p : p = [ts |-> ts, device |-> d, kind |-> pkg.kind, type |-> pkg.type,
                    base |-> pkg.base, content |-> pkg.content, guid |-> pkg.guid]
  BY Zenon
<1>5. ts \in Nat
  BY <1>2, <1>3
<1>6. p \in Package /\ p.device = d /\ p.guid = pkg.guid
  BY <1>4, <1>5, Zenon DEF Package
<1>7. packages' = Append(packages, p)
  BY <1>3, <1>4, Zenon
<1>8. /\ packages' \in Seq(Package) /\ DOMAIN packages' = 1 .. Len(packages) + 1
      /\ \A n \in DOMAIN packages : packages'[n] = packages[n]
      /\ packages'[Len(packages) + 1] = p
  BY <1>1, <1>6, <1>7
<1>9. DOMAIN packages' = DOMAIN packages \cup {Len(packages) + 1}
  BY <1>1, <1>8
<1>10. device_sync' \in [Devices -> SUBSET (DOMAIN packages')]
  BY <1>9, Zenon DEF Upload, Updates
<1>11. \A n \in DOMAIN packages' : Len(packages) + 1 >= n
  BY <1>1, <1>8
<1>12. ASSUME NEW S, NEW T, T \subseteq DOMAIN packages', HasLast(S),
              T = S \/ T = S \cup {Len(packages) + 1}
       PROVE  HasLast(T)
  BY <1>11, <1>12, Zenon DEF HasLast
<1>13. /\ Mods' \subseteq DOMAIN packages'
       /\ Mods' = Mods \/ Mods' = Mods \cup {Len(packages) + 1}
  BY <1>1, <1>8, <1>9, Zenon DEF Mods
<1>14. ASSUME NEW e \in Devices
       PROVE  /\ Of(e)' \subseteq DOMAIN packages'
              /\ Of(e)' = Of(e) \/ Of(e)' = Of(e) \cup {Len(packages) + 1}
  BY <1>1, <1>8, <1>9, Zenon DEF Of
<1>15. HasLast(Mods) /\ \A e \in Devices : HasLast(Of(e))
  BY Zenon DEF Lasts
<1>16. HasLast(Mods')
  BY <1>12, <1>13, <1>15, Zenon
<1>17. \A e \in Devices : HasLast(Of(e)')
  BY <1>12, <1>14, <1>15, Zenon
<1>18. Lasts'
  BY <1>16, <1>17, Zenon DEF Lasts, HasLast
<1> QED BY <1>6, <1>8, <1>9, <1>10, <1>18, Zenon

-----------------------------------------------------------------------------
(* Every action keeps the types.                                            *)

\* The server deletes what the client has persisted.
LEMMA PersistedUpdatesType ==
  ASSUME TInv, NEW d \in Devices, PersistedUpdates(d)
  PROVE  TInv'
<1> USE DEF TInv
<1>1. Files'
  BY Zenon DEF Files, Stored, PersistedUpdates, deviceVars, handlerVars, history
<1>2. Guids'
  BY Zenon DEF Guids, PersistedUpdates, deviceVars, serverVars
<1>3. Updates'
  BY Zenon DEF Updates, PersistedUpdates, serverVars
<1>4. Places'
  BY NoneAssumption DEF Places, Updates, Local, Remote, Either, Uploading,
     PersistedUpdates, deviceVars, handlerVars, serverVars
<1>5. Lasts'
  BY Zenon DEF Lasts, Mods, Of, PersistedUpdates, serverVars
<1> QED BY <1>1, <1>2, <1>3, <1>4, <1>5, Zenon

\* Run takes an update.
LEMMA FirstRemoteType ==
  ASSUME TInv, NEW d \in Devices, FirstRemote(d)
  PROVE  TInv'
<1> USE DEF TInv
<1>1. Files'
  BY Zenon DEF Files, Stored, FirstRemote, deviceVars, history
<1>2. Guids'
  BY Zenon DEF Guids, FirstRemote, deviceVars, serverVars
<1>3. Updates'
  BY Zenon DEF Updates, FirstRemote, queueVars, serverVars
<1>4. Places'
  BY NoneAssumption DEF Places, Updates, Local, Remote, Either, Uploading,
     FirstRemote, Goto, deviceVars, queueVars, serverVars
<1>5. Lasts'
  BY Zenon DEF Lasts, Mods, Of, FirstRemote, serverVars
<1> QED BY <1>1, <1>2, <1>3, <1>4, <1>5

\* What HandleRemoteAddAction downloads has a GUID the server gave out.
LEMMA RemoteAddType ==
  ASSUME TInv, NEW d \in Devices, RemoteAdd(d)
  PROVE  TInv'
<1> USE DEF TInv
<1>0. PICK n \in DOMAIN packages :
        /\ Download(key[d][1]) = packages[n] /\ packages[n] \in Package
        /\ packages[n].guid \in 1 .. rel_paths /\ packages[n].content \in Stored
  <2>1. key[d] \in (DOMAIN packages) \X Nat
    BY Zenon DEF RemoteAdd, Goto, Places, Remote
  <2>2. PICK n \in DOMAIN packages : Download(key[d][1]) = packages[n]
    BY <2>1, DownloadType, Zenon
  <2>3. packages[n] \in Package
    BY DEF Updates
  <2>4. packages[n].guid <= rel_paths /\ rel_paths \in Nat
    BY Zenon DEF Guids
  <2> QED BY <2>2, <2>3, <2>4 DEF Package
<1>1. Files'
  BY <1>0, Zenon DEF Files, RemoteAdd, headVars, history
<1>2. Guids'
  BY <1>0 DEF Guids, RemoteAdd, serverVars
<1>3. Updates'
  BY Zenon DEF Updates, RemoteAdd, queueVars, serverVars
<1>4. Places'
  BY NoneAssumption DEF Places, Updates, Local, Remote, Either, Uploading,
     RemoteAdd, Goto, queueVars, serverVars
<1>5. Lasts'
  BY Zenon DEF Lasts, Mods, Of, RemoteAdd, serverVars
<1> QED BY <1>1, <1>2, <1>3, <1>4, <1>5, Zenon

\* What HandleRemoteModAction makes of the file can be written.
LEMMA RemoteModType ==
  ASSUME TInv, NEW d \in Devices, RemoteMod(d)
  PROVE  TInv'
<1> USE DEF TInv
<1>0. Apply(Read(d), Download(key[d][1])) \in Stored
  <2>1. key[d] \in (DOMAIN packages) \X Nat
    BY Zenon DEF RemoteMod, Goto, Places, Remote
  <2>2. PICK n \in DOMAIN packages : Download(key[d][1]) = packages[n]
    BY <2>1, DownloadType
  <2>3. packages[n].content \in Stored
    BY PackageFields, Zenon
  <2>4. Empty \in Stored
    BY Zenon DEF Stored
  <2> QED BY <2>2, <2>3, <2>4, Zenon DEF Apply
<1>1. Files'
  BY <1>0, Zenon DEF Files, RemoteMod, deviceVars, history
<1>2. Guids'
  BY Zenon DEF Guids, RemoteMod, deviceVars, serverVars
<1>3. Updates'
  BY Zenon DEF Updates, RemoteMod, queueVars, serverVars
<1>4. Places'
  BY NoneAssumption DEF Places, Updates, Local, Remote, Either, Uploading,
     RemoteMod, Goto, deviceVars, queueVars, serverVars
<1>5. Lasts'
  BY Zenon DEF Lasts, Mods, Of, RemoteMod, serverVars
<1> QED BY <1>1, <1>2, <1>3, <1>4, <1>5

\* The write and the events it causes.
LEMMA WriteFileType ==
  ASSUME TInv, NEW d \in Devices, WriteFile(d)
  PROVE  TInv'
<1> USE DEF TInv
<1>0. /\ \A r \in Written(d) : r \in Seq(Actions) /\ (events[d] # <<>> => r # <<>>)
      /\ Ignored(d) \in {"Add", "Modified"}
  <2>1. events[d] \in Seq(Actions) /\ 0 <= Len(events[d])
    BY DEF Files
  <2>2. ASSUME NEW r \in Written(d)
        PROVE  r \in Seq(Actions) /\ (events[d] # <<>> => r # <<>>)
    <3>1. 0 \in 0 .. 1
      OBVIOUS
    <3> QED BY <2>1, <3>1, EventsOfWrite, Zenon
  <2> QED BY <2>2, Zenon DEF Ignored
<1>1. Files'
  BY <1>0, Zenon DEF Files, WriteFile, headVars
<1>2. Guids'
  BY Zenon DEF Guids, WriteFile, mapVars, serverVars
<1>3. Updates'
  BY Zenon DEF Updates, WriteFile, queueVars, serverVars
<1>4. Places'
  BY <1>0 DEF Files, Places, Local, Remote, Either, Uploading, WriteFile, Goto,
     mapVars, headVars, serverVars
<1>5. Lasts'
  BY Zenon DEF Lasts, Mods, Of, WriteFile, serverVars
<1> QED BY <1>1, <1>2, <1>3, <1>4, <1>5

\* Run deletes the update.
LEMMA DeleteRemoteType ==
  ASSUME TInv, NEW d \in Devices, DeleteRemote(d)
  PROVE  TInv'
<1> USE DEF TInv
<1>1. Files'
  BY Zenon DEF Files, Stored, DeleteRemote, deviceVars, history
<1>2. Guids'
  BY Zenon DEF Guids, DeleteRemote, deviceVars, serverVars
<1>3. Updates'
  BY Zenon DEF Updates, DeleteRemote, serverVars
<1>4. Places'
  BY NoneAssumption DEF Places, Updates, Local, Remote, Either, Uploading,
     DeleteRemote, Goto, deviceVars, serverVars
<1>5. Lasts'
  BY Zenon DEF Lasts, Mods, Of, DeleteRemote, serverVars
<1> QED BY <1>1, <1>2, <1>3, <1>4, <1>5

\* Run takes an event.
LEMMA FirstLocalType ==
  ASSUME TInv, NEW d \in Devices, FirstLocal(d)
  PROVE  TInv'
<1> USE DEF TInv
<1>1. Files'
  BY Zenon DEF Files, Stored, FirstLocal, headVars, history
<1>2. Guids'
  BY Zenon DEF Guids, FirstLocal, mapVars, serverVars
<1>3. Updates'
  BY Zenon DEF Updates, FirstLocal, queueVars, serverVars
<1>4. Places'
  BY NoneAssumption DEF Places, Updates, Local, Remote, Either, Uploading,
     FirstLocal, Goto, mapVars, queueVars, serverVars
<1>5. Lasts'
  BY Zenon DEF Lasts, Mods, Of, FirstLocal, serverVars
<1> QED BY <1>1, <1>2, <1>3, <1>4, <1>5

\* A new GUID.
LEMMA RegisterType ==
  ASSUME TInv, NEW d \in Devices, Register(d)
  PROVE  TInv'
<1> USE DEF TInv
<1>0. rel_paths \in Nat /\ rel_paths' = rel_paths + 1
  BY Zenon DEF Guids, Register
<1>a. \A n \in DOMAIN packages : packages[n].guid \in Nat
  BY PackageFields, Zenon
<1>1. Files'
  BY Zenon DEF Files, Stored, Register, headVars, history
<1>2. Guids'
  <2>1. /\ 1 .. rel_paths \subseteq 1 .. rel_paths + 1
        /\ 0 .. rel_paths \subseteq 0 .. rel_paths + 1
        /\ rel_paths' \in 1 .. rel_paths + 1 /\ rel_paths' \in 0 .. rel_paths + 1
    BY <1>0
  <2>2. /\ relpath_id_location' \in [Devices -> SUBSET (1 .. rel_paths + 1)]
        /\ location_relpath_id' \in [Devices -> 0 .. rel_paths + 1]
    BY <2>1, Zenon DEF Guids, Register
  <2>3. packages' = packages
    BY Zenon DEF Register
  <2>4. \A n \in DOMAIN packages : packages[n].guid <= rel_paths + 1
    BY <1>0, <1>a DEF Guids
  <2> QED BY <1>0, <2>2, <2>3, <2>4 DEF Guids
<1>3. Updates'
  BY Zenon DEF Updates, Register, queueVars
<1>4. Places'
  BY <1>0 DEF Places, Guids, Local, Remote, Either, Uploading, Register, Goto
<1>5. Lasts'
  BY Zenon DEF Lasts, Mods, Of, Register
<1> QED BY <1>1, <1>2, <1>3, <1>4, <1>5

\* The handler reads the file.
LEMMA ReadFileType ==
  ASSUME TInv, NEW d \in Devices, ReadFile(d)
  PROVE  TInv'
<1> USE DEF TInv
<1>1. Files'
  BY Zenon DEF Files, Stored, ReadFile, Read, deviceVars
<1>2. Guids'
  BY Zenon DEF Guids, ReadFile, deviceVars, serverVars
<1>3. Updates'
  BY Zenon DEF Updates, ReadFile, queueVars, serverVars
<1>4. Places'
  BY NoneAssumption DEF Places, Updates, Local, Remote, Either, Uploading,
     ReadFile, Goto, deviceVars, queueVars, serverVars
<1>5. Lasts'
  BY Zenon DEF Lasts, Mods, Of, ReadFile, serverVars
<1> QED BY <1>1, <1>2, <1>3, <1>4, <1>5

\* One more package on the server.
LEMMA UploadPackageType ==
  ASSUME TInv, NEW d \in Devices, UploadPackage(d)
  PROVE  TInv'
<1> USE DEF TInv
<1>0. PICK pkg :
        /\ Upload(d, pkg) /\ pkg.guid = location_relpath_id[d]
        /\ pkg.kind \in {"add", "mod"} /\ pkg.type \in {"SNAPSHOT", "DELTA"}
        /\ pkg.base \in Stored /\ pkg.content \in Stored /\ pkg.guid \in Nat \ {0}
        /\ pkg.guid <= rel_paths
  <2>1. /\ location_relpath_id[d] \in Nat \ {0}
        /\ location_relpath_id[d] <= rel_paths
        /\ hpc[d] \in Uploading
    BY DEF UploadPackage, Places, Guids, Uploading
  <2>2. head_file[d] \in Stored /\ current[d] \in Stored /\ Empty \in Stored
    BY Zenon DEF Files, Stored
  <2>3. CASE hpc[d] = "upload_add"
    <3>1. PICK pkg : /\ Upload(d, pkg)
                     /\ pkg = [kind |-> "add", type |-> "SNAPSHOT", base |-> Empty,
                               content |-> current[d], guid |-> location_relpath_id[d]]
      BY <2>3, Zenon DEF UploadPackage
    <3> QED BY <2>1, <2>2, <3>1
  <2>4. CASE hpc[d] = "upload_mod"
    <3>1. PICK type \in {"SNAPSHOT", "DELTA"} :
            Upload(d, [kind |-> "mod", type |-> type,
                       base |-> IF type = "DELTA" THEN head_file[d] ELSE Empty,
                       content |-> current[d], guid |-> location_relpath_id[d]])
      BY <2>4, Zenon DEF UploadPackage
    <3>2. PICK pkg :
            pkg = [kind |-> "mod", type |-> type,
                   base |-> IF type = "DELTA" THEN head_file[d] ELSE Empty,
                   content |-> current[d], guid |-> location_relpath_id[d]]
      BY Zenon
    <3>3. /\ Upload(d, pkg) /\ pkg.guid = location_relpath_id[d]
          /\ pkg.kind = "mod" /\ pkg.type \in {"SNAPSHOT", "DELTA"}
          /\ pkg.base \in Stored /\ pkg.content \in Stored
      BY <2>2, <3>1, <3>2, Zenon
    <3> QED BY <2>1, <3>3, Zenon
  <2> QED BY <2>3, <2>4, Zenon DEF UploadPackage
<1>a. /\ packages' \in Seq(Package)
      /\ DOMAIN packages \subseteq DOMAIN packages'
      /\ \A n \in DOMAIN packages : packages'[n] = packages[n]
      /\ DOMAIN packages' = DOMAIN packages \cup {Len(packages) + 1}
      /\ packages'[Len(packages) + 1].device = d
      /\ packages'[Len(packages) + 1].guid = pkg.guid
      /\ device_sync' \in [Devices -> SUBSET (DOMAIN packages')]
      /\ Lasts'
  BY <1>0, UploadType, Zenon
<1>1. Files'
  BY Zenon DEF Files, Stored, UploadPackage, deviceVars, history
<1>2. Guids'
  <2>1. /\ rel_paths' = rel_paths /\ relpath_id_location' = relpath_id_location
        /\ location_relpath_id' = location_relpath_id
    BY Zenon DEF UploadPackage, deviceVars
  <2>2. \A n \in DOMAIN packages' : packages'[n].guid <= rel_paths
    BY <1>0, <1>a, Zenon DEF Guids
  <2> QED BY <2>1, <2>2, Zenon DEF Guids
<1>3. Updates'
  BY <1>a DEF Updates, UploadPackage
<1>4. Places'
  <2>1. hpc' \in [Devices -> Local \cup Remote \cup Either \cup {"first", "ended"}]
    BY DEF Places, Local, Remote, Either, Uploading, UploadPackage, Goto
  <2>2. key' \in [Devices -> ((DOMAIN packages') \X Nat) \cup {None}]
    BY <1>a, Zenon DEF Places, UploadPackage
  <2>3. ASSUME NEW e \in Devices
        PROVE  /\ hpc'[e] \in Local \cup {"first", "ended"} => key'[e] = None
               /\ hpc'[e] \in Remote => key'[e] # None
               /\ hpc'[e] \in Local \cup Either /\ key'[e] = None => events'[e] # <<>>
               /\ hpc'[e] \in Uploading => location_relpath_id'[e] # 0
    BY DEF Places, Local, Remote, Either, Uploading, UploadPackage, Goto,
       deviceVars
  <2>4. ASSUME NEW e \in Devices, hpc'[e] = "repeat"
        PROVE  \E n \in DOMAIN packages' : packages'[n].device = e
    <3>1. CASE e = d
      BY <1>a, <3>1, Zenon
    <3>2. CASE e # d
      <4>1. hpc[e] = "repeat"
        BY <2>4, <3>2, Zenon DEF Places, UploadPackage, Goto
      <4>2. PICK n \in DOMAIN packages : packages[n].device = e
        BY <4>1, Zenon DEF Places
      <4> QED BY <1>a, <4>2, Zenon
    <3> QED BY <3>1, <3>2, Zenon
  <2>5. \A e \in Devices :
          /\ hpc'[e] \in Local \cup {"first", "ended"} => key'[e] = None
          /\ hpc'[e] \in Remote => key'[e] # None
          /\ hpc'[e] \in Local \cup Either /\ key'[e] = None => events'[e] # <<>>
          /\ hpc'[e] \in Uploading => location_relpath_id'[e] # 0
          /\ hpc'[e] = "repeat" => \E n \in DOMAIN packages' : packages'[n].device = e
    BY <2>3, <2>4, Zenon
  <2> QED BY <2>1, <2>2, <2>5, Zenon DEF Places
<1>5. Lasts'
  BY <1>a, Zenon
<1> QED BY <1>1, <1>2, <1>3, <1>4, <1>5

\* The last package of the device once more.
LEMMA RepeatUploadType ==
  ASSUME TInv, NEW d \in Devices, RepeatUpload(d)
  PROVE  TInv'
<1> USE DEF TInv
<1>0. PICK pkg \in Package : Upload(d, pkg) /\ pkg.guid <= rel_paths
  <2>1. packages \in Seq(Package)
    BY Zenon DEF Updates
  <2>2. Of(d) # {}
    BY Zenon DEF RepeatUpload, Goto, Places, Of
  <2>3. Max(Of(d)) \in Of(d)
    BY <2>2, LastOne, Zenon DEF Lasts
  <2>4. packages[Max(Of(d))] \in Package /\ packages[Max(Of(d))].guid <= rel_paths
    BY <2>1, <2>3 DEF Guids, Of
  <2> QED BY <2>4, Zenon DEF RepeatUpload, Of
<1>b. /\ pkg.kind \in {"add", "mod"} /\ pkg.type \in {"SNAPSHOT", "DELTA"}
      /\ pkg.base \in Stored /\ pkg.content \in Stored /\ pkg.guid \in Nat \ {0}
  BY <1>0, Zenon DEF Package
<1>a. /\ packages' \in Seq(Package)
      /\ DOMAIN packages \subseteq DOMAIN packages'
      /\ \A n \in DOMAIN packages : packages'[n] = packages[n]
      /\ DOMAIN packages' = DOMAIN packages \cup {Len(packages) + 1}
      /\ packages'[Len(packages) + 1].device = d
      /\ packages'[Len(packages) + 1].guid = pkg.guid
      /\ device_sync' \in [Devices -> SUBSET (DOMAIN packages')]
      /\ Lasts'
  BY <1>0, <1>b, UploadType, Zenon
<1>1. Files'
  BY Zenon DEF Files, Stored, RepeatUpload, deviceVars, history
<1>2. Guids'
  <2>1. /\ rel_paths' = rel_paths /\ relpath_id_location' = relpath_id_location
        /\ location_relpath_id' = location_relpath_id
    BY Zenon DEF RepeatUpload, deviceVars
  <2>2. \A n \in DOMAIN packages' : packages'[n].guid <= rel_paths
    BY <1>0, <1>a, Zenon DEF Guids
  <2> QED BY <2>1, <2>2, Zenon DEF Guids
<1>3. Updates'
  BY <1>a DEF Updates, RepeatUpload
<1>4. Places'
  <2>1. hpc' \in [Devices -> Local \cup Remote \cup Either \cup {"first", "ended"}]
    BY Zenon DEF Places, Local, Remote, Either, Uploading, RepeatUpload, Goto
  <2>2. key' \in [Devices -> ((DOMAIN packages') \X Nat) \cup {None}]
    BY <1>a, Zenon DEF Places, RepeatUpload
  <2>3. ASSUME NEW e \in Devices
        PROVE  /\ hpc'[e] \in Local \cup {"first", "ended"} => key'[e] = None
               /\ hpc'[e] \in Remote => key'[e] # None
               /\ hpc'[e] \in Local \cup Either /\ key'[e] = None => events'[e] # <<>>
               /\ hpc'[e] \in Uploading => location_relpath_id'[e] # 0
    BY Zenon DEF Places, Local, Remote, Either, Uploading, RepeatUpload, Goto,
       deviceVars
  <2>4. ASSUME NEW e \in Devices, hpc'[e] = "repeat"
        PROVE  \E n \in DOMAIN packages' : packages'[n].device = e
    <3>1. CASE e = d
      BY <1>a, <3>1, Zenon
    <3>2. CASE e # d
      <4>1. hpc[e] = "repeat"
        BY <2>4, <3>2, Zenon DEF Places, RepeatUpload, Goto
      <4>2. PICK n \in DOMAIN packages : packages[n].device = e
        BY <4>1, Zenon DEF Places
      <4> QED BY <1>a, <4>2, Zenon
    <3> QED BY <3>1, <3>2, Zenon
  <2>5. \A e \in Devices :
          /\ hpc'[e] \in Local \cup {"first", "ended"} => key'[e] = None
          /\ hpc'[e] \in Remote => key'[e] # None
          /\ hpc'[e] \in Local \cup Either /\ key'[e] = None => events'[e] # <<>>
          /\ hpc'[e] \in Uploading => location_relpath_id'[e] # 0
          /\ hpc'[e] = "repeat" => \E n \in DOMAIN packages' : packages'[n].device = e
    BY <2>3, <2>4, Zenon
  <2> QED BY <2>1, <2>2, <2>5, Zenon DEF Places
<1>5. Lasts'
  BY <1>a, Zenon
<1> QED BY <1>1, <1>2, <1>3, <1>4, <1>5, Zenon

\* RELPATHS_HEAD_FILE.
LEMMA StoreHeadFileType ==
  ASSUME TInv, NEW d \in Devices, StoreHeadFile(d)
  PROVE  TInv'
<1> USE DEF TInv
<1>1. Files'
  BY Zenon DEF Files, Stored, StoreHeadFile, history
<1>2. Guids'
  BY Zenon DEF Guids, StoreHeadFile, mapVars, serverVars
<1>3. Updates'
  BY Zenon DEF Updates, StoreHeadFile, queueVars, serverVars
<1>4. Places'
  BY NoneAssumption DEF Places, Updates, Local, Remote, Either, Uploading,
     StoreHeadFile, Goto, mapVars, queueVars, serverVars
<1>5. Lasts'
  BY Zenon DEF Lasts, Mods, Of, StoreHeadFile, serverVars
<1> QED BY <1>1, <1>2, <1>3, <1>4, <1>5

\* RELPATHS_HEAD_FILE_HASH.
LEMMA StoreHeadFileHashType ==
  ASSUME TInv, NEW d \in Devices, StoreHeadFileHash(d)
  PROVE  TInv'
<1> USE DEF TInv
<1>1. Files'
  BY Zenon DEF Files, Stored, StoreHeadFileHash, history
<1>2. Guids'
  BY Zenon DEF Guids, StoreHeadFileHash, mapVars, serverVars
<1>3. Updates'
  BY Zenon DEF Updates, StoreHeadFileHash, queueVars, serverVars
<1>4. Places'
  BY NoneAssumption DEF Places, Updates, Local, Remote, Either, Uploading,
     StoreHeadFileHash, Goto, mapVars, queueVars, serverVars
<1>5. Lasts'
  BY Zenon DEF Lasts, Mods, Of, StoreHeadFileHash, serverVars
<1> QED BY <1>1, <1>2, <1>3, <1>4, <1>5

\* Run deletes the event.
LEMMA DeleteLocalType ==
  ASSUME TInv, NEW d \in Devices, DeleteLocal(d)
  PROVE  TInv'
<1> USE DEF TInv
<1>0. Tail(events[d]) \in Seq(Actions) /\ Empty \in Stored
  BY DEF Files, Places, Local, DeleteLocal, Goto, Stored
<1>1. Files'
  BY <1>0, Zenon DEF Files, DeleteLocal, headVars, history
<1>2. Guids'
  BY Zenon DEF Guids, DeleteLocal, mapVars, serverVars
<1>3. Updates'
  BY Zenon DEF Updates, DeleteLocal, queueVars, serverVars
<1>4. Places'
  BY NoneAssumption DEF Places, Updates, Local, Remote, Either, Uploading,
     DeleteLocal, Goto, mapVars, queueVars, serverVars
<1>5. Lasts'
  BY Zenon DEF Lasts, Mods, Of, DeleteLocal, serverVars
<1> QED BY <1>1, <1>2, <1>3, <1>4, <1>5

\* The directory is listed.
LEMMA StartType ==
  ASSUME TInv, NEW d \in Devices, Start(d)
  PROVE  TInv'
<1> USE DEF TInv
<1>0. \A r \in Queued(events[d], "Add", Apart) :
        r \in Seq(Actions) /\ (events[d] # <<>> => r # <<>>)
  <2>1. events[d] \in Seq(Actions) /\ "Add" \in Actions /\ Apart \in BOOLEAN
    BY SyncAssumption, Zenon DEF Files, Actions
  <2> QED BY <2>1, QueuedForms, Zenon
<1>1. Files'
  BY <1>0, Zenon DEF Files, Start, headVars
<1>2. Guids'
  BY Zenon DEF Guids, Start, mapVars, serverVars
<1>3. Updates'
  BY Zenon DEF Updates, Start, serverVars
<1>4. Places'
  BY NoneAssumption DEF Places, Updates, Local, Remote, Either, Uploading,
     Start, Goto, mapVars, serverVars
<1>5. Lasts'
  BY Zenon DEF Lasts, Mods, Of, Start, serverVars
<1> QED BY <1>1, <1>2, <1>3, <1>4, <1>5

\* The process ends.
LEMMA EndType ==
  ASSUME TInv, NEW d \in Devices, End(d)
  PROVE  TInv'
<1> USE DEF TInv
<1>0. /\ \A n \in 0 .. Len(events[d]) : SubSeq(events[d], 1, n) \in Seq(Actions)
      /\ Empty \in Stored
  BY DEF Files, Stored
<1>1. Files'
  BY <1>0, Zenon DEF Files, End, headVars
<1>2. Guids'
  BY Zenon DEF Guids, End, mapVars, serverVars
<1>3. Updates'
  BY Zenon DEF Updates, End, queueVars, serverVars
<1>4. Places'
  BY NoneAssumption DEF Places, Updates, Local, Remote, Either, Uploading, End,
     mapVars, queueVars, serverVars
<1>5. Lasts'
  BY Zenon DEF Lasts, Mods, Of, End, serverVars
<1> QED BY <1>1, <1>2, <1>3, <1>4, <1>5

\* UpdateFromServer appends a copy of an update.
LEMMA PersistType ==
  ASSUME TInv, NEW d \in Devices, NEW n \in DOMAIN packages, Persist(d, n)
  PROVE  TInv'
<1> USE DEF TInv
<1>1. Files'
  BY Zenon DEF Files, Persist, deviceVars, handlerVars, history
<1>2. Guids'
  BY Zenon DEF Guids, Persist, deviceVars, serverVars
<1>3. Updates'
  BY DEF Updates, Persist, serverVars
<1>4. Places'
  BY Zenon DEF Places, Persist, deviceVars, handlerVars, serverVars
<1>5. Lasts'
  BY Zenon DEF Lasts, Mods, Of, Persist, serverVars
<1> QED BY <1>1, <1>2, <1>3, <1>4, <1>5, Zenon

\* The events of a change by the user; those that are more than before gain when
\* the file is there afterwards.
LEMMA EventsOfChange ==
  ASSUME NEW d \in Devices, events[d] \in Seq(Actions), NEW c, NEW moved \in BOOLEAN,
         NEW r \in Reported(d, c, moved), NEW k \in 0 .. 1, k <= Len(events[d])
  PROVE  /\ r \in Seq(Actions) /\ (events[d] # <<>> => r # <<>>)
         /\ Len(r) > Len(events[d]) =>
              /\ \A b \in {"Add", "Modified"} : Has(events[d], k, b) => Has(r, k, b)
              /\ c # NoFile => Gains(events[d], r, k)
<1> DEFINE q == events[d]
<1>0. /\ {"Add", "Modified", "Delete"} \subseteq Actions
      /\ Apart \in BOOLEAN /\ Len(q) \in Nat
  BY SyncAssumption DEF Actions
<1>1. ASSUME NEW a \in {"Add", "Delete"}, r \in Queued(q, a, Apart)
      PROVE  /\ r \in Seq(Actions) /\ (q # <<>> => r # <<>>)
             /\ Len(r) > Len(q) => r = Append(q, a)
  BY <1>0, <1>1, QueuedForms
<1>2. CASE c = NoFile
  <2>1. r \in Queued(q, "Delete", Apart)
    BY <1>2, Zenon DEF Reported
  <2>2. \A b \in Actions : Has(q, k, b) => Has(Append(q, "Delete"), k, b)
    BY <1>0, OneMore, Zenon
  <2> QED BY <1>0, <1>1, <1>2, <2>1, <2>2, Zenon
<1>3. CASE c # NoFile /\ moved
  <2>1. r \in Queued(q, "Add", Apart)
    BY <1>3, Zenon DEF Reported
  <2>2. Gains(q, Append(q, "Add"), k)
    BY AppendGains, Zenon
  <2>3. \A b \in {"Add", "Modified"} : Has(q, k, b) => Has(Append(q, "Add"), k, b)
    BY <2>2, Zenon DEF Gains
  <2> QED BY <1>1, <2>1, <2>2, <2>3, Zenon
<1>4. CASE c # NoFile /\ ~moved
  <2>1. r \in Written(d)
    BY <1>4, Zenon DEF Reported
  <2>2. /\ r \in Seq(Actions) /\ (q # <<>> => r # <<>>)
        /\ Len(r) > Len(q) => Gains(q, r, k)
    BY <2>1, EventsOfWrite, Zenon
  <2>3. Gains(q, r, k) => \A b \in {"Add", "Modified"} : Has(q, k, b) => Has(r, k, b)
    BY Zenon DEF Gains
  <2> QED BY <2>2, <2>3, Zenon
<1> QED BY <1>2, <1>3, <1>4, Zenon

LEMMA ChangeType ==
  ASSUME TInv, NEW d \in Devices, NEW c \in Contents \cup {NoFile},
         NEW moved \in BOOLEAN, Change(d, c, moved)
  PROVE  TInv'
<1> USE DEF TInv
<1>0. \A r \in Reported(d, c, moved) :
        r \in Seq(Actions) /\ (events[d] # <<>> => r # <<>>)
  <2>1. events[d] \in Seq(Actions) /\ 0 <= Len(events[d]) /\ 0 \in 0 .. 1
    BY DEF Files
  <2> QED BY <2>1, EventsOfChange, Zenon
<1>1. Files'
  BY <1>0 DEF Files, Stored, Change, headVars, handlerVars
<1>2. Guids'
  BY Zenon DEF Guids, Change, mapVars, serverVars
<1>3. Updates'
  BY Zenon DEF Updates, Change, queueVars, serverVars
<1>4. Places'
  BY <1>0, Zenon DEF Files, Places, Change, mapVars, handlerVars, serverVars
<1>5. Lasts'
  BY Zenon DEF Lasts, Mods, Of, Change, serverVars
<1> QED BY <1>1, <1>2, <1>3, <1>4, <1>5, Zenon

LEMMA TypeStep == TInv /\ [Next]_vars => TInv'
<1> SUFFICES ASSUME TInv, [Next]_vars PROVE TInv'
  BY Zenon
<1>1. CASE UNCHANGED vars
  <2>1. UNCHANGED <<deviceVars, queueVars, handlerVars, serverVars, history>>
    BY <1>1, Zenon DEF vars
  <2>2. Files' /\ Guids'
    BY <2>1, Zenon DEF TInv, Files, Guids, deviceVars, handlerVars, serverVars, history
  <2>3. Updates' /\ Lasts'
    BY <2>1, Zenon DEF TInv, Updates, Lasts, Mods, Of, queueVars, serverVars
  <2>4. Places'
    BY <2>1, Zenon DEF TInv, Places, deviceVars, handlerVars, serverVars
  <2> QED BY <2>2, <2>3, <2>4, Zenon DEF TInv
<1>2. CASE Next
  <2>1. PICK d \in Devices :
          \/ PollerStep(d) \/ HandlerStep(d) \/ Crash(d) \/ Start(d)
          \/ \E c \in Contents \cup {NoFile}, moved \in BOOLEAN : Change(d, c, moved)
    BY <1>2, Zenon DEF Next
  <2>2. CASE PollerStep(d)
    BY <2>2, PersistedUpdatesType, PersistType, Zenon DEF PollerStep
  <2>3. CASE HandlerStep(d)
    <3>1. RemoteAddCheckFails(d) \/ WriteCheckFails(d) => End(d)
      BY Zenon DEF RemoteAddCheckFails, WriteCheckFails
    <3> QED BY <2>3, <3>1, FirstRemoteType, RemoteAddType, RemoteModType, WriteFileType,
          DeleteRemoteType, FirstLocalType, RegisterType, ReadFileType,
          UploadPackageType, RepeatUploadType, StoreHeadFileType,
          StoreHeadFileHashType, DeleteLocalType, EndType, Zenon DEF HandlerStep
  <2>4. CASE Crash(d)
    BY <2>4, EndType, Zenon DEF Crash
  <2>5. CASE Start(d)
    BY <2>5, StartType, Zenon
  <2>6. CASE \E c \in Contents \cup {NoFile}, moved \in BOOLEAN : Change(d, c, moved)
    BY <2>6, ChangeType, Zenon
  <2> QED BY <2>1, <2>2, <2>3, <2>4, <2>5, <2>6, Zenon
<1> QED BY <1>1, <1>2, Zenon

LEMMA InitTInv == Init => TInv
<1> SUFFICES ASSUME Init PROVE TInv
  BY Zenon
<1>0. packages = <<>> /\ DOMAIN packages = {} /\ packages \in Seq(Package)
  BY DEF Init
<1>1. Files
  BY DEF Init, Files, Stored
<1>2. Guids
  BY <1>0 DEF Init, Guids
<1>3. Updates
  BY <1>0, Zenon DEF Init, Updates
<1>4. Places
  BY Zenon DEF Init, Places, Local, Remote, Either, Uploading
<1>5. Lasts
  BY <1>0, Zenon DEF Lasts, Mods, Of, HasLast
<1> QED BY <1>1, <1>2, <1>3, <1>4, <1>5, Zenon DEF TInv

LEMMA AlwaysTyped == Spec => []TInv
BY InitTInv, TypeStep, PTL DEF Spec

\* The maps, queues and locals of the handlers keep their types; in particular a
\* package holds what was read of a file and never its absence.
THEOREM TypeCorrect == Spec => []TypeOK
BY AlwaysTyped, TInvTypes, PTL
=============================================================================
