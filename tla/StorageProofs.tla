--------------------------- MODULE StorageProofs ---------------------------
(***************************************************************************)
(* No file that is needed is deleted or written again, and what is in      *)
(* memory is on the disk, for any number of keys, levels, writers, readers,*)
(* writes and ends of the process.                                         *)
(***************************************************************************)
EXTENDS Storage, TLAPS

-----------------------------------------------------------------------------
(* The inductive invariant.                                                *)

IsVersion(v) == /\ DOMAIN v = Levels
                /\ \A l \in Levels : \A f \in v[l] : f.number \in Nat

IsVersionSet(vs) ==
  /\ vs = [current |-> vs.current, log |-> vs.log, next |-> vs.next, last |-> vs.last]
  /\ IsVersion(vs.current)
  /\ vs.log \in Nat /\ vs.next \in Nat

IsMerge(c) ==
  /\ c = [level |-> c.level, in0 |-> c.in0, in1 |-> c.in1, input |-> c.input,
          todo |-> c.todo, outs |-> c.outs]
  /\ c.level \in 0..(MaxLevel - 1)
  /\ IsVersion(c.input)
  /\ \A f \in c.outs : f.number \in Nat

Shape ==
  /\ IsVersionSet(manifest) /\ IsVersionSet(versions) /\ IsVersionSet(edit)
  /\ IsMerge(comp)
  /\ DOMAIN refs = Readers
  /\ \A r \in Readers : refs[r] # NoRef => IsVersion(refs[r].ver)
  /\ DOMAIN logs \subseteq Nat /\ unread \subseteq DOMAIN logs
  /\ mem \in Nat /\ imm \in Nat /\ number \in Nat

\* Where the process and the background thread are, and what the manifest holds.
Flushing == {"build", "log flush", "install flush"}
Logging == {"log flush", "log move", "log merge"}
Installing == {"install flush", "install move", "install merge"}

Phases ==
  /\ up \in {"down", "recover", "open", "opened", "up"}
  /\ bgpc \in {"idle", "scheduled", "merge"} \cup Flushing \cup Logging \cup Installing
  /\ up # "up" => /\ bgpc = "idle" /\ imm = 0 /\ group = NoGroup
                  /\ \A r \in Readers : refs[r] = NoRef
  /\ up # "recover" => unread = {}
  /\ up = "down" => versions = manifest
  /\ up = "opened" => manifest = versions
  /\ up = "up" /\ bgpc \notin Installing =>
       manifest.current = versions.current /\ manifest.log = versions.log
  /\ bgpc \in Installing => manifest = edit
  /\ bgpc \notin Logging \cup Installing => edit = NoEdit
  /\ bgpc \in Logging \cup Installing =>
       edit.log = IF bgpc \in Flushing THEN mem ELSE versions.log

\* File numbers are handed out in order.
Numbering ==
  /\ \A n \in Numbers(manifest.current) : n < manifest.next
  /\ \A n \in Numbers(edit.current) : n < edit.next
  /\ \A n \in Live(versions.current, comp) : n < versions.next
  /\ manifest.next <= versions.next /\ edit.next <= versions.next
  /\ bgpc = "build" => number \notin InUse /\ number < versions.next

\* The memtables and their logs.
Memory ==
  /\ up \in {"open", "opened", "up"} =>
       /\ mem \in DOMAIN logs /\ mem \in DOMAIN memtable
       /\ memtable[mem] \subseteq logs[mem]
       /\ versions.log <= mem /\ mem < versions.next
  /\ imm # 0 =>
       /\ imm \in DOMAIN logs /\ imm \in DOMAIN memtable
       /\ memtable[imm] \subseteq logs[imm]
       /\ versions.log <= imm /\ imm < mem
  /\ group # NoGroup =>
       /\ group = [pc |-> group.pc, n |-> group.n, entries |-> group.entries]
       /\ group.pc = "insert" => group.entries \subseteq logs[mem]
  /\ bgpc \in Flushing => imm # 0
  /\ bgpc \in Flushing /\ bgpc # "build" =>
       /\ number \in DOMAIN tables /\ tables[number] = memtable[imm]
       /\ number \in Numbers(edit.current)

IInv == Shape /\ Phases /\ Numbering /\ Memory /\ FilesExist

-----------------------------------------------------------------------------
(* Versions.                                                               *)

\* NoVersion names no file.
LEMMA NoVersionIsEmpty ==
  IsVersion(NoVersion) /\ Numbers(NoVersion) = {}
BY Zenon DEF IsVersion, NoVersion, Numbers

\* No edit and no merge name no file.
LEMMA NothingIsNothing ==
  /\ IsVersionSet(NoEdit) /\ Numbers(NoEdit.current) = {} /\ NoEdit.next = 0
  /\ IsMerge(NoMerge) /\ Numbers(NoMerge.input) = {} /\ NoMerge.outs = {}
<1>1. 0 \in 0..(MaxLevel - 1)
  BY StorageAssumption
<1> QED BY <1>1, NoVersionIsEmpty, Zenon DEF IsVersionSet, IsMerge, NoEdit, NoMerge

\* A file added to a level is one more file of the version.
LEMMA AddToLevel ==
  ASSUME NEW v, NEW l \in Levels, NEW S, IsVersion(v), \A f \in S : f.number \in Nat
  PROVE  LET w == [v EXCEPT ![l] = @ \cup S] IN
         IsVersion(w) /\ Numbers(w) = Numbers(v) \cup {f.number : f \in S}
<1> DEFINE w == [v EXCEPT ![l] = @ \cup S]
<1>1. DOMAIN w = Levels /\ w[l] = v[l] \cup S
      /\ \A k \in Levels : k # l => w[k] = v[k]
  BY Zenon DEF IsVersion
<1>2. IsVersion(w)
  BY <1>1, Zenon DEF IsVersion
<1>3. Numbers(w) = Numbers(v) \cup {f.number : f \in S}
  BY <1>1 DEF Numbers
<1> QED BY <1>2, <1>3, Zenon

\* Two levels that only exchange files of the version and new files.
LEMMA ChangeTwoLevels ==
  ASSUME NEW v, NEW l \in 0..(MaxLevel - 1), NEW A, NEW B, NEW S, IsVersion(v),
         \A f \in S : f.number \in Nat
  PROVE  LET w == [v EXCEPT ![l] = @ \ A, ![l + 1] = (@ \ B) \cup S] IN
         IsVersion(w) /\ Numbers(w) \subseteq Numbers(v) \cup {f.number : f \in S}
<1> DEFINE w == [v EXCEPT ![l] = @ \ A, ![l + 1] = (@ \ B) \cup S]
<1>0. l \in Levels /\ l + 1 \in Levels /\ l # l + 1
  BY StorageAssumption DEF Levels
<1>1. DOMAIN w = Levels /\ w[l] = v[l] \ A /\ w[l + 1] = (v[l + 1] \ B) \cup S
      /\ \A k \in Levels : k # l /\ k # l + 1 => w[k] = v[k]
  BY <1>0, Zenon DEF IsVersion
<1>2. IsVersion(w)
  BY <1>0, <1>1, Zenon DEF IsVersion
<1>3. Numbers(w) \subseteq Numbers(v) \cup {f.number : f \in S}
  BY <1>0, <1>1 DEF Numbers
<1> QED BY <1>2, <1>3, Zenon

\* The numbers of a version are naturals.
LEMMA NumbersAreNaturals ==
  ASSUME NEW v, IsVersion(v)
  PROVE  Numbers(v) \subseteq Nat
BY DEF IsVersion, Numbers

\* A file that moves one level down.
LEMMA MoveDown ==
  ASSUME NEW v, NEW l \in 0..(MaxLevel - 1), NEW S, S \subseteq v[l], IsVersion(v)
  PROVE  LET w == [v EXCEPT ![l] = @ \ S, ![l + 1] = @ \cup S] IN
         IsVersion(w) /\ Numbers(w) \subseteq Numbers(v)
<1> DEFINE w == [v EXCEPT ![l] = @ \ S, ![l + 1] = @ \cup S]
<1>0. l \in Levels /\ l + 1 \in Levels /\ l # l + 1
  BY StorageAssumption DEF Levels
<1>1. DOMAIN w = Levels /\ w[l] = v[l] \ S /\ w[l + 1] = v[l + 1] \cup S
      /\ \A k \in Levels : k # l /\ k # l + 1 => w[k] = v[k]
  BY <1>0, Zenon DEF IsVersion
<1>2. IsVersion(w)
  BY <1>0, <1>1, Zenon DEF IsVersion
<1>3. Numbers(w) \subseteq Numbers(v)
  BY <1>0, <1>1 DEF Numbers
<1> QED BY <1>2, <1>3, Zenon

\* What a compaction takes from its level are files of the level.
LEMMA InputsAreFiles ==
  ASSUME NEW v, NEW l \in 0..(MaxLevel - 1), NEW F, F \subseteq v[l],
         NEW in \in Inputs(v, l, F)
  PROVE  in[1] \subseteq v[l]
<1>1. \A lo, hi : GetOverlappingInputs(v, l, lo, hi) \subseteq v[l]
  BY DEF GetOverlappingInputs, Overlapping
<1>2. in[1] = F \/ \E lo, hi : in[1] = GetOverlappingInputs(v, l, lo, hi)
  BY DEF Inputs
<1> QED BY <1>1, <1>2, Zenon

\* The numbers of the files in use are naturals.
LEMMA UseIsNatural == ASSUME Shape PROVE InUse \subseteq Nat
<1>1. /\ Numbers(manifest.current) \subseteq Nat /\ Numbers(edit.current) \subseteq Nat
      /\ Numbers(versions.current) \subseteq Nat /\ Numbers(comp.input) \subseteq Nat
  BY NumbersAreNaturals, Zenon DEF Shape, IsVersionSet, IsMerge
<1>2. \A r \in Readers : refs[r] # NoRef => Numbers(refs[r].ver) \subseteq Nat
  BY NumbersAreNaturals, Zenon DEF Shape
<1> QED BY <1>1, <1>2 DEF InUse, Live, Shape, IsMerge

-----------------------------------------------------------------------------
(* The invariant holds and is kept.                                        *)

\* DB::Open of a new directory finds nothing.
LEMMA InitIInv == Init => IInv
<1> SUFFICES ASSUME Init PROVE IInv
  BY Zenon
<1>1. IsVersion(NoVersion) /\ Numbers(NoVersion) = {}
  BY NoVersionIsEmpty, Zenon
<1>2. 0 \in 0..(MaxLevel - 1)
  BY StorageAssumption
<1>3. Shape
  BY <1>1, <1>2 DEF Init, Shape, IsVersionSet, IsMerge, NoEdit, NoMerge
<1>4. Live(versions.current, comp) = {} /\ InUse = {}
  BY <1>1, Zenon DEF Init, Live, InUse, NoMerge, NoEdit
<1>5. Phases
  BY Zenon DEF Init, Phases, Flushing, Logging, Installing
<1>6. Numbering
  BY <1>1, <1>4 DEF Init, Numbering, NoEdit
<1>7. Memory
  BY Zenon DEF Init, Memory, Flushing
<1>8. FilesExist
  BY <1>4, Zenon DEF FilesExist
<1> QED BY <1>3, <1>5, <1>6, <1>7, <1>8, Zenon DEF IInv

\* Steps of the writers and readers that touch no file: all but the writer's
\* own state, and for the memtables, is as before.
LEMMA FrontSteps ==
  ASSUME IInv,
         \/ \E w \in Writers : Write(w) \/ ReturnDone(w)
         \/ WaitForRoom \/ MakeRoomForWrite \/ FinishWrite
  PROVE  IInv'
<1>1. /\ UNCHANGED <<tables, logs, manifest, up, unread, memtable, mem, imm, refs,
                     bgpc, number, edit, comp>>
      /\ \/ versions' = versions
         \/ group # NoGroup /\ versions' = [versions EXCEPT !.last = @ + group.n]
      /\ \/ group' = group
         \/ group' = NoGroup
         \/ up = "up" /\ group'.pc = "log" /\
            group' = [pc |-> group'.pc, n |-> group'.n, entries |-> group'.entries]
  <2>1. CASE \E w \in Writers : Write(w) \/ ReturnDone(w)
    BY <2>1, Zenon DEF Write, ReturnDone, disk, bg
  <2>2. CASE WaitForRoom
    BY <2>2, Zenon DEF WaitForRoom, disk, bg, front
  <2>3. CASE MakeRoomForWrite
    BY <2>3 DEF MakeRoomForWrite, BuildBatchGroup, Leading, disk, bg
  <2>4. CASE FinishWrite
    BY <2>4, Zenon DEF FinishWrite, disk, bg
  <2> QED BY <2>1, <2>2, <2>3, <2>4, Zenon
<1>2. /\ versions'.current = versions.current /\ versions'.log = versions.log
      /\ versions'.next = versions.next /\ IsVersionSet(versions')
  BY <1>1, Zenon DEF IInv, Shape, IsVersionSet
<1>3. Shape'
  BY <1>1, <1>2, Zenon DEF IInv, Shape
<1>4. Phases'
  BY <1>1, <1>2 DEF IInv, Phases
<1>5. InUse' = InUse /\ Live(versions.current, comp)' = Live(versions.current, comp)
  BY <1>1, <1>2 DEF InUse, Live
<1>6. Numbering'
  BY <1>1, <1>2, <1>5, Zenon DEF IInv, Numbering
<1>7. Memory'
  BY <1>1, <1>2, Zenon DEF IInv, Memory
<1>8. FilesExist'
  BY <1>1, <1>5, Zenon DEF IInv, FilesExist
<1> QED BY <1>3, <1>4, <1>6, <1>7, <1>8, Zenon DEF IInv

\* A new memtable and its log get a number no file has.
LEMMA SwitchStep == ASSUME IInv, SwitchMemTable PROVE IInv'
<1>1. /\ up = "up" /\ imm = 0 /\ mem' = versions.next /\ imm' = mem
      /\ logs' = With(logs, versions.next, {})
      /\ memtable' = With(memtable, versions.next, {})
      /\ versions' = [versions EXCEPT !.next = @ + 1]
      /\ bgpc' = (IF bgpc = "idle" THEN "scheduled" ELSE bgpc)
      /\ group' = [pc |-> group'.pc, n |-> group'.n, entries |-> group'.entries]
      /\ group'.pc = "log"
      /\ UNCHANGED <<tables, manifest, up, unread, refs, number, edit, comp>>
  BY DEF SwitchMemTable, Leading, BuildBatchGroup
<1>2. /\ versions'.current = versions.current /\ versions'.log = versions.log
      /\ versions'.next = versions.next + 1 /\ IsVersionSet(versions')
      /\ versions.next \in Nat
  BY <1>1 DEF IInv, Shape, IsVersionSet
<1>3. bgpc \notin Flushing /\ bgpc' \notin Flushing
  BY <1>1 DEF IInv, Memory, Flushing
<1>4. /\ DOMAIN logs' = DOMAIN logs \cup {versions.next}
      /\ DOMAIN memtable' = DOMAIN memtable \cup {versions.next}
      /\ logs'[versions.next] = {} /\ memtable'[versions.next] = {}
      /\ \A n \in DOMAIN logs : n # versions.next => logs'[n] = logs[n]
      /\ \A n \in DOMAIN memtable : n # versions.next => memtable'[n] = memtable[n]
  BY <1>1, Zenon DEF With
<1>5. Shape'
  BY <1>1, <1>2, <1>4, Zenon DEF IInv, Shape
<1>6. Phases'
  BY <1>1, <1>2, <1>3 DEF IInv, Phases, Logging, Installing
<1>7. InUse' = InUse /\ Live(versions.current, comp)' = Live(versions.current, comp)
  BY <1>1, <1>2, Zenon DEF InUse, Live
<1>8. Numbering'
  <2>1. \A n \in Live(versions.current, comp) : n \in Nat
    BY UseIsNatural, Zenon DEF IInv, InUse
  <2>2. manifest.next \in Nat /\ edit.next \in Nat
    BY Zenon DEF IInv, Shape, IsVersionSet
  <2>3. /\ manifest' = manifest /\ edit' = edit /\ bgpc' # "build"
        /\ versions'.next = versions.next + 1 /\ versions.next \in Nat
    BY <1>1, <1>2, <1>3 DEF Flushing
  <2> QED BY <1>7, <2>1, <2>2, <2>3 DEF IInv, Numbering
<1>9. Memory'
  BY <1>1, <1>2, <1>3, <1>4 DEF IInv, Memory, Shape, IsVersionSet
<1>10. FilesExist'
  BY <1>1, <1>7, Zenon DEF IInv, FilesExist
<1> QED BY <1>5, <1>6, <1>8, <1>9, <1>10, Zenon DEF IInv

\* The group goes to the log first and then to the memtable.
LEMMA GroupSteps == ASSUME IInv, AddRecord \/ InsertInto PROVE IInv'
<1>0. /\ group # NoGroup /\ up = "up" /\ mem \in DOMAIN logs /\ mem \in DOMAIN memtable
      /\ group = [pc |-> group.pc, n |-> group.n, entries |-> group.entries]
  BY Zenon DEF IInv, Phases, Memory, AddRecord, InsertInto
<1>1. /\ UNCHANGED <<tables, manifest, up, unread, versions, mem, imm, refs,
                     bgpc, number, edit, comp>>
      /\ group' = [pc |-> group'.pc, n |-> group'.n, entries |-> group'.entries]
      /\ group'.entries = group.entries
      /\ \/ /\ group'.pc = "insert" /\ memtable' = memtable
            /\ logs' = [logs EXCEPT ![mem] = @ \cup group.entries]
         \/ /\ group.pc = "insert" /\ group'.pc = "finish" /\ logs' = logs
            /\ memtable' = [memtable EXCEPT ![mem] = @ \cup group.entries]
  BY <1>0, Zenon DEF AddRecord, InsertInto, disk, bg
<1>2. /\ DOMAIN logs' = DOMAIN logs /\ DOMAIN memtable' = DOMAIN memtable
      /\ \A n \in DOMAIN logs : n # mem => logs'[n] = logs[n]
      /\ \A n \in DOMAIN memtable : n # mem => memtable'[n] = memtable[n]
      /\ group'.pc = "insert" => group.entries \subseteq logs'[mem]
      /\ memtable[mem] \subseteq logs[mem] /\ memtable'[mem] \subseteq logs'[mem]
  BY <1>0, <1>1, Zenon DEF IInv, Memory
<1>3. Shape'
  BY <1>1, <1>2, Zenon DEF IInv, Shape
<1>4. Phases'
  BY <1>0, <1>1, Zenon DEF IInv, Phases
<1>5. InUse' = InUse /\ Live(versions.current, comp)' = Live(versions.current, comp)
  BY <1>1 DEF InUse, Live
<1>6. Numbering'
  BY <1>1, <1>5, Zenon DEF IInv, Numbering
<1>7. imm # 0 => imm # mem
  BY DEF IInv, Memory, Shape
<1>8. Memory'
  BY <1>0, <1>1, <1>2, <1>7, Zenon DEF IInv, Memory
<1>9. FilesExist'
  BY <1>1, <1>5, Zenon DEF IInv, FilesExist
<1> QED BY <1>3, <1>4, <1>6, <1>8, <1>9, Zenon DEF IInv

\* A reader takes references to what is current.
LEMMA GetStep == ASSUME IInv, NEW r \in Readers, Get(r) PROVE IInv'
<1>1. /\ UNCHANGED <<tables, logs, manifest, up, unread, versions, memtable, mem, imm,
                     group, bgpc, number, edit, comp>>
      /\ up = "up" /\ refs'[r].ver = versions.current /\ DOMAIN refs' = Readers
      /\ \A x \in Readers : x # r => refs'[x] = refs[x]
  BY DEF Get, disk, bg, front, IInv, Shape
<1>2. Live(versions.current, comp)' \subseteq Live(versions.current, comp)
  BY <1>1 DEF Live
<1>3. InUse' \subseteq InUse
  BY <1>1, <1>2, Zenon DEF InUse
<1>4. Shape'
  BY <1>1, Zenon DEF IInv, Shape, IsVersionSet
<1>5. Phases'
  BY <1>1, Zenon DEF IInv, Phases
<1>6. Numbering'
  BY <1>1, <1>2, <1>3, Zenon DEF IInv, Numbering
<1>7. Memory'
  BY <1>1, Zenon DEF IInv, Memory
<1>8. FilesExist'
  BY <1>1, <1>3, Zenon DEF IInv, FilesExist
<1> QED BY <1>4, <1>5, <1>6, <1>7, <1>8, Zenon DEF IInv

\* A reader gives its references back.
LEMMA GetReturnsStep == ASSUME IInv, NEW r \in Readers, GetReturns(r) PROVE IInv'
<1>1. /\ UNCHANGED <<tables, logs, manifest, up, unread, versions, mem, imm, group,
                     number, edit, comp>>
      /\ refs[r] # NoRef /\ refs'[r] = NoRef /\ DOMAIN refs' = Readers
      /\ \A x \in Readers : x # r => refs'[x] = refs[x]
      /\ memtable' = Referenced(imm, refs')
      /\ \/ bgpc' = bgpc
         \/ bgpc = "idle" /\ bgpc' \in {"idle", "scheduled"}
  <2>1. Scheduled(imm, versions.current) \subseteq {"idle", "scheduled"}
    BY Zenon DEF Scheduled
  <2> QED BY <2>1, Zenon DEF GetReturns, disk, front, IInv, Shape
<1>2. Live(versions.current, comp)' \subseteq Live(versions.current, comp)
  BY <1>1 DEF Live
<1>3. InUse' \subseteq InUse
  BY <1>1, <1>2, Zenon DEF InUse
<1>4. /\ \A n \in {mem, imm} \cap DOMAIN memtable : n \in DOMAIN memtable'
      /\ \A n \in DOMAIN memtable' : memtable'[n] = memtable[n]
  BY <1>1, Zenon DEF Referenced
<1>5. Shape'
  BY <1>1, Zenon DEF IInv, Shape
<1>6. Phases'
  BY <1>1 DEF IInv, Phases, Flushing, Logging, Installing
<1>7. Numbering'
  BY <1>1, <1>2, <1>3, Zenon DEF IInv, Numbering
<1>8. Memory'
  BY <1>1, <1>4 DEF IInv, Memory, Flushing
<1>9. FilesExist'
  BY <1>1, <1>3, Zenon DEF IInv, FilesExist
<1> QED BY <1>5, <1>6, <1>7, <1>8, <1>9 DEF IInv

-----------------------------------------------------------------------------
(* The background thread.                                                  *)

\* The file number that is handed out next is not in use.
LEMMA UseIsBelowNext ==
  ASSUME IInv
  PROVE  /\ \A n \in InUse : n \in Nat /\ n < versions.next
         /\ versions.next \in Nat /\ versions.next \notin InUse
<1>1. InUse \subseteq Nat /\ versions.next \in Nat /\ manifest.next \in Nat /\ edit.next \in Nat
  BY UseIsNatural, Zenon DEF IInv, Shape, IsVersionSet
<1>2. \A n \in InUse : n < versions.next
  BY <1>1 DEF IInv, Numbering, InUse
<1> QED BY <1>1, <1>2

\* The scheduler leaves the background thread at its start.
LEMMA ScheduledStates ==
  ASSUME NEW i, NEW v PROVE Scheduled(i, v) \subseteq {"idle", "scheduled"}
BY Zenon DEF Scheduled

\* A flush begins by taking a file number.
LEMMA CompactMemTableStep == ASSUME IInv, CompactMemTable PROVE IInv'
<1>1. /\ bgpc \in {"scheduled", "merge"} /\ bgpc' = "build" /\ imm # 0
      /\ number' = versions.next /\ versions' = [versions EXCEPT !.next = @ + 1]
      /\ UNCHANGED <<tables, logs, manifest, up, unread, memtable, mem, imm, group,
                     refs, edit, comp>>
  BY Zenon DEF CompactMemTable, disk, front
<1>2. /\ versions'.current = versions.current /\ versions'.log = versions.log
      /\ versions'.next = versions.next + 1 /\ IsVersionSet(versions')
  BY <1>1 DEF IInv, Shape, IsVersionSet
<1>3. /\ InUse' = InUse /\ Live(versions.current, comp)' = Live(versions.current, comp)
      /\ Live(versions.current, comp) \subseteq InUse
  BY <1>1, <1>2, Zenon DEF InUse, Live
<1>4. /\ \A n \in InUse : n \in Nat /\ n < versions.next
      /\ versions.next \in Nat /\ versions.next \notin InUse
  BY UseIsBelowNext, Zenon
<1>5. Shape'
  BY <1>1, <1>2, <1>4, Zenon DEF IInv, Shape
<1>6. Phases'
  BY <1>1, <1>2 DEF IInv, Phases, Flushing, Logging, Installing
<1>7. Numbering'
  <2>1. manifest.next \in Nat /\ edit.next \in Nat
    BY DEF IInv, Shape, IsVersionSet
  <2> QED BY <1>1, <1>2, <1>3, <1>4, <2>1 DEF IInv, Numbering
<1>8. Memory'
  <2>1. up \in {"open", "opened", "up"} => mem < versions'.next
    BY <1>2, <1>4 DEF IInv, Memory, Shape
  <2>2. UNCHANGED <<tables, logs, up, memtable, mem, imm, group>> /\ bgpc' = "build" /\ imm # 0
    BY <1>1, Zenon
  <2> QED BY <1>2, <2>1, <2>2, Zenon DEF IInv, Memory
<1>9. FilesExist'
  BY <1>1, <1>3, Zenon DEF IInv, FilesExist
<1> QED BY <1>5, <1>6, <1>7, <1>8, <1>9 DEF IInv

\* The memtable's table has a number of its own.
LEMMA WriteLevel0TableStep ==
  ASSUME IInv, WriteLevel0Table
  PROVE  IInv' /\ \A n \in InUse : n \in DOMAIN tables' => tables'[n] = tables[n]
<1>1. /\ bgpc = "build" /\ bgpc' = "log flush" /\ up = "up"
      /\ tables' = With(tables, number, memtable[imm])
      /\ UNCHANGED <<logs, manifest, up, unread, versions, memtable, mem, imm, group,
                     refs, number, comp>>
  BY DEF WriteLevel0Table, front, IInv, Phases
<1>2. PICK l \in MemTableLevels(versions.current, File(number, memtable[imm])) :
        edit' = Edit([versions.current EXCEPT ![l] = @ \cup {File(number, memtable[imm])}],
                     mem)
  BY DEF WriteLevel0Table
<1> DEFINE f == File(number, memtable[imm])
           v == [versions.current EXCEPT ![l] = @ \cup {f}]
<1>3. l \in Levels /\ f.number = number
  BY StorageAssumption DEF MemTableLevels, Levels, File
<1>4. number \in Nat /\ number \notin InUse /\ number < versions.next
  BY <1>1 DEF IInv, Shape, Numbering
<1>5. IsVersion(v) /\ Numbers(v) = Numbers(versions.current) \cup {number}
  <2>1. \A g \in {f} : g.number \in Nat
    BY <1>3, <1>4, Zenon
  <2>2. IsVersion(versions.current)
    BY Zenon DEF IInv, Shape, IsVersionSet
  <2>3. IsVersion(v) /\ Numbers(v) = Numbers(versions.current) \cup {g.number : g \in {f}}
    BY <1>3, <2>1, <2>2, AddToLevel, Zenon
  <2> QED BY <1>3, <2>3, Zenon
<1>6. /\ IsVersionSet(edit') /\ edit'.log = mem /\ edit'.next = versions.next
      /\ Numbers(edit'.current) = Numbers(versions.current) \cup {number}
  BY <1>2, <1>5, Zenon DEF Edit, IsVersionSet, IInv, Shape
<1>7. /\ DOMAIN tables' = DOMAIN tables \cup {number} /\ tables'[number] = memtable[imm]
      /\ \A n \in DOMAIN tables : n # number => tables'[n] = tables[n]
  BY <1>1 DEF With
<1>8. /\ Live(versions.current, comp)' = Live(versions.current, comp)
      /\ Numbers(versions.current) \subseteq Live(versions.current, comp)
      /\ InUse' \subseteq InUse \cup {number}
  <2>1. /\ Live(versions.current, comp)' = Live(versions.current, comp)
        /\ Numbers(versions.current) \subseteq Live(versions.current, comp)
    BY <1>1 DEF Live
  <2>2. manifest' = manifest
    BY <1>1
  <2> QED BY <1>6, <2>1, <2>2 DEF InUse
<1>9. Shape'
  BY <1>1, <1>6 DEF IInv, Shape
<1>10. Phases'
  BY <1>1, <1>6 DEF IInv, Phases, Flushing, Logging, Installing
<1>11. Numbering'
  <2>1. versions.next \in Nat
    BY UseIsBelowNext, Zenon
  <2>2. manifest' = manifest /\ versions' = versions /\ bgpc' # "build"
    BY <1>1
  <2>3. \A n \in Numbers(edit'.current) : n < edit'.next
    BY <1>4, <1>6, <1>8, Zenon DEF IInv, Numbering
  <2> QED BY <1>6, <1>8, <2>1, <2>2, <2>3 DEF IInv, Numbering
<1>12. Memory'
  BY <1>1, <1>6, <1>7 DEF IInv, Memory, Flushing
<1>13. FilesExist'
  BY <1>7, <1>8, Zenon DEF IInv, FilesExist
<1>14. \A n \in InUse : n \in DOMAIN tables' => tables'[n] = tables[n]
  BY <1>4, <1>7, Zenon
<1> QED BY <1>9, <1>10, <1>11, <1>12, <1>13, <1>14 DEF IInv

\* The manifest follows the edit.
LEMMA LogAndApplyStep == ASSUME IInv, LogAndApply PROVE IInv'
<1>1. /\ manifest' = edit /\ up = "up"
      /\ \/ bgpc = "log flush" /\ bgpc' = "install flush"
         \/ bgpc = "log move" /\ bgpc' = "install move"
         \/ bgpc = "log merge" /\ bgpc' = "install merge"
      /\ UNCHANGED <<tables, logs, up, unread, versions, memtable, mem, imm, group, refs,
                     number, edit, comp>>
  BY DEF LogAndApply, front, IInv, Phases
<1>2. /\ InUse' \subseteq InUse
      /\ Live(versions.current, comp)' = Live(versions.current, comp)
  BY <1>1 DEF InUse, Live
<1>3. Shape'
  BY <1>1 DEF IInv, Shape
<1>4. Phases'
  BY <1>1 DEF IInv, Phases, Flushing, Logging, Installing
<1>5. Numbering'
  BY <1>1, <1>2 DEF IInv, Numbering
<1>6. Memory'
  BY <1>1 DEF IInv, Memory, Flushing
<1>7. FilesExist'
  BY <1>1, <1>2 DEF IInv, FilesExist
<1> QED BY <1>3, <1>4, <1>5, <1>6, <1>7 DEF IInv

\* The flushed memtable and its log go, once a table of the manifest has it.
LEMMA InstallMemTableStep ==
  ASSUME IInv, InstallMemTable
  PROVE  IInv' /\ \A n \in InUse : n \in DOMAIN tables' => tables'[n] = tables[n]
<1>1. /\ bgpc = "install flush" /\ up = "up" /\ imm' = 0 /\ edit' = NoEdit /\ number' = 0
      /\ versions' = [versions EXCEPT !.current = edit.current, !.log = edit.log]
      /\ memtable' = Referenced(0, refs)
      /\ tables' = [n \in DOMAIN tables \cap Live(edit.current, comp) |-> tables[n]]
      /\ logs' = [n \in {x \in DOMAIN logs : x >= edit.log} |-> logs[n]]
      /\ bgpc' \in {"idle", "scheduled", "merge"}
      /\ UNCHANGED <<manifest, up, unread, mem, group, refs, comp>>
  BY ScheduledStates DEF InstallMemTable, DeleteObsoleteFiles, front, IInv, Phases
<1>2. manifest = edit /\ edit.log = mem /\ unread = {}
  BY <1>1 DEF IInv, Phases, Logging, Installing, Flushing
<1>3. /\ versions'.current = edit.current /\ versions'.log = mem
      /\ versions'.next = versions.next /\ IsVersionSet(versions')
      /\ IsVersionSet(edit') /\ edit'.next = 0 /\ Numbers(edit'.current) = {}
      /\ edit.next \in Nat /\ versions.next \in Nat
  BY <1>1, <1>2, NoVersionIsEmpty DEF IInv, Shape, IsVersionSet, NoEdit
<1>4. Live(versions.current, comp)' = Live(edit.current, comp)
  BY <1>1, <1>3 DEF Live
<1>5. Live(edit.current, comp) \subseteq InUse
  BY Zenon DEF InUse, Live
<1>6. InUse' = Live(edit.current, comp)
  <2>1. Numbers(edit.current) \subseteq Live(edit.current, comp)
    BY Zenon DEF Live
  <2> QED BY <1>1, <1>2, <1>3, <1>4, <2>1 DEF InUse
<1>7. /\ mem \in Nat /\ mem \in DOMAIN logs' /\ logs'[mem] = logs[mem]
      /\ mem \in DOMAIN memtable' /\ memtable'[mem] = memtable[mem]
  <2>1. mem \in Nat /\ mem \in DOMAIN logs /\ mem \in DOMAIN memtable
    BY <1>1 DEF IInv, Shape, Memory
  <2>2. mem \in DOMAIN memtable' /\ memtable'[mem] = memtable[mem]
    BY <1>1, <2>1 DEF Referenced
  <2>3. mem \in {x \in DOMAIN logs : x >= edit.log}
    BY <1>2, <2>1
  <2>4. mem \in DOMAIN logs' /\ logs'[mem] = logs[mem]
    BY <1>1, <2>3
  <2> QED BY <2>1, <2>2, <2>4
<1>8. Shape'
  BY <1>1, <1>2, <1>3 DEF IInv, Shape
<1>9. Phases'
  BY <1>1, <1>2, <1>3 DEF IInv, Phases, Flushing, Logging, Installing
<1>10. Numbering'
  <2>1. \A n \in InUse : n < versions.next
    BY UseIsBelowNext, Zenon
  <2>2. bgpc' # "build" /\ manifest' = manifest
    BY <1>1
  <2> QED BY <1>3, <1>4, <1>5, <2>1, <2>2 DEF IInv, Numbering
<1>11. Memory'
  <2>1. /\ group' = group /\ imm' = 0 /\ bgpc' \notin Flushing /\ mem' = mem /\ up = "up"
    BY <1>1 DEF Flushing
  <2> QED BY <1>3, <1>7, <2>1 DEF IInv, Memory
<1>12. FilesExist'
  BY <1>1, <1>5, <1>6 DEF IInv, FilesExist
<1>13. \A n \in InUse : n \in DOMAIN tables' => tables'[n] = tables[n]
  BY <1>1
<1> QED BY <1>8, <1>9, <1>10, <1>11, <1>12, <1>13 DEF IInv

\* A compaction is picked: a file is moved, or a merge is set up.
LEMMA BackgroundCompactionStep == ASSUME IInv, BackgroundCompaction PROVE IInv'
<1>1. /\ bgpc = "scheduled" /\ imm = 0 /\ up = "up"
      /\ UNCHANGED <<tables, logs, manifest, up, unread, versions, memtable, mem, imm,
                     group, refs, number>>
  BY Zenon DEF BackgroundCompaction, disk, front, IInv, Phases
<1> DEFINE ver == versions.current
<1>2. PICK l, F, in :
        /\ l \in 0..(MaxLevel - 1) /\ F \subseteq ver[l] /\ in \in Inputs(ver, l, F)
        /\ TrivialMove(ver, l, in) \/ StartMerge(ver, l, F, in)
  <2>1. PICK l \in 0..(MaxLevel - 1) : \E f \in ver[l] :
          \E in \in Inputs(ver, l, PickCompaction(ver, l, f)) :
            TrivialMove(ver, l, in) \/ StartMerge(ver, l, PickCompaction(ver, l, f), in)
    BY Zenon DEF BackgroundCompaction
  <2>2. PICK f \in ver[l] :
          \E in \in Inputs(ver, l, PickCompaction(ver, l, f)) :
            TrivialMove(ver, l, in) \/ StartMerge(ver, l, PickCompaction(ver, l, f), in)
    BY <2>1, Zenon
  <2>3. PickCompaction(ver, l, f) \subseteq ver[l]
    BY DEF PickCompaction, GetOverlappingInputs
  <2> QED BY <2>2, <2>3, Zenon
<1>3. /\ IsVersion(ver) /\ IsVersionSet(edit) /\ IsMerge(comp)
      /\ versions.log \in Nat /\ versions.next \in Nat /\ edit = NoEdit
      /\ manifest.log = versions.log
  BY <1>1, Zenon DEF IInv, Shape, IsVersionSet, Phases, Logging, Installing, Flushing
<1>4. /\ IsVersionSet(edit') /\ IsMerge(comp') /\ edit'.next \in {edit.next, versions.next}
      /\ Numbers(edit'.current) \subseteq Numbers(ver)
      /\ Numbers(comp'.input) \subseteq Numbers(ver) \cup Numbers(comp.input)
      /\ comp'.outs \in {{}, comp.outs}
      /\ \/ bgpc' = "log move" /\ edit'.log = versions.log /\ edit'.next = versions.next
         \/ bgpc' = "merge" /\ edit' = NoEdit
  <2>1. CASE TrivialMove(ver, l, in)
    <3>1. in[1] \subseteq versions.current[l]
      BY <1>2, InputsAreFiles, Zenon
    <3> DEFINE w == [ver EXCEPT ![l] = @ \ in[1], ![l + 1] = @ \cup in[1]]
    <3>2. IsVersion(w) /\ Numbers(w) \subseteq Numbers(ver)
      BY <1>2, <1>3, <3>1, MoveDown, Zenon
    <3>3. edit' = [current |-> w, log |-> versions.log, next |-> versions.next,
                   last |-> versions.last] /\ comp' = comp /\ bgpc' = "log move"
      BY <2>1 DEF TrivialMove, Edit
    <3> HIDE DEF w
    <3> QED BY <1>3, <3>2, <3>3 DEF IsVersionSet
  <2>2. CASE StartMerge(ver, l, F, in)
    <3>1. Numbers(NoEdit.current) = {}
      BY NoVersionIsEmpty, Zenon DEF NoEdit
    <3> QED BY <1>2, <1>3, <2>2, <3>1, Zenon DEF StartMerge, IsMerge
  <2> QED BY <1>2, <2>1, <2>2
<1>5. /\ Live(versions.current, comp)' \subseteq Live(versions.current, comp)
      /\ Numbers(ver) \subseteq Live(versions.current, comp)
  BY <1>1, <1>4 DEF Live
<1>6. InUse' \subseteq InUse
  BY <1>1, <1>4, <1>5 DEF InUse
<1>7. Shape'
  BY <1>1, <1>4 DEF IInv, Shape
<1>8. Phases'
  BY <1>1, <1>3, <1>4 DEF IInv, Phases, Flushing, Logging, Installing
<1>9. Numbering'
  <2>1. manifest' = manifest /\ versions' = versions /\ bgpc' # "build"
    BY <1>1, <1>4
  <2>2. Numbers(NoEdit.current) = {} /\ NoEdit.next = 0
    BY NoVersionIsEmpty, Zenon DEF NoEdit
  <2>3. \A n \in Numbers(edit'.current) : n < edit'.next
    <3>1. \A n \in Numbers(ver) : n < versions.next
      BY <1>5, Zenon DEF IInv, Numbering
    <3> HIDE DEF ver
    <3> QED BY <1>4, <2>2, <3>1
  <2>4. edit'.next <= versions.next
    <3>1. versions.next \in Nat /\ edit.next = 0 /\ edit'.next \in {edit.next, versions.next}
      BY <1>3, <1>4, <2>2, Zenon
    <3> QED BY <3>1
  <2> QED BY <1>5, <1>6, <2>1, <2>3, <2>4, Zenon DEF IInv, Numbering
<1>10. Memory'
  BY <1>1, <1>4 DEF IInv, Memory, Flushing
<1>11. FilesExist'
  BY <1>1, <1>6, Zenon DEF IInv, FilesExist
<1> QED BY <1>7, <1>8, <1>9, <1>10, <1>11 DEF IInv

\* An output of the merge has a number of its own.
LEMMA WriteOutputStep ==
  ASSUME IInv, WriteOutput
  PROVE  IInv' /\ \A n \in InUse : n \in DOMAIN tables' => tables'[n] = tables[n]
<1>1. /\ bgpc = "merge" /\ versions' = [versions EXCEPT !.next = @ + 1]
      /\ UNCHANGED <<logs, manifest, up, unread, memtable, mem, imm, group, refs, bgpc,
                     number, edit>>
  BY SMTT(30) DEF WriteOutput, front
<1>2. PICK run :
        /\ tables' = With(tables, versions.next, run)
        /\ comp' = [comp EXCEPT !.todo = @ \ run,
                                !.outs = @ \cup {File(versions.next, run)}]
  BY Zenon DEF WriteOutput
<1>3. /\ versions'.current = versions.current /\ versions'.log = versions.log
      /\ versions'.next = versions.next + 1 /\ IsVersionSet(versions')
  BY <1>1 DEF IInv, Shape, IsVersionSet
<1>4. /\ \A n \in InUse : n \in Nat /\ n < versions.next
      /\ versions.next \in Nat /\ versions.next \notin InUse
  BY UseIsBelowNext
<1>5. /\ comp'.input = comp.input /\ comp'.outs = comp.outs \cup {File(versions.next, run)}
      /\ IsMerge(comp')
  <2>1. File(versions.next, run).number = versions.next
    BY Zenon DEF File
  <2> HIDE DEF File
  <2> QED BY <1>2, <1>4, <2>1, Zenon DEF IInv, Shape, IsMerge
<1>6. /\ DOMAIN tables' = DOMAIN tables \cup {versions.next}
      /\ \A n \in DOMAIN tables : n # versions.next => tables'[n] = tables[n]
  BY <1>2, Zenon DEF With
<1>7. /\ Live(versions.current, comp)' = Live(versions.current, comp) \cup {versions.next}
      /\ Live(versions.current, comp) \subseteq InUse
  <2>1. /\ versions'.current = versions.current /\ refs' = refs
        /\ {f.number : f \in comp'.outs} = {f.number : f \in comp.outs} \cup {versions.next}
    <3>1. File(versions.next, run).number = versions.next
      BY DEF File
    <3>2. comp'.outs = comp.outs \cup {File(versions.next, run)}
      BY <1>5, Zenon
    <3> QED BY <1>1, <1>3, <3>1, <3>2, Zenon
  <2> QED BY <1>5, <2>1 DEF Live, InUse
<1>8. InUse' = InUse \cup {versions.next}
  BY <1>1, <1>7, Zenon DEF InUse
<1>9. Shape'
  BY <1>1, <1>3, <1>5, Zenon DEF IInv, Shape
<1>10. Phases'
  BY <1>1, <1>3, Zenon DEF IInv, Phases, Flushing, Logging, Installing
<1>11. Numbering'
  <2>1. manifest' = manifest /\ edit' = edit /\ bgpc' # "build"
    BY <1>1, Zenon
  <2>2. manifest.next \in Nat /\ edit.next \in Nat
    BY DEF IInv, Shape, IsVersionSet
  <2> QED BY <1>3, <1>4, <1>7, <2>1, <2>2 DEF IInv, Numbering
<1>12. Memory'
  <2>1. up \in {"open", "opened", "up"} => mem < versions'.next
    BY <1>3, <1>4 DEF IInv, Memory, Shape
  <2>2. /\ UNCHANGED <<logs, up, memtable, mem, imm, group, bgpc>>
        /\ bgpc \notin Flushing
    BY <1>1, Zenon DEF Flushing
  <2> QED BY <1>3, <2>1, <2>2, Zenon DEF IInv, Memory
<1>13. FilesExist'
  BY <1>6, <1>8, Zenon DEF IInv, FilesExist
<1>14. \A n \in InUse : n \in DOMAIN tables' => tables'[n] = tables[n]
  BY <1>4, <1>6, Zenon
<1> QED BY <1>9, <1>10, <1>11, <1>12, <1>13, <1>14 DEF IInv

\* The version after the merge names its outputs.
LEMMA InstallCompactionResultsStep == ASSUME IInv, InstallCompactionResults PROVE IInv'
<1>1. /\ bgpc = "merge" /\ bgpc' = "log merge" /\ up = "up"
      /\ UNCHANGED <<tables, logs, manifest, up, unread, versions, memtable, mem, imm,
                     group, refs, number, comp>>
  BY DEF InstallCompactionResults, disk, front, IInv, Phases
<1> DEFINE v == [versions.current EXCEPT
                   ![comp.level] = @ \ comp.in0,
                   ![comp.level + 1] = (@ \ comp.in1) \cup comp.outs]
<1>2. /\ IsVersion(v)
      /\ Numbers(v) \subseteq Numbers(versions.current) \cup {f.number : f \in comp.outs}
  <2>1. /\ IsVersion(versions.current) /\ comp.level \in 0..(MaxLevel - 1)
        /\ \A f \in comp.outs : f.number \in Nat
    BY Zenon DEF IInv, Shape, IsVersionSet, IsMerge
  <2> QED BY <2>1, ChangeTwoLevels, Zenon
<1>3. edit' = Edit(v, versions.log)
  BY DEF InstallCompactionResults
<1> HIDE DEF v
<1>4. /\ IsVersionSet(edit') /\ edit'.current = v /\ edit'.log = versions.log
      /\ edit'.next = versions.next /\ versions.next \in Nat
  BY <1>2, <1>3, Zenon DEF IInv, Shape, IsVersionSet, Edit
<1>5. /\ Live(versions.current, comp)' = Live(versions.current, comp)
      /\ Numbers(v) \subseteq Live(versions.current, comp)
  BY <1>1, <1>2 DEF Live
<1>6. InUse' \subseteq InUse
  BY <1>1, <1>4, <1>5 DEF InUse
<1>7. Shape'
  BY <1>1, <1>4 DEF IInv, Shape
<1>8. Phases'
  BY <1>1, <1>4 DEF IInv, Phases, Flushing, Logging, Installing
<1>9. Numbering'
  <2>1. \A n \in Numbers(v) : n < versions.next
    BY <1>5, Zenon DEF IInv, Numbering
  <2>2. manifest' = manifest /\ versions' = versions /\ bgpc' # "build"
    BY <1>1
  <2> QED BY <1>4, <1>5, <2>1, <2>2 DEF IInv, Numbering
<1>10. Memory'
  BY <1>1 DEF IInv, Memory, Flushing
<1>11. FilesExist'
  BY <1>1, <1>6 DEF IInv, FilesExist
<1> QED BY <1>7, <1>8, <1>9, <1>10, <1>11 DEF IInv

\* The merge's inputs go, once no version anybody uses names them.
LEMMA InstallMergeStep ==
  ASSUME IInv, InstallMerge
  PROVE  IInv' /\ \A n \in InUse : n \in DOMAIN tables' => tables'[n] = tables[n]
<1>1. /\ bgpc = "install merge" /\ up = "up" /\ edit' = NoEdit /\ comp' = NoMerge
      /\ versions' = [versions EXCEPT !.current = edit.current]
      /\ tables' = [n \in DOMAIN tables \cap Live(edit.current, NoMerge) |-> tables[n]]
      /\ logs' = [n \in {x \in DOMAIN logs : x >= versions.log} |-> logs[n]]
      /\ bgpc' \in {"idle", "scheduled"}
      /\ UNCHANGED <<manifest, up, unread, memtable, mem, imm, group, refs, number>>
  BY ScheduledStates DEF InstallMerge, DeleteObsoleteFiles, front, IInv, Phases
<1>2. manifest = edit /\ edit.log = versions.log /\ unread = {}
  BY <1>1 DEF IInv, Phases, Logging, Installing, Flushing
<1>3. /\ versions'.current = edit.current /\ versions'.log = versions.log
      /\ versions'.next = versions.next /\ IsVersionSet(versions')
      /\ edit.next \in Nat /\ versions.next \in Nat /\ versions.log \in Nat
  BY <1>1, <1>2 DEF IInv, Shape, IsVersionSet
<1>4. /\ IsVersionSet(NoEdit) /\ IsMerge(NoMerge) /\ Numbers(NoEdit.current) = {}
      /\ NoEdit.next = 0 /\ Numbers(NoMerge.input) = {} /\ NoMerge.outs = {}
  BY NothingIsNothing, Zenon
<1>5. Live(versions.current, comp)' = Live(edit.current, NoMerge)
  BY <1>1, <1>3 DEF Live
<1>6. Live(edit.current, NoMerge) \subseteq InUse
  BY <1>4, Zenon DEF InUse, Live
<1>7. InUse' = Live(edit.current, NoMerge)
  <2>1. Numbers(edit.current) \subseteq Live(edit.current, NoMerge)
    BY Zenon DEF Live
  <2> QED BY <1>1, <1>2, <1>4, <1>5, <2>1 DEF InUse
<1>8. \A n \in DOMAIN logs : n >= versions.log => n \in DOMAIN logs' /\ logs'[n] = logs[n]
  BY <1>1
<1>9. Shape'
  BY <1>1, <1>2, <1>3, <1>4 DEF IInv, Shape
<1>10. Phases'
  BY <1>1, <1>2, <1>3 DEF IInv, Phases, Flushing, Logging, Installing
<1>11. Numbering'
  <2>1. \A n \in InUse : n < versions.next
    BY UseIsBelowNext
  <2>2. bgpc' # "build" /\ manifest' = manifest /\ edit' = NoEdit
    BY <1>1
  <2> QED BY <1>3, <1>4, <1>5, <1>6, <2>1, <2>2 DEF IInv, Numbering
<1>12. Memory'
  <2>1. /\ UNCHANGED <<up, memtable, mem, imm, group>> /\ bgpc' \notin Flushing
        /\ up = "up" /\ mem \in Nat /\ imm \in Nat
    BY <1>1 DEF Flushing, IInv, Shape
  <2> QED BY <1>3, <1>8, <2>1 DEF IInv, Memory
<1>13. FilesExist'
  BY <1>1, <1>6, <1>7 DEF IInv, FilesExist
<1>14. \A n \in InUse : n \in DOMAIN tables' => tables'[n] = tables[n]
  BY <1>1
<1> QED BY <1>9, <1>10, <1>11, <1>12, <1>13, <1>14 DEF IInv

\* A moved file is in the new version.
LEMMA InstallMoveStep == ASSUME IInv, InstallMove PROVE IInv'
<1>1. /\ bgpc = "install move" /\ up = "up" /\ edit' = NoEdit
      /\ versions' = [versions EXCEPT !.current = edit.current]
      /\ bgpc' \in {"idle", "scheduled"}
      /\ UNCHANGED <<tables, logs, manifest, up, unread, memtable, mem, imm, group, refs,
                     number, comp>>
  BY ScheduledStates DEF InstallMove, disk, front, IInv, Phases
<1>2. manifest = edit /\ edit.log = versions.log
  BY <1>1 DEF IInv, Phases, Logging, Installing, Flushing
<1>3. /\ versions'.current = edit.current /\ versions'.log = versions.log
      /\ versions'.next = versions.next /\ IsVersionSet(versions')
      /\ edit.next \in Nat /\ versions.next \in Nat
  BY <1>1, <1>2 DEF IInv, Shape, IsVersionSet
<1>4. IsVersionSet(NoEdit) /\ Numbers(NoEdit.current) = {} /\ NoEdit.next = 0
  BY NothingIsNothing
<1>5. /\ Live(versions.current, comp)' \subseteq InUse
      /\ InUse' \subseteq InUse
  BY <1>1, <1>3, <1>4 DEF Live, InUse
<1>6. Shape'
  BY <1>1, <1>3, <1>4 DEF IInv, Shape
<1>7. Phases'
  BY <1>1, <1>2, <1>3 DEF IInv, Phases, Flushing, Logging, Installing
<1>8. Numbering'
  <2>1. \A n \in InUse : n < versions.next
    BY UseIsBelowNext
  <2>2. bgpc' # "build" /\ manifest' = manifest /\ edit' = NoEdit
    BY <1>1
  <2> QED BY <1>3, <1>4, <1>5, <2>1, <2>2 DEF IInv, Numbering
<1>9. Memory'
  <2>1. UNCHANGED <<logs, up, memtable, mem, imm, group>> /\ bgpc' \notin Flushing
    BY <1>1 DEF Flushing
  <2> QED BY <1>3, <2>1, Zenon DEF IInv, Memory
<1>10. FilesExist'
  BY <1>1, <1>5 DEF IInv, FilesExist
<1> QED BY <1>6, <1>7, <1>8, <1>9, <1>10 DEF IInv

-----------------------------------------------------------------------------
(* The process ends and comes back.                                        *)

\* What is left is what the manifest names.
LEMMA EndStep == ASSUME IInv, End PROVE IInv'
<1>1. /\ up' = "down" /\ unread' = {} /\ versions' = manifest
      /\ memtable' = <<>> /\ mem' = 0 /\ imm' = 0 /\ group' = NoGroup
      /\ refs' = [r \in Readers |-> NoRef]
      /\ bgpc' = "idle" /\ number' = 0 /\ edit' = NoEdit /\ comp' = NoMerge
      /\ UNCHANGED <<tables, logs, manifest>>
  BY Zenon DEF End, disk
<1>2. /\ IsVersionSet(NoEdit) /\ Numbers(NoEdit.current) = {} /\ NoEdit.next = 0
      /\ IsMerge(NoMerge) /\ Numbers(NoMerge.input) = {} /\ NoMerge.outs = {}
  BY NothingIsNothing, Zenon
<1>3. Live(versions.current, comp)' = Numbers(manifest.current)
  BY <1>1, <1>2, Zenon DEF Live
<1>4. InUse' = Numbers(manifest.current) /\ InUse' \subseteq InUse
  BY <1>1, <1>2, <1>3 DEF InUse
<1>5. Shape'
  BY <1>1, <1>2, Zenon DEF IInv, Shape
<1>6. Phases'
  BY <1>1, Zenon DEF Phases, Flushing, Logging, Installing
<1>7. Numbering'
  <2>1. manifest.next \in Nat
    BY Zenon DEF IInv, Shape, IsVersionSet
  <2> QED BY <1>1, <1>2, <1>3, <2>1 DEF IInv, Numbering
<1>8. Memory'
  BY <1>1, Zenon DEF Memory, Flushing
<1>9. FilesExist'
  BY <1>1, <1>4, Zenon DEF IInv, FilesExist
<1> QED BY <1>5, <1>6, <1>7, <1>8, <1>9 DEF IInv

\* Recovery begins with the manifest.
LEMMA RecoverStep == ASSUME IInv, Recover PROVE IInv'
<1>1. /\ up = "down" /\ up' = "recover" /\ versions' = [manifest EXCEPT !.next = @ + 1]
      /\ unread' \subseteq DOMAIN logs
      /\ UNCHANGED <<tables, logs, manifest, memtable, mem, imm, group, refs,
                     bgpc, number, edit, comp>>
  BY Zenon DEF Recover, Kept, disk, front, bg
<1>2. bgpc = "idle" /\ imm = 0 /\ group = NoGroup /\ versions = manifest
  BY <1>1, Zenon DEF IInv, Phases
<1>3. /\ versions'.current = versions.current /\ versions'.next = versions.next + 1
      /\ IsVersionSet(versions')
      /\ manifest.next \in Nat /\ edit.next \in Nat /\ versions.next \in Nat
  BY <1>1, <1>2 DEF IInv, Shape, IsVersionSet
<1>4. /\ InUse' = InUse /\ Live(versions.current, comp)' = Live(versions.current, comp)
      /\ Live(versions.current, comp) \subseteq InUse
  BY <1>1, <1>3 DEF InUse, Live
<1>5. Shape'
  BY <1>1, <1>3, Zenon DEF IInv, Shape
<1>6. Phases'
  BY <1>1, <1>2, Zenon DEF IInv, Phases, Flushing, Logging, Installing
<1>7. Numbering'
  <2>1. \A n \in InUse : n \in Nat /\ n < versions.next
    BY UseIsBelowNext, Zenon
  <2>2. manifest' = manifest /\ edit' = edit /\ bgpc' # "build"
    BY <1>1, <1>2, Zenon
  <2> QED BY <1>3, <1>4, <2>1, <2>2 DEF IInv, Numbering
<1>8. Memory'
  BY <1>1, <1>2, Zenon DEF Memory, Flushing
<1>9. FilesExist'
  BY <1>1, <1>4, Zenon DEF IInv, FilesExist
<1> QED BY <1>5, <1>6, <1>7, <1>8, <1>9 DEF IInv

\* A log that is read again becomes a table with a number of its own.
LEMMA RecoverLogFileStep ==
  ASSUME IInv, RecoverLogFile
  PROVE  IInv' /\ \A n \in InUse : n \in DOMAIN tables' => tables'[n] = tables[n]
<1>1. /\ up = "recover" /\ bgpc = "idle" /\ imm = 0 /\ group = NoGroup /\ edit = NoEdit
      /\ UNCHANGED <<logs, manifest, up, memtable, mem, imm, group, refs,
                     bgpc, number, edit, comp>>
  BY Zenon DEF RecoverLogFile, front, bg, IInv, Phases, Logging, Installing, Flushing
<1>2. PICK n, m :
        /\ n \in unread /\ unread' = unread \ {n}
        /\ tables' = IF logs[n] = {} THEN tables ELSE With(tables, versions.next, logs[n])
        /\ versions' = [
             current |-> IF logs[n] = {} THEN versions.current
                         ELSE [versions.current EXCEPT
                                 ![0] = @ \cup {File(versions.next, logs[n])}],
             log     |-> versions.log,
             next    |-> IF (IF logs[n] = {} THEN versions.next ELSE versions.next + 1) <= n
                         THEN n + 1
                         ELSE IF logs[n] = {} THEN versions.next ELSE versions.next + 1,
             last    |-> m]
  BY Zenon DEF RecoverLogFile
<1>3. /\ \A k \in InUse : k \in Nat /\ k < versions.next
      /\ versions.next \in Nat /\ versions.next \notin InUse /\ n \in Nat
  BY <1>2, UseIsBelowNext, Zenon DEF IInv, Shape
<1> DEFINE f == File(versions.next, logs[n])
           v == [versions.current EXCEPT ![0] = @ \cup {f}]
<1>4. IsVersion(v) /\ Numbers(v) = Numbers(versions.current) \cup {versions.next}
  <2>1. f.number = versions.next /\ 0 \in Levels /\ IsVersion(versions.current)
    BY StorageAssumption DEF File, Levels, IInv, Shape, IsVersionSet
  <2>2. \A g \in {f} : g.number \in Nat
    BY <1>3, <2>1, Zenon
  <2>3. IsVersion(v) /\ Numbers(v) = Numbers(versions.current) \cup {g.number : g \in {f}}
    BY <2>1, <2>2, AddToLevel, Zenon
  <2> QED BY <2>1, <2>3, Zenon
<1>5. /\ IsVersionSet(versions') /\ versions'.log = versions.log
      /\ versions'.next \in Nat /\ versions.next <= versions'.next
      /\ \/ versions'.current = versions.current /\ tables' = tables
         \/ /\ versions'.current = v /\ versions.next < versions'.next
            /\ tables' = With(tables, versions.next, logs[n])
  <2>1. IsVersionSet(versions)
    BY Zenon DEF IInv, Shape
  <2>2. CASE logs[n] = {}
    <3>1. versions' = [current |-> versions.current, log |-> versions.log,
             next |-> IF versions.next <= n THEN n + 1 ELSE versions.next, last |-> m]
      BY <1>2, <2>2, Zenon
    <3>2. tables' = tables
      BY <1>2, <2>2, Zenon
    <3> QED BY <1>3, <2>1, <3>1, <3>2, SMTT(30) DEF IsVersionSet
  <2>3. CASE logs[n] # {}
    <3>1. versions' = [current |-> v, log |-> versions.log,
             next |-> IF versions.next + 1 <= n THEN n + 1 ELSE versions.next + 1,
             last |-> m]
      BY <1>2, <2>3, Zenon
    <3>2. tables' = With(tables, versions.next, logs[n])
      BY <1>2, <2>3, Zenon
    <3> HIDE DEF v
    <3> QED BY <1>3, <1>4, <2>1, <3>1, <3>2 DEF IsVersionSet
  <2> QED BY <2>2, <2>3, Zenon
<1> HIDE DEF v, f
<1>6. /\ Live(versions.current, comp)' \subseteq
           Live(versions.current, comp) \cup (Numbers(versions'.current))
      /\ Live(versions.current, comp) \subseteq InUse
      /\ Numbers(versions.current) \subseteq InUse
  BY <1>1 DEF Live, InUse
<1>7. InUse' \subseteq InUse \cup Numbers(versions'.current)
  BY <1>1, <1>6, Zenon DEF InUse
<1>8. \A k \in Numbers(versions'.current) :
        \/ k \in InUse
        \/ k = versions.next /\ k < versions'.next /\ k \in DOMAIN tables'
  <2>1. CASE versions'.current = versions.current
    BY <1>6, <2>1, Zenon
  <2>2. CASE /\ versions'.current = v /\ versions.next < versions'.next
             /\ tables' = With(tables, versions.next, logs[n])
    <3>1. versions.next \in DOMAIN tables'
      BY <2>2, Zenon DEF With
    <3>2. Numbers(versions'.current) = Numbers(versions.current) \cup {versions.next}
      BY <1>4, <2>2, Zenon
    <3>3. Numbers(versions.current) \subseteq InUse
      BY <1>6, Zenon
    <3> QED BY <2>2, <3>1, <3>2, <3>3, Zenon
  <2> QED BY <1>5, <2>1, <2>2, Zenon
<1>9. /\ DOMAIN tables \subseteq DOMAIN tables'
      /\ \A k \in DOMAIN tables : k # versions.next => tables'[k] = tables[k]
  BY <1>5, Zenon DEF With
<1>10. Shape'
  BY <1>1, <1>2, <1>5 DEF IInv, Shape
<1>11. Phases'
  BY <1>1, SMTT(30) DEF IInv, Phases, Flushing, Logging, Installing
<1>12. Numbering'
  <2>1. manifest' = manifest /\ edit' = edit /\ bgpc' # "build"
    BY <1>1, Zenon
  <2>2. manifest.next \in Nat /\ edit.next \in Nat
    BY DEF IInv, Shape, IsVersionSet
  <2>3. \A k \in Live(versions.current, comp)' : k < versions'.next
    BY <1>3, <1>5, <1>6, <1>8
  <2>4. manifest.next <= versions'.next /\ edit.next <= versions'.next
    BY <1>3, <1>5, <2>2 DEF IInv, Numbering
  <2> QED BY <2>1, <2>3, <2>4, Zenon DEF IInv, Numbering
<1>13. Memory'
  BY <1>1, Zenon DEF Memory, Flushing
<1>14. FilesExist'
  BY <1>7, <1>8, <1>9, Zenon DEF IInv, FilesExist
<1>15. \A k \in InUse : k \in DOMAIN tables' => tables'[k] = tables[k]
  BY <1>3, <1>9 DEF IInv, FilesExist
<1> QED BY <1>10, <1>11, <1>12, <1>13, <1>14, <1>15 DEF IInv

\* Open's own log and memtable get a number no file has.
LEMMA NewLogStep == ASSUME IInv, NewLog PROVE IInv'
<1>1. /\ up = "recover" /\ unread = {} /\ up' = "open" /\ mem' = versions.next
      /\ logs' = With(logs, versions.next, {})
      /\ memtable' = With(<<>>, versions.next, {})
      /\ versions' = [versions EXCEPT !.log = versions.next, !.next = @ + 1]
      /\ UNCHANGED <<tables, manifest, unread, imm, group, refs, bgpc, number, edit, comp>>
  BY Zenon DEF NewLog, front, bg
<1>2. bgpc = "idle" /\ imm = 0 /\ group = NoGroup /\ edit = NoEdit
  BY <1>1, Zenon DEF IInv, Phases, Logging, Installing, Flushing
<1>3. /\ versions'.current = versions.current /\ versions'.log = versions.next
      /\ versions'.next = versions.next + 1 /\ IsVersionSet(versions')
      /\ manifest.next \in Nat /\ edit.next \in Nat /\ versions.next \in Nat
  <2>1. IsVersionSet(versions) /\ manifest.next \in Nat /\ edit.next \in Nat
    BY Zenon DEF IInv, Shape, IsVersionSet
  <2>2. versions' = [current |-> versions.current, log |-> versions.next,
                     next |-> versions.next + 1, last |-> versions.last]
    BY <1>1, <2>1, Zenon DEF IsVersionSet
  <2> QED BY <2>1, <2>2 DEF IsVersionSet
<1>4. /\ InUse' = InUse /\ Live(versions.current, comp)' = Live(versions.current, comp)
      /\ Live(versions.current, comp) \subseteq InUse
  BY <1>1, <1>3, Zenon DEF InUse, Live
<1>5. /\ DOMAIN logs' = DOMAIN logs \cup {versions.next}
      /\ versions.next \in DOMAIN memtable'
      /\ logs'[versions.next] = {} /\ memtable'[versions.next] = {}
  BY <1>1, Zenon DEF With
<1>6. Shape'
  BY <1>1, <1>3, <1>5, Zenon DEF IInv, Shape
<1>7. Phases'
  BY <1>1, <1>2, Zenon DEF IInv, Phases, Flushing, Logging, Installing
<1>8. Numbering'
  <2>1. \A n \in InUse : n \in Nat /\ n < versions.next
    BY UseIsBelowNext
  <2>2. manifest' = manifest /\ edit' = edit /\ bgpc' # "build"
    BY <1>1, <1>2, Zenon
  <2> QED BY <1>3, <1>4, <2>1, <2>2 DEF IInv, Numbering
<1>9. Memory'
  <2>1. mem' = versions.next /\ imm' = 0 /\ group' = NoGroup /\ bgpc' \notin Flushing
    BY <1>1, <1>2, Zenon DEF Flushing
  <2> QED BY <1>3, <1>5, <2>1 DEF Memory
<1>10. FilesExist'
  BY <1>1, <1>4, Zenon DEF IInv, FilesExist
<1> QED BY <1>6, <1>7, <1>8, <1>9, <1>10 DEF IInv

\* The new manifest holds what was recovered.
LEMMA SetCurrentFileStep == ASSUME IInv, SetCurrentFile PROVE IInv'
<1>1. /\ up = "open" /\ up' = "opened" /\ manifest' = versions
      /\ UNCHANGED <<tables, logs, unread, versions, memtable, mem, imm, group, refs,
                     bgpc, number, edit, comp>>
  BY Zenon DEF SetCurrentFile, front, bg
<1>2. bgpc = "idle" /\ imm = 0 /\ group = NoGroup /\ edit = NoEdit
  BY <1>1, Zenon DEF IInv, Phases, Logging, Installing, Flushing
<1>3. /\ Live(versions.current, comp)' = Live(versions.current, comp)
      /\ Numbers(versions.current) \subseteq Live(versions.current, comp)
  BY <1>1 DEF Live
<1>4. InUse' \subseteq InUse
  BY <1>1, <1>3, Zenon DEF InUse
<1>5. Shape'
  BY <1>1, Zenon DEF IInv, Shape
<1>6. Phases'
  BY <1>1, <1>2, SMTT(30) DEF IInv, Phases, Flushing, Logging, Installing
<1>7. Numbering'
  <2>1. versions.next \in Nat /\ bgpc' # "build"
    BY <1>1, <1>2, Zenon DEF IInv, Shape, IsVersionSet
  <2>2. \A n \in Numbers(versions.current) : n < versions.next
    BY <1>3, Zenon DEF IInv, Numbering
  <2>3. manifest' = versions /\ versions' = versions /\ edit' = edit
    BY <1>1, Zenon
  <2> QED BY <1>3, <2>1, <2>2, <2>3 DEF IInv, Numbering
<1>8. Memory'
  BY <1>1, <1>2, Zenon DEF IInv, Memory, Flushing
<1>9. FilesExist'
  BY <1>1, <1>4, Zenon DEF IInv, FilesExist
<1> QED BY <1>5, <1>6, <1>7, <1>8, <1>9 DEF IInv

\* Open deletes what the new manifest does not name.
LEMMA OpenStep ==
  ASSUME IInv, Open
  PROVE  IInv' /\ \A n \in InUse : n \in DOMAIN tables' => tables'[n] = tables[n]
<1>1. /\ up = "opened" /\ up' = "up"
      /\ tables' = [n \in DOMAIN tables \cap Live(versions.current, comp) |-> tables[n]]
      /\ logs' = [n \in {x \in DOMAIN logs : x >= versions.log} |-> logs[n]]
      /\ bgpc' \in {"idle", "scheduled"}
      /\ UNCHANGED <<manifest, unread, versions, memtable, mem, imm, group, refs, number,
                     edit, comp>>
  BY ScheduledStates, Zenon DEF Open, DeleteObsoleteFiles, front
<1>2. /\ imm = 0 /\ group = NoGroup /\ edit = NoEdit /\ manifest = versions /\ unread = {}
  BY <1>1, Zenon DEF IInv, Phases, Logging, Installing, Flushing
<1>3. /\ Live(versions.current, comp)' = Live(versions.current, comp)
      /\ Numbers(versions.current) \subseteq Live(versions.current, comp)
      /\ Live(versions.current, comp) \subseteq InUse
  BY <1>1 DEF Live, InUse
<1>4. InUse' = Live(versions.current, comp)
  <2>1. Numbers(edit'.current) = {}
    BY <1>1, <1>2, NothingIsNothing
  <2> QED BY <1>1, <1>2, <1>3, <2>1, Zenon DEF InUse
<1>5. mem \in DOMAIN logs' /\ logs'[mem] = logs[mem]
  <2>1. mem \in {x \in DOMAIN logs : x >= versions.log}
    BY <1>1, Zenon DEF IInv, Memory, Shape, IsVersionSet
  <2> QED BY <1>1, <2>1, Zenon
<1>6. Shape'
  BY <1>1, <1>2 DEF IInv, Shape
<1>7. Phases'
  BY <1>1, <1>2 DEF IInv, Phases, Flushing, Logging, Installing
<1>8. Numbering'
  <2>1. bgpc' # "build"
    BY <1>1
  <2> QED BY <1>1, <1>3, <2>1, Zenon DEF IInv, Numbering
<1>9. Memory'
  BY <1>1, <1>2, <1>5 DEF IInv, Memory, Flushing
<1>10. FilesExist'
  BY <1>1, <1>3, <1>4, Zenon DEF IInv, FilesExist
<1>11. \A n \in InUse : n \in DOMAIN tables' => tables'[n] = tables[n]
  BY <1>1, Zenon
<1> QED BY <1>6, <1>7, <1>8, <1>9, <1>10, <1>11 DEF IInv

-----------------------------------------------------------------------------
(* The theorems.                                                           *)

Keeps == \A n \in InUse : n \in DOMAIN tables' => tables'[n] = tables[n]

\* Every step keeps the invariant, and the tables in use.
LEMMA NextStep == ASSUME IInv, [Next]_vars PROVE IInv' /\ Keeps
<1>1. tables' = tables => Keeps
  BY Zenon DEF Keeps
<1>2. CASE (\E w \in Writers : Write(w) \/ ReturnDone(w)) \/ Lead
  <2>1. tables' = tables
    <3>1. CASE \E w \in Writers : Write(w) \/ ReturnDone(w)
      BY <3>1, Zenon DEF Write, ReturnDone, disk
    <3>2. CASE Lead
      BY <3>2, Zenon DEF Lead, WaitForRoom, MakeRoomForWrite, SwitchMemTable, AddRecord,
                  InsertInto, FinishWrite, disk
    <3> QED BY <1>2, <3>1, <3>2, Zenon
  <2>2. IInv'
    BY <1>2, FrontSteps, SwitchStep, GroupSteps DEF Lead
  <2> QED BY <1>1, <2>1, <2>2, Zenon
<1>3. CASE \E r \in Readers : Get(r) \/ GetReturns(r)
  <2>1. tables' = tables
    BY <1>3, Zenon DEF Get, GetReturns, disk
  <2>2. IInv'
    BY <1>3, GetStep, GetReturnsStep, Zenon
  <2> QED BY <1>1, <2>1, <2>2
<1>4. CASE WriteLevel0Table \/ InstallMemTable \/ WriteOutput \/ InstallMerge
  BY <1>4, WriteLevel0TableStep, InstallMemTableStep, WriteOutputStep, InstallMergeStep
     DEF Keeps
<1>5. CASE CompactMemTable \/ LogAndApply \/ BackgroundCompaction
             \/ InstallCompactionResults \/ InstallMove
  <2>1. tables' = tables
    BY <1>5 DEF CompactMemTable, LogAndApply, BackgroundCompaction,
                InstallCompactionResults, InstallMove, disk
  <2>2. IInv'
    BY <1>5, CompactMemTableStep, LogAndApplyStep, BackgroundCompactionStep,
       InstallCompactionResultsStep, InstallMoveStep
  <2> QED BY <1>1, <2>1, <2>2
<1>6. CASE RecoverLogFile \/ Open
  BY <1>6, RecoverLogFileStep, OpenStep DEF Keeps
<1>7. CASE End \/ Recover \/ NewLog \/ SetCurrentFile
  <2>1. tables' = tables
    BY <1>7, Zenon DEF End, Recover, NewLog, SetCurrentFile, disk
  <2>2. IInv'
    BY <1>7, EndStep, RecoverStep, NewLogStep, SetCurrentFileStep
  <2> QED BY <1>1, <2>1, <2>2
<1>8. CASE UNCHANGED vars
  <2>1. /\ UNCHANGED <<tables, logs, manifest, up, unread, versions, memtable, mem, imm,
                       group, refs, bgpc, number, edit, comp>>
    BY <1>8, Zenon DEF vars
  <2>2. InUse' = InUse /\ Live(versions.current, comp)' = Live(versions.current, comp)
    BY <2>1 DEF InUse, Live
  <2>3. Shape' /\ Phases'
    BY <2>1, SMTT(30) DEF IInv, Shape, Phases
  <2>4. Numbering' /\ FilesExist'
    BY <2>1, <2>2, Zenon DEF IInv, Numbering, FilesExist
  <2>5. Memory'
    BY <2>1, Zenon DEF IInv, Memory
  <2> QED BY <1>1, <2>1, <2>3, <2>4, <2>5 DEF IInv
<1> QED BY <1>2, <1>3, <1>4, <1>5, <1>6, <1>7, <1>8 DEF Next, Background, Opening

\* The invariant holds in every state.
LEMMA AlwaysIInv == Spec => []IInv
BY InitIInv, NextStep, PTL DEF Spec

\* No step of any thread, and no end of the process at any point of a flush, a
\* merge or DB::Open, deletes a table file that a version in use, the manifest
\* or a pending edit names (DeleteObsoleteFiles).
THEOREM FilesAlwaysExist == Spec => []FilesExist
<1>1. IInv => FilesExist
  BY Zenon DEF IInv
<1> QED BY <1>1, AlwaysIInv, PTL

\* What the memtables hold is in a log that recovery reads or in a table of the
\* manifest, whatever the background thread is doing (CompactMemTable).
THEOREM MemoryAlwaysOnDisk == Spec => []MemoryIsOnDisk
<1>1. ASSUME IInv PROVE MemoryIsOnDisk
  <2> SUFFICES ASSUME up = "up" PROVE OnDisk(mem) /\ (imm # 0 => OnDisk(imm))
    BY Zenon DEF MemoryIsOnDisk
  <2>1. /\ mem \in DOMAIN logs /\ memtable[mem] \subseteq logs[mem] /\ versions.log <= mem
        /\ imm # 0 => /\ imm \in DOMAIN logs /\ memtable[imm] \subseteq logs[imm]
                      /\ versions.log <= imm
        /\ mem \in Nat /\ imm \in Nat /\ versions.log \in Nat
    BY <1>1 DEF IInv, Memory, Shape, IsVersionSet
  <2>2. CASE bgpc = "install flush"
    <3>1. /\ manifest = edit /\ edit.log = mem
          /\ number \in DOMAIN tables /\ tables[number] = memtable[imm]
          /\ number \in Numbers(edit.current)
      BY <1>1, <2>2 DEF IInv, Phases, Memory, Flushing, Logging, Installing
    <3> QED BY <2>1, <3>1 DEF OnDisk
  <2>3. CASE bgpc # "install flush"
    <3>1. manifest.log = versions.log
      BY <1>1, <2>3 DEF IInv, Phases, Flushing, Logging, Installing
    <3> QED BY <2>1, <3>1, Zenon DEF OnDisk
  <2> QED BY <2>2, <2>3
<1> QED BY <1>1, AlwaysIInv, PTL

\* A table file in use is never written again: NewFileNumber never hands out
\* the number of one, not even after the process ended before the manifest
\* recorded the numbers it had used.
THEOREM TablesAlwaysKeep == Spec => TablesKeep
<1>1. ASSUME IInv, [Next]_vars
      PROVE  [\A n \in InUse : n \in DOMAIN tables' => tables'[n] = tables[n]]_vars
  BY <1>1, NextStep, Zenon DEF Keeps
<1> QED BY <1>1, AlwaysIInv, PTL DEF Spec, TablesKeep
=============================================================================
