------------------------------ MODULE Storage ------------------------------
(***************************************************************************)
(* One leveldb database as Lockbox runs it (src/leveldb/db): the threads   *)
(* that write and read it through DBManager, the background thread that    *)
(* moves memtables into table files and merges table files, the files on   *)
(* the disk, and the end and reopening of the process at any point.        *)
(*                                                                         *)
(* A memtable has the number of the log its writes go to.  An entry is a   *)
(* key, the sequence number of the write and whether it deletes the key;   *)
(* the value is abstracted to the sequence number.  Sizes are abstracted:  *)
(* a memtable is full after WriteBuffer entries, a group of writes, the    *)
(* runs of a merge and the choice of what to merge are any the code could  *)
(* choose for some sizes.  Lockbox uses no snapshots, no synchronous       *)
(* writes and no manual compaction, and disk errors are left out.          *)
(***************************************************************************)
EXTENDS Integers, Sequences, FiniteSets, FiniteSetsExt

CONSTANTS
  Keys,          \* a set of naturals, in the comparator's order
  Deleted,       \* the keys that are ever deleted
  Writers, Readers,
  MaxLevel,      \* kNumLevels - 1
  WriteBuffer,   \* the entries after which a memtable is full
  Trigger,       \* kL0_CompactionTrigger
  StopWrites,    \* kL0_StopWritesTrigger
  NoOp, NoAnswer, NoRef, NoGroup,
  MaxWrites,     \* bound on the writes
  MaxEnds        \* bound on the ends of the process

ASSUME StorageAssumption ==
  /\ Keys \subseteq Nat /\ Deleted \subseteq Keys
  /\ MaxLevel \in Nat /\ MaxLevel >= 2
  /\ WriteBuffer \in Nat \ {0} /\ Trigger \in Nat \ {0}
  /\ StopWrites \in Nat /\ Trigger <= StopWrites
  /\ MaxWrites \in Nat /\ MaxEnds \in Nat

VARIABLES
  \* on the disk
  tables,     \* table file number -> the entries in it
  logs,       \* log file number -> the entries of its complete records
  manifest,   \* what VersionSet::Recover reads: current, log, next, last
  \* in memory
  up,         \* "down"; "recover", "open", "opened" inside DB::Open; "up"
  unread,     \* in Open, the logs that are still to be read
  versions,   \* VersionSet: current, log, next, last
  memtable,   \* log number -> the entries inserted so far
  mem, imm,   \* the numbers of mem_ (= logfile_number_) and imm_ (0 if none)
  queue,      \* writers_
  wop,        \* writer -> its write, until Write returns
  sleeping,   \* writers waiting for their condition variable
  group,      \* the batch group being written by the head of the queue
  stalled,    \* the head of the queue waits for bg_cv_
  refs,       \* reader -> what Get holds a reference to
  bgpc,       \* where the background thread is
  number,     \* the table file CompactMemTable writes
  edit,       \* what LogAndApply writes: current, log, next, last
  comp,       \* the merge that is running; its in0 is empty if there is none
  ends

disk == <<tables, logs, manifest>>
front == <<queue, wop, sleeping, group>>
bg == <<bgpc, number, edit, comp>>
vars == <<tables, logs, manifest, up, unread, versions, memtable, mem, imm, queue,
          wop, sleeping, group, stalled, refs, bgpc, number, edit, comp, ends>>

Levels == 0..MaxLevel
With(f, n, S) == [x \in DOMAIN f \cup {n} |-> IF x = n THEN S ELSE f[x]]
Ops == {op \in [key : Keys, del : BOOLEAN] : op.del => op.key \in Deleted}

ASSUME NoOpAssumption == NoOp \notin Ops

-----------------------------------------------------------------------------
(* Versions and lookups.                                                   *)

\* FileMetaData of a table made of these entries.
File(n, S) == [number   |-> n,
               smallest |-> Min({e.key : e \in S}),
               largest  |-> Max({e.key : e \in S})]

Overlapping(F, lo, hi) == {f \in F : f.largest >= lo /\ f.smallest <= hi}

Range0(F) == Min({f.smallest : f \in F})
Range1(F) == Max({f.largest : f \in F})

\* GetOverlappingInputs: on level 0 a file that is taken widens the range.
GetOverlappingInputs(ver, level, lo, hi) ==
  LET first == Overlapping(ver[level], lo, hi)
      Closed(S) == \A f \in S : Overlapping(ver[level], f.smallest, f.largest) \subseteq S
  IN IF level > 0 THEN first
     ELSE {f \in ver[0] : \A S \in SUBSET ver[0] :
                            first \subseteq S /\ Closed(S) => f \in S}

\* The files of level l that Version::Get may open for k: on level 0 those
\* whose range holds k, below it the first file that ends at k or later.
Candidates(ver, l, k) ==
  LET holds == {f \in ver[l] : f.smallest <= k /\ k <= f.largest} IN
  IF l = 0 THEN holds
  ELSE {f \in holds : \A g \in ver[l] : g.largest >= k => g.largest >= f.largest}

Newest(S) == LET e == CHOOSE x \in S : \A y \in S : y.seq <= x.seq IN
             IF e.del THEN 0 ELSE e.seq

\* What a lookup answers: the first memtable of ms, by its index, else the
\* table file of the lowest level and there of the largest number, that has an
\* entry for k no newer than s decides.  A file that is missing is an error, -1.
Lookup(k, s, ms, ver) ==
  LET Of(S) == {e \in S : e.key = k /\ e.seq <= s}
      inMem == {i \in DOMAIN ms : Of(ms[i]) # {}}
      hits == UNION {{<<l, f.number>> : f \in Candidates(ver, l, k)} : l \in Levels}
      stops == {h \in hits : h[2] \in DOMAIN tables => Of(tables[h[2]]) # {}}
      first == CHOOSE h \in stops : \A g \in stops :
                 h[1] < g[1] \/ (h[1] = g[1] /\ h[2] >= g[2])
  IN IF inMem # {} THEN Newest(Of(ms[Min(inMem)]))
     ELSE IF stops = {} THEN 0
     ELSE IF first[2] \in DOMAIN tables THEN Newest(Of(tables[first[2]]))
     ELSE -1

\* What a lookup in the reopened database would answer: the logs that are
\* read again, newest first, then the files of the manifest.
Kept == {n \in DOMAIN logs : n >= manifest.log}
Recovered(k) ==
  Lookup(k, MaxWrites, [i \in {-n : n \in Kept} |-> logs[-i]], manifest.current)

Memtables(m, i) == IF i = 0 THEN <<memtable[m]>> ELSE <<memtable[m], memtable[i]>>

-----------------------------------------------------------------------------
(* The background thread's pieces.                                         *)

NoVersion == [l \in Levels |-> {}]
NoEdit == [current |-> NoVersion, log |-> 0, next |-> 0, last |-> 0]
NoMerge == [level |-> 0, in0 |-> {}, in1 |-> {}, input |-> NoVersion,
            todo |-> {}, outs |-> {}]

\* MaybeScheduleCompaction, for a thread that is not scheduled.
Scheduled(i, ver) ==
  IF i # 0 \/ Cardinality(ver[0]) >= Trigger THEN {"scheduled"}
  ELSE IF \E l \in 0..(MaxLevel - 1) : ver[l] # {} THEN {"idle", "scheduled"}
  ELSE {"idle"}

Numbers(ver) == {f.number : f \in UNION {ver[l] : l \in Levels}}

\* The files DeleteObsoleteFiles keeps: those of every version somebody still
\* refers to and the outputs that are pending.
Live(ver, c) ==
  Numbers(ver) \cup Numbers(c.input) \cup {f.number : f \in c.outs}
    \cup UNION {Numbers(refs[r].ver) : r \in {x \in Readers : refs[x] # NoRef}}

\* Variant: the outputs that are pending are not protected.
DeleteNotInstalled(ver, log, c) ==
  /\ tables' = [n \in DOMAIN tables \cap Live(ver, [c EXCEPT !.outs = {}]) |-> tables[n]]
  /\ logs' = [n \in {x \in DOMAIN logs : x >= log} |-> logs[n]]

\* Variant: the versions of readers are not protected.
DeleteNotCurrent(ver, log, c) ==
  /\ tables' = [n \in DOMAIN tables \cap
                        (Numbers(ver) \cup Numbers(c.input) \cup {f.number : f \in c.outs})
                  |-> tables[n]]
  /\ logs' = [n \in {x \in DOMAIN logs : x >= log} |-> logs[n]]

DeleteObsoleteFiles(ver, log, c) ==
  /\ tables' = [n \in DOMAIN tables \cap Live(ver, c) |-> tables[n]]
  /\ logs' = [n \in {x \in DOMAIN logs : x >= log} |-> logs[n]]

\* Variant: the levels it passes are not looked at.
MemTableLevelsDeep(ver, f) ==
  LET over(l) == Overlapping(ver[l], f.smallest, f.largest) # {}
  IN {l \in 0..2 : l > 0 => ~over(0)}

\* PickLevelForMemTableOutput.
MemTableLevels(ver, f) ==
  LET over(l) == l <= MaxLevel /\ Overlapping(ver[l], f.smallest, f.largest) # {}
      clear(l) == \A j \in 0..l : ~over(j)
  IN {l \in 0..2 : /\ l > 0 => clear(l)
                   /\ \/ l = 2
                      \/ ~clear(l) \/ over(l + 1)
                      \/ over(l + 2)}

\* Variant: the edit leaves the next file number out.
EditKeepsNext(ver, log) == [current |-> ver, log |-> log,
                            next |-> manifest.next, last |-> versions.last]

Edit(ver, log) == [current |-> ver, log |-> log,
                   next |-> versions.next, last |-> versions.last]

-----------------------------------------------------------------------------
(* Writers.                                                                *)

Init ==
  /\ tables = <<>> /\ logs = <<>>
  /\ manifest = [current |-> NoVersion, log |-> 0, next |-> 2, last |-> 0]
  /\ up = "down" /\ unread = {}
  /\ versions = manifest
  /\ memtable = <<>> /\ mem = 0 /\ imm = 0
  /\ queue = <<>> /\ wop = [w \in Writers |-> NoOp]
  /\ sleeping = {} /\ group = NoGroup /\ stalled = FALSE
  /\ refs = [r \in Readers |-> NoRef]
  /\ bgpc = "idle" /\ number = 0 /\ edit = NoEdit /\ comp = NoMerge
  /\ ends = 0

\* Write, until it waits for its turn.
Write(w) ==
  /\ up = "up" /\ wop[w] = NoOp
  /\ versions.last + Len(queue) < MaxWrites
  /\ \E op \in Ops : wop' = [wop EXCEPT ![w] = op]
  /\ queue' = Append(queue, w)
  /\ sleeping' = IF queue = <<>> THEN sleeping ELSE sleeping \cup {w}
  /\ UNCHANGED <<disk, up, unread, versions, memtable, mem, imm, group, stalled, refs,
                 bg, ends>>

Full == Cardinality(memtable[mem]) >= WriteBuffer
TooManyFiles == Cardinality(versions.current[0]) >= StopWrites

Leading == /\ up = "up" /\ queue # <<>> /\ group = NoGroup
           /\ Head(queue) \notin sleeping /\ ~stalled

\* MakeRoomForWrite waits for the background thread.
WaitForRoom ==
  /\ Leading /\ Full /\ (imm # 0 \/ TooManyFiles)
  /\ stalled' = TRUE
  /\ UNCHANGED <<disk, up, unread, versions, memtable, mem, imm, front, refs, bg, ends>>

\* BuildBatchGroup: the writes of the first writers, numbered in their order.
BuildBatchGroup ==
  \E n \in 1..Len(queue) :
    group' = [pc |-> "log", n |-> n,
              entries |-> {[key |-> wop[queue[i]].key, seq |-> versions.last + i,
                            del |-> wop[queue[i]].del] : i \in 1..n}]

\* The head of the queue has room.
MakeRoomForWrite ==
  /\ Leading /\ ~Full
  /\ BuildBatchGroup
  /\ UNCHANGED <<disk, up, unread, versions, memtable, mem, imm, queue, wop, sleeping,
                 stalled, refs, bg, ends>>

\* The head of the queue makes room: a new log and a new memtable.
SwitchMemTable ==
  /\ Leading /\ Full /\ imm = 0 /\ ~TooManyFiles
  /\ mem' = versions.next
  /\ versions' = [versions EXCEPT !.next = @ + 1]
  /\ logs' = With(logs, versions.next, {})
  /\ imm' = mem
  /\ memtable' = With(memtable, versions.next, {})
  /\ bgpc' = IF bgpc = "idle" THEN "scheduled" ELSE bgpc
  /\ BuildBatchGroup
  /\ UNCHANGED <<tables, manifest, up, unread, queue, wop, sleeping, stalled, refs,
                 number, edit, comp, ends>>

\* log_->AddRecord, without the mutex.
AddRecord ==
  /\ group # NoGroup /\ group.pc = "log"
  /\ logs' = [logs EXCEPT ![mem] = @ \cup group.entries]
  /\ group' = [group EXCEPT !.pc = "insert"]
  /\ UNCHANGED <<tables, manifest, up, unread, versions, memtable, mem, imm, queue, wop,
                 sleeping, stalled, refs, bg, ends>>

\* InsertInto, without the mutex.
InsertInto ==
  /\ group # NoGroup /\ group.pc = "insert"
  /\ memtable' = [memtable EXCEPT ![mem] = @ \cup group.entries]
  /\ group' = [group EXCEPT !.pc = "finish"]
  /\ UNCHANGED <<disk, up, unread, versions, mem, imm, queue, wop, sleeping, stalled,
                 refs, bg, ends>>

\* Variant: only the writers of the group are woken.
FinishWriteQuietly ==
  /\ group # NoGroup /\ group.pc = "finish"
  /\ versions' = [versions EXCEPT !.last = @ + group.n]
  /\ queue' = SubSeq(queue, group.n + 1, Len(queue))
  /\ wop' = [wop EXCEPT ![Head(queue)] = NoOp]
  /\ sleeping' = sleeping \ {queue[i] : i \in 1..group.n}
  /\ group' = NoGroup
  /\ UNCHANGED <<disk, up, unread, memtable, mem, imm, stalled, refs, bg, ends>>

\* The writes become visible, the leader returns, the other writers of the
\* group and the next head of the queue are woken.
FinishWrite ==
  /\ group # NoGroup /\ group.pc = "finish"
  /\ versions' = [versions EXCEPT !.last = @ + group.n]
  /\ queue' = SubSeq(queue, group.n + 1, Len(queue))
  /\ wop' = [wop EXCEPT ![Head(queue)] = NoOp]
  /\ sleeping' = sleeping \ {queue[i] : i \in 1..Min({group.n + 1, Len(queue)})}
  /\ group' = NoGroup
  /\ UNCHANGED <<disk, up, unread, memtable, mem, imm, stalled, refs, bg, ends>>

\* A writer another one wrote for finds w.done.
Done(w) == wop[w] # NoOp /\ \A i \in DOMAIN queue : queue[i] # w
ReturnDone(w) ==
  /\ Done(w) /\ w \notin sleeping
  /\ wop' = [wop EXCEPT ![w] = NoOp]
  /\ UNCHANGED <<disk, up, unread, versions, memtable, mem, imm, queue, sleeping, group,
                 stalled, refs, bg, ends>>

-----------------------------------------------------------------------------
(* Readers.                                                                *)

\* Variant: the read is not limited to what was visible.
GetUnlimited(r) ==
  /\ up = "up" /\ refs[r] = NoRef
  /\ \E k \in Keys :
       refs' = [refs EXCEPT ![r] =
         [key |-> k, snapshot |-> MaxWrites, mem |-> mem, imm |-> imm,
          ver |-> versions.current]]
  /\ UNCHANGED <<disk, up, unread, versions, memtable, mem, imm, front, stalled, bg,
                 ends>>

\* Get takes its snapshot and its references.
Get(r) ==
  /\ up = "up" /\ refs[r] = NoRef
  /\ \E k \in Keys :
       refs' = [refs EXCEPT ![r] =
         [key |-> k, snapshot |-> versions.last, mem |-> mem, imm |-> imm,
          ver |-> versions.current]]
  /\ UNCHANGED <<disk, up, unread, versions, memtable, mem, imm, front, stalled, bg,
                 ends>>

\* What it finds, whenever it looks.
Answer(r) == Lookup(refs[r].key, refs[r].snapshot,
                    Memtables(refs[r].mem, refs[r].imm), refs[r].ver)

\* The memtables somebody still refers to.
Referenced(i, rs) ==
  LET of(r) == IF rs[r] = NoRef THEN {} ELSE {rs[r].mem, rs[r].imm}
      held == {mem, i} \cup UNION {of(r) : r \in Readers}
  IN [n \in DOMAIN memtable \cap held |-> memtable[n]]

\* Get returns; the seeks it cost may call for a compaction.
GetReturns(r) ==
  /\ refs[r] # NoRef
  /\ refs' = [refs EXCEPT ![r] = NoRef]
  /\ \/ bgpc' = bgpc
     \/ bgpc = "idle" /\ bgpc' \in Scheduled(imm, versions.current)
  /\ memtable' = Referenced(imm, refs')
  /\ UNCHANGED <<disk, up, unread, versions, mem, imm, front, stalled, number, edit,
                 comp, ends>>

-----------------------------------------------------------------------------
(* The background thread.                                                  *)

\* CompactMemTable, until it releases the mutex to build the table; a merge
\* that runs may be interrupted for it.
CompactMemTable ==
  /\ bgpc \in {"scheduled", "merge"} /\ imm # 0
  /\ bgpc' = "build" /\ number' = versions.next
  /\ versions' = [versions EXCEPT !.next = @ + 1]
  /\ UNCHANGED <<disk, up, unread, memtable, mem, imm, front, stalled, refs, edit, comp,
                 ends>>

\* Variant: recovery is told to begin after the log of the new memtable.
WriteLevel0TableSkips ==
  /\ bgpc = "build" /\ bgpc' = "log flush"
  /\ tables' = With(tables, number, memtable[imm])
  /\ LET f == File(number, memtable[imm]) IN
     \E l \in MemTableLevels(versions.current, f) :
       edit' = Edit([versions.current EXCEPT ![l] = @ \cup {f}], mem + 1)
  /\ UNCHANGED <<logs, manifest, up, unread, versions, memtable, mem, imm, front,
                 stalled, refs, number, comp, ends>>

\* BuildTable, and LogAndApply until it releases the mutex to write the
\* manifest.  The version the level is picked from is the current one: only
\* this thread installs versions.
WriteLevel0Table ==
  /\ bgpc = "build" /\ bgpc' = "log flush"
  /\ tables' = With(tables, number, memtable[imm])
  /\ LET f == File(number, memtable[imm]) IN
     \E l \in MemTableLevels(versions.current, f) :
       edit' = Edit([versions.current EXCEPT ![l] = @ \cup {f}], mem)
  /\ UNCHANGED <<logs, manifest, up, unread, versions, memtable, mem, imm, front,
                 stalled, refs, number, comp, ends>>

\* LogAndApply writes the edit to the manifest.
LogAndApply ==
  /\ \/ bgpc = "log flush" /\ bgpc' = "install flush"
     \/ bgpc = "log move" /\ bgpc' = "install move"
     \/ bgpc = "log merge" /\ bgpc' = "install merge"
  /\ manifest' = edit
  /\ UNCHANGED <<tables, logs, up, unread, versions, memtable, mem, imm, front,
                 stalled, refs, number, edit, comp, ends>>

\* CompactMemTable, once the manifest is written: back to the merge it
\* interrupted, or to the end of BackgroundCall.
InstallMemTable ==
  /\ bgpc = "install flush"
  /\ versions' = [versions EXCEPT !.current = edit.current, !.log = edit.log]
  /\ imm' = 0
  /\ memtable' = Referenced(0, refs)
  /\ DeleteObsoleteFiles(edit.current, edit.log, comp)
  /\ IF comp.in0 # {} THEN bgpc' = "merge"
     ELSE bgpc' \in Scheduled(0, edit.current)
  /\ number' = 0 /\ edit' = NoEdit /\ stalled' = FALSE
  /\ UNCHANGED <<manifest, up, unread, mem, front, refs, comp, ends>>

\* PickCompaction, when the sizes or the seeks of a level make it choose f.
PickCompaction(ver, l, f) ==
  IF l > 0 THEN {f} ELSE GetOverlappingInputs(ver, 0, f.smallest, f.largest)

\* SetupOtherInputs: the files of level + 1, and more files of the level when
\* that takes no more of level + 1 and the sizes allow it.
Inputs(ver, l, F) ==
  LET G == GetOverlappingInputs(ver, l + 1, Range0(F), Range1(F))
      all == F \cup G
      F2 == GetOverlappingInputs(ver, l, Range0(all), Range1(all))
      G2 == GetOverlappingInputs(ver, l + 1, Range0(F2), Range1(F2))
  IN {<<F, G>>} \cup
     (IF /\ G # {} /\ Cardinality(F2) > Cardinality(F)
         /\ Cardinality(G2) = Cardinality(G)
      THEN {<<F2, G2>>} ELSE {})

IsBaseLevelForKey(ver, l, k) ==
  \A j \in (l + 2)..MaxLevel : \A f \in ver[j] : ~(f.smallest <= k /\ k <= f.largest)

\* What DoCompactionWork does not drop.
Merged(ver, l, F, snapshot) ==
  LET S == UNION {tables[f.number] : f \in F}
      hidden(e) == \E x \in S : x.key = e.key /\ e.seq < x.seq /\ x.seq <= snapshot
      obsolete(e) == e.del /\ e.seq <= snapshot /\ IsBaseLevelForKey(ver, l, e.key)
  IN {e \in S : ~hidden(e) /\ ~obsolete(e)}

\* A single file with nothing below it moves down as it is.
TrivialMove(ver, l, in) ==
  /\ Cardinality(in[1]) = 1 /\ in[2] = {}
  /\ bgpc' = "log move"
  /\ edit' = Edit([ver EXCEPT ![l] = @ \ in[1], ![l + 1] = @ \cup in[1]], versions.log)
  /\ comp' = comp

\* Others are merged, and so is one that would overlap too much two levels below.
StartMerge(ver, l, F, in) ==
  /\ \/ Cardinality(in[1]) > 1 \/ in[2] # {}
     \/ l + 2 <= MaxLevel /\ Overlapping(ver[l + 2], Range0(F), Range1(F)) # {}
  /\ bgpc' = "merge"
  /\ comp' = [level |-> l, in0 |-> in[1], in1 |-> in[2], input |-> ver,
              todo |-> Merged(ver, l, in[1] \cup in[2], versions.last), outs |-> {}]
  /\ edit' = edit

\* BackgroundCompaction picks files.
BackgroundCompaction ==
  /\ bgpc = "scheduled" /\ imm = 0
  /\ \E l \in 0..(MaxLevel - 1) : \E f \in versions.current[l] :
       LET ver == versions.current
           F == PickCompaction(ver, l, f)
       IN \E in \in Inputs(ver, l, F) : TrivialMove(ver, l, in) \/ StartMerge(ver, l, F, in)
  /\ UNCHANGED <<disk, up, unread, versions, memtable, mem, imm, front, stalled, refs,
                 number, ends>>

\* DoCompactionWork writes one output file: a run of the keys that are left.
WriteOutput ==
  /\ bgpc = "merge" /\ comp.todo # {}
  /\ \E last \in {e.key : e \in comp.todo} :
       LET run == {e \in comp.todo : e.key <= last} IN
       /\ tables' = With(tables, versions.next, run)
       /\ comp' = [comp EXCEPT !.todo = @ \ run,
                               !.outs = @ \cup {File(versions.next, run)}]
  /\ versions' = [versions EXCEPT !.next = @ + 1]
  /\ UNCHANGED <<logs, manifest, up, unread, memtable, mem, imm, front, stalled, refs,
                 bgpc, number, edit, ends>>

\* InstallCompactionResults, until LogAndApply releases the mutex.
InstallCompactionResults ==
  /\ bgpc = "merge" /\ comp.todo = {}
  /\ bgpc' = "log merge"
  /\ LET l == comp.level IN
     edit' = Edit([versions.current EXCEPT ![l] = @ \ comp.in0,
                                           ![l + 1] = (@ \ comp.in1) \cup comp.outs],
                  versions.log)
  /\ UNCHANGED <<disk, up, unread, versions, memtable, mem, imm, front, stalled, refs,
                 number, comp, ends>>

\* The merge is done: its inputs are released, the files nobody needs go.
InstallMerge ==
  /\ bgpc = "install merge"
  /\ versions' = [versions EXCEPT !.current = edit.current]
  /\ DeleteObsoleteFiles(edit.current, versions.log, NoMerge)
  /\ bgpc' \in Scheduled(imm, edit.current)
  /\ edit' = NoEdit /\ comp' = NoMerge /\ stalled' = FALSE
  /\ UNCHANGED <<manifest, up, unread, memtable, mem, imm, front, refs, number, ends>>

\* A moved file leaves nothing to delete.
InstallMove ==
  /\ bgpc = "install move"
  /\ versions' = [versions EXCEPT !.current = edit.current]
  /\ bgpc' \in Scheduled(imm, edit.current)
  /\ edit' = NoEdit /\ stalled' = FALSE
  /\ UNCHANGED <<disk, up, unread, memtable, mem, imm, front, refs, number, comp, ends>>

-----------------------------------------------------------------------------
(* The process ends, and DB::Open.                                         *)

End ==
  /\ up # "down" /\ ends < MaxEnds
  /\ up' = "down" /\ ends' = ends + 1 /\ unread' = {}
  /\ versions' = manifest
  /\ memtable' = <<>> /\ mem' = 0 /\ imm' = 0
  /\ queue' = <<>> /\ wop' = [w \in Writers |-> NoOp]
  /\ sleeping' = {} /\ group' = NoGroup /\ stalled' = FALSE
  /\ refs' = [r \in Readers |-> NoRef]
  /\ bgpc' = "idle" /\ number' = 0 /\ edit' = NoEdit /\ comp' = NoMerge
  /\ UNCHANGED disk

\* Variant: the logs are not looked up in the directory.
RecoverUnlisted ==
  /\ up = "down" /\ up' = "recover"
  /\ versions' = [manifest EXCEPT !.next = @ + 1]
  /\ unread' = manifest.log..manifest.next
  /\ UNCHANGED <<disk, memtable, mem, imm, front, stalled, refs, bg, ends>>

\* Recover reads the manifest; one file number goes to the next manifest.
Recover ==
  /\ up = "down" /\ up' = "recover"
  /\ versions' = [manifest EXCEPT !.next = @ + 1]
  /\ unread' = Kept
  /\ UNCHANGED <<disk, memtable, mem, imm, front, stalled, refs, bg, ends>>

\* RecoverLogFile, for the logs in order: the entries become a table of level
\* 0, and MarkFileNumberUsed takes the log's number.
RecoverLogFile ==
  /\ up = "recover"
  /\ \E n \in unread :
       LET S == logs[n]
           t == versions.next
           used == IF S = {} THEN t ELSE t + 1
           seqs == {versions.last} \cup {e.seq : e \in S} IN
       /\ \A m \in unread : n <= m
       /\ unread' = unread \ {n}
       /\ tables' = IF S = {} THEN tables ELSE With(tables, t, S)
       /\ \E m \in seqs :
            /\ \A x \in seqs : x <= m
            /\ versions' = [
                 current |-> IF S = {} THEN versions.current
                             ELSE [versions.current EXCEPT ![0] = @ \cup {File(t, S)}],
                 log     |-> versions.log,
                 next    |-> IF used <= n THEN n + 1 ELSE used,
                 last    |-> m]
  /\ UNCHANGED <<logs, manifest, up, memtable, mem, imm, front, stalled, refs, bg,
                 ends>>

\* Variant: the logs are deleted before the manifest names their tables.
NewLogDeletes ==
  /\ up = "recover" /\ unread = {} /\ up' = "open"
  /\ mem' = versions.next
  /\ logs' = With(<<>>, versions.next, {})
  /\ memtable' = With(<<>>, versions.next, {})
  /\ versions' = [versions EXCEPT !.log = versions.next, !.next = @ + 1]
  /\ UNCHANGED <<tables, manifest, unread, imm, front, stalled, refs, bg, ends>>

\* Open creates its own log.
NewLog ==
  /\ up = "recover" /\ unread = {} /\ up' = "open"
  /\ mem' = versions.next
  /\ logs' = With(logs, versions.next, {})
  /\ memtable' = With(<<>>, versions.next, {})
  /\ versions' = [versions EXCEPT !.log = versions.next, !.next = @ + 1]
  /\ UNCHANGED <<tables, manifest, unread, imm, front, stalled, refs, bg, ends>>

\* LogAndApply writes a new manifest and CURRENT names it.
SetCurrentFile ==
  /\ up = "open" /\ up' = "opened"
  /\ manifest' = versions
  /\ UNCHANGED <<tables, logs, unread, versions, memtable, mem, imm, front, stalled,
                 refs, bg, ends>>

\* The rest of Open.
Open ==
  /\ up = "opened" /\ up' = "up"
  /\ DeleteObsoleteFiles(versions.current, versions.log, comp)
  /\ bgpc' \in Scheduled(0, versions.current)
  /\ UNCHANGED <<manifest, unread, versions, memtable, mem, imm, front, stalled, refs,
                 number, edit, comp, ends>>

-----------------------------------------------------------------------------
Background ==
  \/ CompactMemTable \/ WriteLevel0Table \/ LogAndApply \/ InstallMemTable
  \/ BackgroundCompaction \/ WriteOutput \/ InstallCompactionResults
  \/ InstallMerge \/ InstallMove

Lead == \/ WaitForRoom \/ MakeRoomForWrite \/ SwitchMemTable
        \/ AddRecord \/ InsertInto \/ FinishWrite

Opening == Recover \/ RecoverLogFile \/ NewLog \/ SetCurrentFile \/ Open

Next == \/ \E w \in Writers : Write(w) \/ ReturnDone(w)
        \/ Lead
        \/ \E r \in Readers : Get(r) \/ GetReturns(r)
        \/ Background
        \/ End
        \/ Opening

Spec == Init /\ [][Next]_vars

\* Every thread goes on as long as it can.
FairSpec == /\ Spec
            /\ WF_vars(Lead) /\ WF_vars(Background) /\ WF_vars(Opening)
            /\ \A w \in Writers : WF_vars(ReturnDone(w))

-----------------------------------------------------------------------------
(* Properties.                                                             *)

Entries == [key : Keys, seq : Nat, del : BOOLEAN]
Files == [number : Nat, smallest : Keys, largest : Keys]
VersionType == [Levels -> SUBSET Files]
VersionSetType == [current : VersionType, log : Nat, next : Nat, last : Nat]

\* The type of the state: the files, VersionSet, DBImpl's members and the two
\* sides of its mutex.
TypeOK ==
  /\ DOMAIN tables \subseteq Nat /\ \A n \in DOMAIN tables : tables[n] \subseteq Entries
  /\ DOMAIN logs \subseteq Nat /\ \A n \in DOMAIN logs : logs[n] \subseteq Entries
  /\ manifest \in VersionSetType /\ versions \in VersionSetType /\ edit \in VersionSetType
  /\ up \in {"down", "recover", "open", "opened", "up"}
  /\ unread \subseteq DOMAIN logs
  /\ DOMAIN memtable \subseteq Nat
  /\ \A n \in DOMAIN memtable : memtable[n] \subseteq Entries
  /\ mem \in Nat /\ imm \in Nat /\ number \in Nat
  /\ queue \in Seq(Writers) /\ wop \in [Writers -> Ops \cup {NoOp}]
  /\ sleeping \subseteq Writers /\ stalled \in BOOLEAN
  /\ group = NoGroup \/ /\ group.pc \in {"log", "insert", "finish"}
                         /\ group.n \in 1..Len(queue) /\ group.entries \subseteq Entries
  /\ refs \in [Readers -> [key : Keys, snapshot : Nat, mem : Nat, imm : Nat,
                            ver : VersionType] \cup {NoRef}]
  /\ bgpc \in {"idle", "scheduled", "build", "merge"} \cup
       {"log flush", "log move", "log merge",
        "install flush", "install move", "install merge"}
  /\ comp \in [level : 0..(MaxLevel - 1), in0 : SUBSET Files, in1 : SUBSET Files,
               input : VersionType, todo : SUBSET Entries, outs : SUBSET Files]
  /\ ends \in 0..MaxEnds

\* The database is a dictionary (KeyValueStore): a write takes effect at once
\* when its group finishes, a Get answers what was stored when it began however
\* long it takes and whatever is merged, moved or deleted meanwhile, and when
\* the process ends and comes back, at any point, all that was acknowledged is
\* there and of the writes that were under way a group is there or not.
Store == INSTANCE KeyValueStore WITH
  store <- [k \in Keys |->
              IF up = "up"
              THEN Lookup(k, versions.last, Memtables(mem, imm), versions.current)
              ELSE Recovered(k)],
  count <- IF up = "up" THEN versions.last
           ELSE Max({manifest.last} \cup {e.seq : e \in UNION {logs[n] : n \in Kept}}),
  asked <- [w \in Writers |-> IF Done(w) THEN NoOp ELSE wop[w]],
  answer <- [r \in Readers |->
               IF refs[r] = NoRef THEN NoAnswer
               ELSE [key |-> refs[r].key, value |-> Answer(r)]]

IsDictionary == Store!Spec

\* Below level 0 no two files of a version overlap (the assertion in
\* Builder::MaybeAddFile), although a memtable that is pushed below level 0
\* while a merge runs picks its level without knowing the merge's outputs.
LevelsDisjoint ==
  \A l \in 1..MaxLevel : \A f, g \in versions.current[l] :
    f # g => f.largest < g.smallest \/ g.largest < f.smallest

\* The table files that recovery, a lookup, a merge or an edit relies on.
InUse == Numbers(manifest.current) \cup Numbers(edit.current)
           \cup Live(versions.current, comp)

\* DeleteObsoleteFiles never deletes a file that is needed: not the file of a
\* reader's old version, an output that no version names yet, nor a file the
\* manifest would name after the process ends between two of its steps.
FilesExist == InUse \subseteq DOMAIN tables

\* A table file in use is never written again, although file numbers are
\* handed out anew after the process has ended.
TablesKeep ==
  [][\A n \in InUse : n \in DOMAIN tables' => tables'[n] = tables[n]]_vars

\* The entries of memtable n are in a log that recovery reads, or in a table
\* that the manifest names.
OnDisk(n) ==
  \/ n \in DOMAIN logs /\ n >= manifest.log /\ memtable[n] \subseteq logs[n]
  \/ \E t \in Numbers(manifest.current) :
       t \in DOMAIN tables /\ memtable[n] \subseteq tables[t]

\* Whatever is in memory could be recovered if the process ended now: the log
\* of a memtable is deleted, or skipped, only when its table is in place.
MemoryIsOnDisk == up = "up" => OnDisk(mem) /\ (imm # 0 => OnDisk(imm))

\* Every Write returns, or the process ends: the head of the queue is woken by
\* the writer before it, a stalled one by the background thread, which always
\* gets the memtable out of the way and the number of level-0 files down.
WritesReturn == \A w \in Writers : wop[w] # NoOp ~> wop[w] = NoOp
=============================================================================
