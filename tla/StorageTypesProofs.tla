------------------------ MODULE StorageTypesProofs ------------------------
(***************************************************************************)
(* The state of the storage has its type, for any number of keys, levels,  *)
(* writers, readers, writes and ends of the process.                       *)
(***************************************************************************)
EXTENDS StorageProofs, FiniteSetTheorems, WellFoundedInduction

-----------------------------------------------------------------------------
(* The inductive invariant.  All keys so far are at most B: the range of a *)
(* file is a minimum and a maximum only when they are bounded.             *)

EntriesTo(B) == {e \in Entries : e.key <= B}
FilesTo(B) == {f \in Files : f.smallest <= f.largest /\ f.largest <= B}

VersionsTo(B) ==
  {v \in [Levels -> SUBSET FilesTo(B)] : \A l \in Levels : IsFiniteSet(v[l])}

VersionSetsTo(B) == [current : VersionsTo(B), log : Nat, next : Nat, last : Nat]

Merges(B) == [level : 0..(MaxLevel - 1), in0 : SUBSET FilesTo(B), in1 : SUBSET FilesTo(B),
              input : VersionsTo(B), todo : SUBSET EntriesTo(B), outs : SUBSET FilesTo(B)]

\* Writers in the queue are distinct and have a write; a group is a part of it.
Front(B) ==
  /\ wop \in [Writers -> Ops \cup {NoOp}]
  /\ queue \in Seq(Writers)
  /\ \A i \in 1..Len(queue) : wop[queue[i]] # NoOp /\ wop[queue[i]].key <= B
  /\ \A i, j \in 1..Len(queue) : queue[i] = queue[j] => i = j
  /\ sleeping \subseteq Writers /\ stalled \in BOOLEAN /\ ends \in 0..MaxEnds
  /\ group # NoGroup =>
       /\ group.pc \in {"log", "insert", "finish"}
       /\ group.n \in 1..Len(queue) /\ group.entries \subseteq EntriesTo(B)

\* A memtable is given up only when there is something in it.
Data(B) ==
  /\ DOMAIN tables \subseteq Nat /\ \A n \in DOMAIN tables : tables[n] \subseteq EntriesTo(B)
  /\ DOMAIN logs \subseteq Nat /\ \A n \in DOMAIN logs : logs[n] \subseteq EntriesTo(B)
  /\ DOMAIN memtable \subseteq Nat
  /\ \A n \in DOMAIN memtable : memtable[n] \subseteq EntriesTo(B)
  /\ imm # 0 => memtable[imm] # {}

Versions(B) ==
  /\ manifest \in VersionSetsTo(B) /\ versions \in VersionSetsTo(B)
  /\ edit \in VersionSetsTo(B)
  /\ refs \in [Readers -> [key : Keys, snapshot : Nat, mem : Nat, imm : Nat,
                            ver : VersionsTo(B)] \cup {NoRef}]
  /\ comp \in Merges(B) /\ IsFiniteSet(comp.outs)

TInv == \E B \in Nat : Front(B) /\ Data(B) /\ Versions(B)

-----------------------------------------------------------------------------
(* The ranges of files.                                                   *)

\* A set of naturals has a least member.
LEMMA LeastNatural ==
  ASSUME NEW S, S \subseteq Nat, S # {}
  PROVE  \E x \in S : \A y \in S : x <= y
<1>1. PICK x \in S : \A y \in S : <<y, x>> \notin OpToRel(<, Nat)
  BY NatLessThanWellFounded, WFMin, Zenon
<1>2. \A y \in S : ~(y < x)
  BY <1>1, Zenon DEF OpToRel
<1> QED BY <1>2

\* Min and Max of a bounded set are its least and its greatest member.
LEMMA LeastAndGreatest ==
  ASSUME NEW B \in Nat, NEW S, S \subseteq 0..B, S # {}
  PROVE  /\ Min(S) \in S /\ \A x \in S : Min(S) <= x
         /\ Max(S) \in S /\ \A x \in S : x <= Max(S)
<1>0. S \subseteq Nat
  OBVIOUS
<1>1. \E x \in S : \A y \in S : x <= y
  BY <1>0, LeastNatural, Zenon
<1>2. \E x \in S : \A y \in S : x >= y
  <2>1. {B - x : x \in S} \subseteq Nat
    OBVIOUS
  <2>2. {B - x : x \in S} # {}
    BY Zenon
  <2>3. PICK t \in {B - x : x \in S} : \A u \in {B - x : x \in S} : t <= u
    BY <2>1, <2>2, LeastNatural, Zenon
  <2>4. PICK x \in S : t = B - x
    BY Zenon
  <2>5. \A y \in S : B - x <= B - y
    BY <2>3, <2>4, Zenon
  <2>6. \A y \in S : x >= y
    BY <2>5
  <2> QED BY <2>6, Zenon
<1>3. Min(S) \in S /\ \A x \in S : Min(S) <= x
  BY <1>1, Zenon DEF Min
<1>4. Max(S) \in S /\ \A x \in S : Max(S) >= x
  BY <1>2, Zenon DEF Max
<1> QED BY <1>0, <1>3, <1>4, Zenon

\* Files of a level have ranges of naturals.
LEMMA FileRange ==
  ASSUME NEW B \in Nat, NEW f \in FilesTo(B)
  PROVE  /\ f.number \in Nat /\ f.smallest \in Nat /\ f.largest \in Nat
         /\ f.smallest <= f.largest
BY StorageAssumption, Zenon DEF FilesTo, Files

\* The range of a new table file holds its keys, and begins and ends with one.
LEMMA NewFile ==
  ASSUME NEW B \in Nat, NEW n \in Nat, NEW S, S \subseteq EntriesTo(B), S # {}
  PROVE  /\ File(n, S) \in FilesTo(B) /\ File(n, S).number = n
         /\ \A e \in S : File(n, S).smallest <= e.key /\ e.key <= File(n, S).largest
         /\ \E e \in S : e.key = File(n, S).smallest
         /\ \E e \in S : e.key = File(n, S).largest
<1> DEFINE K == {e.key : e \in S}
<1>0. ASSUME NEW e \in S PROVE e.key \in Keys /\ e.key \in 0..B
  <2>1. e.key \in Keys /\ e.key <= B
    BY Zenon DEF EntriesTo, Entries
  <2>2. e.key \in Nat
    BY <2>1, StorageAssumption, Zenon
  <2> QED BY <2>1, <2>2
<1>1. K \subseteq 0..B /\ K \subseteq Keys /\ K # {}
  BY <1>0
<1>2. /\ Min(K) \in K /\ \A x \in K : Min(K) <= x
      /\ Max(K) \in K /\ \A x \in K : x <= Max(K)
  BY <1>1, LeastAndGreatest, Zenon
<1>3. File(n, S) = [number |-> n, smallest |-> Min(K), largest |-> Max(K)]
  BY Zenon DEF File
<1>4. File(n, S).smallest = Min(K) /\ File(n, S).largest = Max(K) /\ File(n, S).number = n
  BY <1>3
<1>5. /\ Min(K) \in Keys /\ Max(K) \in Keys /\ Min(K) <= Max(K) /\ Max(K) <= B
  BY <1>1, <1>2
<1>6. File(n, S) \in FilesTo(B)
  <2> HIDE DEF K
  <2> QED BY <1>3, <1>4, <1>5 DEF FilesTo, Files
<1>7. \A e \in S : File(n, S).smallest <= e.key /\ e.key <= File(n, S).largest
  BY <1>2, <1>4
<1>8. \E e \in S : e.key = File(n, S).smallest
  BY <1>2, <1>4, Zenon
<1>9. \E e \in S : e.key = File(n, S).largest
  BY <1>2, <1>4, Zenon
<1> QED BY <1>4, <1>6, <1>7, <1>8, <1>9, Zenon

-----------------------------------------------------------------------------
(* Types.                                                                  *)

\* A larger bound on the keys is as good.
LEMMA LargerSets ==
  ASSUME NEW B \in Nat, NEW C \in Nat, B <= C
  PROVE  /\ EntriesTo(B) \subseteq EntriesTo(C) /\ FilesTo(B) \subseteq FilesTo(C)
         /\ VersionsTo(B) \subseteq VersionsTo(C)
         /\ VersionSetsTo(B) \subseteq VersionSetsTo(C)
<1>1. ASSUME NEW e \in EntriesTo(B) PROVE e \in EntriesTo(C)
  <2>1. e.key \in Nat /\ e.key <= B /\ e \in Entries
    BY StorageAssumption, Zenon DEF EntriesTo, Entries
  <2>2. e.key <= C
    BY <2>1
  <2> QED BY <2>1, <2>2 DEF EntriesTo
<1>2. ASSUME NEW f \in FilesTo(B) PROVE f \in FilesTo(C)
  <2>1. f.largest \in Nat /\ f.largest <= B /\ f.smallest <= f.largest /\ f \in Files
    BY FileRange, Zenon DEF FilesTo
  <2>2. f.largest <= C
    BY <2>1
  <2> QED BY <2>1, <2>2 DEF FilesTo
<1>3. ASSUME NEW v \in VersionsTo(B) PROVE v \in VersionsTo(C)
  BY <1>2 DEF VersionsTo
<1>4. ASSUME NEW vs \in VersionSetsTo(B) PROVE vs \in VersionSetsTo(C)
  BY <1>3 DEF VersionSetsTo
<1> QED BY <1>1, <1>2, <1>3, <1>4

LEMMA LargerBound ==
  ASSUME NEW B \in Nat, NEW C \in Nat, B <= C
  PROVE  /\ Front(B) => Front(C)
         /\ Data(B) => Data(C)
         /\ Versions(B) => Versions(C)
<1>1. /\ EntriesTo(B) \subseteq EntriesTo(C) /\ FilesTo(B) \subseteq FilesTo(C)
      /\ VersionsTo(B) \subseteq VersionsTo(C)
      /\ VersionSetsTo(B) \subseteq VersionSetsTo(C)
  BY LargerSets
<1>2. Data(B) => Data(C)
  BY <1>1, Zenon DEF Data
<1>3. ASSUME Versions(B) PROVE Versions(C)
  <2>1. refs \in [Readers -> [key : Keys, snapshot : Nat, mem : Nat, imm : Nat,
                              ver : VersionsTo(C)] \cup {NoRef}]
    BY <1>1, <1>3 DEF Versions
  <2>2. comp \in Merges(C)
    BY <1>1, <1>3 DEF Versions, Merges
  <2> QED BY <1>1, <1>3, <2>1, <2>2, Zenon DEF Versions
<1>4. ASSUME Front(B) PROVE Front(C)
  <2>1. ASSUME NEW i \in 1..Len(queue) PROVE wop[queue[i]].key <= C
    <3>1. wop[queue[i]] # NoOp /\ wop[queue[i]].key <= B /\ queue[i] \in Writers
      BY <1>4 DEF Front
    <3>2. wop[queue[i]].key \in Nat
      BY <1>4, <3>1, StorageAssumption, Zenon DEF Front, Ops
    <3> QED BY <3>1, <3>2
  <2> QED BY <1>1, <1>4, <2>1, Zenon DEF Front
<1> QED BY <1>2, <1>3, <1>4

\* A write that is queued may have a new key.
LEMMA WriteBound ==
  ASSUME NEW B \in Nat, Front(B), NEW w \in Writers, Write(w)
  PROVE  \E C \in Nat : B <= C /\ Front(C)'
<1>1. PICK op \in Ops : wop' = [wop EXCEPT ![w] = op]
  BY Zenon DEF Write
<1>2. op.key \in Nat
  BY StorageAssumption, Zenon DEF Ops
<1>3. PICK C \in Nat : B <= C /\ op.key <= C
  BY <1>2
<1>4. EntriesTo(B) \subseteq EntriesTo(C)
  BY <1>3, LargerSets, Zenon
<1>5. /\ wop[w] = NoOp /\ queue' = Append(queue, w)
      /\ sleeping' \subseteq sleeping \cup {w}
      /\ UNCHANGED <<group, stalled, ends>>
  BY Zenon DEF Write
<1>6. /\ queue' \in Seq(Writers) /\ Len(queue') = Len(queue) + 1 /\ queue'[Len(queue) + 1] = w
      /\ \A i \in 1..Len(queue) : queue'[i] = queue[i]
      /\ Len(queue) \in Nat
  BY <1>5 DEF Front
<1>7. \A i \in 1..Len(queue) : queue[i] # w /\ queue[i] \in Writers
  BY <1>5 DEF Front
<1>8. ASSUME NEW i \in 1..Len(queue')
      PROVE  /\ wop'[queue'[i]] # NoOp /\ wop'[queue'[i]].key <= C
             /\ \A j \in 1..Len(queue') : queue'[i] = queue'[j] => i = j
  <2>1. CASE i = Len(queue) + 1
    <3>1. wop'[queue'[i]] = op
      BY <1>1, <1>6, <2>1, Zenon DEF Front
    <3>2. op # NoOp
      BY NoOpAssumption, Zenon
    <3> QED BY <1>3, <1>6, <1>7, <2>1, <3>1, <3>2
  <2>2. CASE i \in 1..Len(queue)
    <3>1. queue'[i] = queue[i] /\ queue[i] # w /\ queue[i] \in Writers
      BY <1>6, <1>7, <2>2
    <3>2. wop'[queue'[i]] = wop[queue[i]]
      BY <1>1, <3>1 DEF Front
    <3>3. wop[queue[i]] # NoOp /\ wop[queue[i]].key <= B
      BY <2>2 DEF Front
    <3>4. wop[queue[i]].key \in Nat
      BY <3>1, <3>3, StorageAssumption, Zenon DEF Front, Ops
    <3>5. wop[queue[i]].key <= C
      BY <1>3, <3>3, <3>4
    <3>6. \A j \in 1..Len(queue') : queue'[i] = queue'[j] => i = j
      BY <1>6, <1>7, <2>2 DEF Front
    <3> QED BY <3>2, <3>3, <3>5, <3>6
  <2> QED BY <1>6, <2>1, <2>2
<1>9. wop' \in [Writers -> Ops \cup {NoOp}]
  BY <1>1, Zenon DEF Front
<1>10. group' # NoGroup =>
         /\ group'.pc \in {"log", "insert", "finish"}
         /\ group'.n \in 1..Len(queue') /\ group'.entries \subseteq EntriesTo(C)
  BY <1>4, <1>5, <1>6 DEF Front
<1> QED BY <1>3, <1>5, <1>6, <1>8, <1>9, <1>10, Zenon DEF Front

\* The entries of a group have the keys of queued writes.
LEMMA GroupEntries ==
  ASSUME NEW B \in Nat, Front(B), versions.last \in Nat, BuildBatchGroup
  PROVE  /\ group'.pc = "log" /\ group'.n \in 1..Len(queue)
         /\ group'.entries \subseteq EntriesTo(B)
<1>1. PICK n \in 1..Len(queue) :
        group' = [pc |-> "log", n |-> n,
                  entries |-> {[key |-> wop[queue[i]].key, seq |-> versions.last + i,
                                del |-> wop[queue[i]].del] : i \in 1..n}]
  BY Zenon DEF BuildBatchGroup
<1>2. ASSUME NEW i \in 1..n
      PROVE  [key |-> wop[queue[i]].key, seq |-> versions.last + i,
              del |-> wop[queue[i]].del] \in EntriesTo(B)
  <2>1. i \in 1..Len(queue) /\ queue[i] \in Writers
    BY DEF Front
  <2>2. wop[queue[i]] \in Ops /\ wop[queue[i]].key <= B
    BY <2>1, Zenon DEF Front
  <2>3. wop[queue[i]].key \in Keys /\ wop[queue[i]].del \in BOOLEAN
    BY <2>2, Zenon DEF Ops
  <2>4. versions.last + i \in Nat
    OBVIOUS
  <2> QED BY <2>2, <2>3, <2>4 DEF EntriesTo, Entries
<1> QED BY <1>1, <1>2, Zenon

\* The steps that build, write and finish a group, and the writers' returns.
LEMMA FrontStep ==
  ASSUME NEW B \in Nat, Front(B), Versions(B), IInv, [Next]_vars,
         ~ \E w \in Writers : Write(w)
  PROVE  Front(B)'
<1>0. versions.last \in Nat
  BY Zenon DEF Versions, VersionSetsTo
<1>1. CASE MakeRoomForWrite \/ SwitchMemTable
  <2>1. BuildBatchGroup /\ UNCHANGED <<queue, wop, sleeping, stalled, ends>>
    BY <1>1, Zenon DEF MakeRoomForWrite, SwitchMemTable
  <2> QED BY <1>0, <2>1, GroupEntries DEF Front
<1>2. CASE AddRecord \/ InsertInto
  <2>1. /\ group # NoGroup /\ UNCHANGED <<queue, wop, sleeping, stalled, ends>>
        /\ group = [pc |-> group.pc, n |-> group.n, entries |-> group.entries]
        /\ \/ group' = [group EXCEPT !.pc = "insert"]
           \/ group' = [group EXCEPT !.pc = "finish"]
    BY <1>2, Zenon DEF AddRecord, InsertInto, IInv, Memory
  <2>2. group'.pc \in {"insert", "finish"} /\ group'.n = group.n
        /\ group'.entries = group.entries
    BY <2>1
  <2> QED BY <2>1, <2>2, Zenon DEF Front
<1>3. CASE FinishWrite
  <2>1. /\ group # NoGroup /\ group' = NoGroup /\ sleeping' \subseteq sleeping
        /\ queue' = SubSeq(queue, group.n + 1, Len(queue))
        /\ wop' = [wop EXCEPT ![Head(queue)] = NoOp]
        /\ UNCHANGED <<stalled, ends>>
    BY <1>3 DEF FinishWrite
  <2>2. PICK n \in 1..Len(queue) : n = group.n
    BY <2>1 DEF Front
  <2>3. /\ queue' \in Seq(Writers) /\ Len(queue') = Len(queue) - n
        /\ \A i \in 1..Len(queue') : queue'[i] = queue[n + i] /\ n + i \in 2..Len(queue)
    <3>1. queue \in Seq(Writers) /\ queue' = SubSeq(queue, n + 1, Len(queue))
      BY <2>1, <2>2 DEF Front
    <3> QED BY <3>1
  <2>4. Head(queue) = queue[1] /\ 1 \in 1..Len(queue)
    BY DEF Front
  <2>5. wop' \in [Writers -> Ops \cup {NoOp}]
    BY <2>1, Zenon DEF Front
  <2>6. ASSUME NEW i \in 1..Len(queue')
        PROVE  /\ wop'[queue'[i]] # NoOp /\ wop'[queue'[i]].key <= B
               /\ \A j \in 1..Len(queue') : queue'[i] = queue'[j] => i = j
    <3>1. PICK m \in 2..Len(queue) : m = n + i /\ queue'[i] = queue[m]
      BY <2>3, Zenon
    <3>2. m \in 1..Len(queue) /\ m # 1
      BY <3>1
    <3>3. queue[m] \in Writers
      BY <3>2 DEF Front
    <3>4. queue[m] # queue[1] /\ wop[queue[m]] # NoOp /\ wop[queue[m]].key <= B
      BY <2>4, <3>2, Zenon DEF Front
    <3>5. wop'[queue[m]] = wop[queue[m]]
      BY <2>1, <2>4, <3>3, <3>4, Zenon DEF Front
    <3>6. ASSUME NEW j \in 1..Len(queue'), queue'[i] = queue'[j] PROVE i = j
      <4>1. n + j \in 2..Len(queue) /\ queue'[j] = queue[n + j]
        BY <2>3
      <4>2. n + j \in 1..Len(queue)
        BY <4>1
      <4>3. m = n + j
        BY <3>1, <3>2, <3>6, <4>1, <4>2, Zenon DEF Front
      <4> QED BY <3>1, <4>3
    <3> QED BY <3>1, <3>4, <3>5, <3>6, Zenon
  <2> QED BY <2>1, <2>3, <2>5, <2>6, Zenon DEF Front
<1>4. ASSUME NEW w \in Writers, ReturnDone(w) PROVE Front(B)'
  <2>1. /\ wop' = [wop EXCEPT ![w] = NoOp] /\ UNCHANGED <<queue, sleeping, group, stalled, ends>>
        /\ \A i \in 1..Len(queue) : queue[i] # w
    BY <1>4 DEF ReturnDone, Done, Front
  <2>2. \A i \in 1..Len(queue) : wop'[queue[i]] = wop[queue[i]]
    BY <2>1 DEF Front
  <2>3. wop' \in [Writers -> Ops \cup {NoOp}]
    BY <2>1, Zenon DEF Front
  <2> QED BY <2>1, <2>2, <2>3 DEF Front
<1>5. CASE End
  <2>1. /\ queue' = <<>> /\ wop' = [w \in Writers |-> NoOp] /\ sleeping' = {}
        /\ group' = NoGroup /\ stalled' = FALSE /\ ends' = ends + 1 /\ ends < MaxEnds
    BY <1>5, Zenon DEF End
  <2>2. ends' \in 0..MaxEnds
    BY <2>1, StorageAssumption DEF Front
  <2>3. Len(queue') = 0 /\ queue' \in Seq(Writers)
    BY <2>1
  <2>4. wop' \in [Writers -> Ops \cup {NoOp}]
    BY <2>1, Zenon
  <2>5. \A i \in 1..Len(queue') : FALSE
    BY <2>3
  <2> QED BY <2>1, <2>2, <2>3, <2>4, <2>5, Zenon DEF Front
<1>6. CASE UNCHANGED <<queue, wop, sleeping, group, ends>> /\ stalled' \in {stalled, TRUE, FALSE}
  BY <1>6, Zenon DEF Front
<1>7. CASE WaitForRoom \/ (\E r \in Readers : Get(r) \/ GetReturns(r)) \/ Background
           \/ Opening \/ UNCHANGED vars
  <2>1. UNCHANGED <<queue, wop, sleeping, group, ends>> /\ stalled' \in {stalled, TRUE, FALSE}
    BY <1>7, Zenon DEF WaitForRoom, Get, GetReturns, Background, CompactMemTable, WriteLevel0Table,
         LogAndApply, InstallMemTable, BackgroundCompaction, WriteOutput,
         InstallCompactionResults, InstallMerge, InstallMove, Opening, Recover,
         RecoverLogFile, NewLog, SetCurrentFile, Open, vars, front
  <2> QED BY <1>6, <2>1, Zenon
<1> QED BY <1>1, <1>2, <1>3, <1>4, <1>5, <1>7 DEF Next, Lead

\* A file more, or fewer files.
LEMMA WithFile ==
  ASSUME NEW f, NEW n \in Nat, NEW S, NEW E, DOMAIN f \subseteq Nat,
         \A x \in DOMAIN f : f[x] \subseteq E, S \subseteq E
  PROVE  /\ DOMAIN With(f, n, S) \subseteq Nat
         /\ \A x \in DOMAIN With(f, n, S) : With(f, n, S)[x] \subseteq E
BY Zenon DEF With

LEMMA FewerFiles ==
  ASSUME NEW f, NEW D, NEW E, DOMAIN f \subseteq Nat, D \subseteq DOMAIN f,
         \A x \in DOMAIN f : f[x] \subseteq E
  PROVE  /\ DOMAIN [x \in D |-> f[x]] \subseteq Nat
         /\ \A y \in DOMAIN [x \in D |-> f[x]] : [x \in D |-> f[x]][y] \subseteq E
BY Zenon

LEMMA DeletedFiles ==
  ASSUME NEW B \in Nat, Data(B), NEW v, NEW log, NEW c, DeleteObsoleteFiles(v, log, c)
  PROVE  /\ DOMAIN tables' \subseteq Nat
         /\ \A n \in DOMAIN tables' : tables'[n] \subseteq EntriesTo(B)
         /\ DOMAIN logs' \subseteq Nat
         /\ \A n \in DOMAIN logs' : logs'[n] \subseteq EntriesTo(B)
<1>1. /\ tables' = [n \in DOMAIN tables \cap Live(v, c) |-> tables[n]]
      /\ logs' = [n \in {x \in DOMAIN logs : x >= log} |-> logs[n]]
  BY Zenon DEF DeleteObsoleteFiles
<1>2. /\ DOMAIN tables \subseteq Nat /\ \A n \in DOMAIN tables : tables[n] \subseteq EntriesTo(B)
      /\ DOMAIN logs \subseteq Nat /\ \A n \in DOMAIN logs : logs[n] \subseteq EntriesTo(B)
  BY DEF Data
<1>3. DOMAIN tables \cap Live(v, c) \subseteq DOMAIN tables
      /\ {x \in DOMAIN logs : x >= log} \subseteq DOMAIN logs
  OBVIOUS
<1> QED BY <1>1, <1>2, <1>3, FewerFiles, Zenon

\* The memtables that are kept.
LEMMA KeptMemtables ==
  ASSUME NEW B \in Nat, Data(B), NEW i, NEW rs, memtable' = Referenced(i, rs)
  PROVE  /\ DOMAIN memtable' \subseteq Nat
         /\ \A n \in DOMAIN memtable' : memtable'[n] \subseteq EntriesTo(B)
         /\ i \in DOMAIN memtable => memtable'[i] = memtable[i]
<1>1. PICK D : D \subseteq DOMAIN memtable /\ memtable' = [n \in D |-> memtable[n]]
               /\ (i \in DOMAIN memtable => i \in D)
  BY Zenon DEF Referenced
<1> QED BY <1>1, FewerFiles DEF Data

\* Tables, logs and memtables hold entries, and what is flushed is not empty.
LEMMA DataStep ==
  ASSUME NEW B \in Nat, Front(B), Data(B), Versions(B), IInv, [Next]_vars
  PROVE  Data(B)'
<1> DEFINE E == EntriesTo(B)
<1>0. /\ versions.next \in Nat /\ mem \in Nat /\ imm \in Nat /\ number \in Nat
      /\ {} \subseteq E
  BY Zenon DEF IInv, Shape, IsVersionSet
<1>1. CASE SwitchMemTable
  <2>1. /\ Full /\ imm' = mem /\ tables' = tables
        /\ logs' = With(logs, versions.next, {})
        /\ memtable' = With(memtable, versions.next, {}) /\ up = "up"
    BY <1>1 DEF SwitchMemTable, Leading
  <2>2. mem \in DOMAIN memtable /\ mem # versions.next
    BY <1>0, <2>1 DEF IInv, Memory
  <2>3. memtable[mem] # {}
    BY <2>1, FS_EmptySet, StorageAssumption DEF Full
  <2>4. memtable'[imm'] # {}
    BY <2>1, <2>2, <2>3, Zenon DEF With
  <2> QED BY <1>0, <2>1, <2>4, WithFile, Zenon DEF Data
<1>2. CASE AddRecord
  <2>1. /\ logs' = [logs EXCEPT ![mem] = @ \cup group.entries]
        /\ UNCHANGED <<tables, memtable, imm>> /\ group # NoGroup
    BY <1>2, Zenon DEF AddRecord
  <2>2. group.entries \subseteq E
    BY <2>1, Zenon DEF Front
  <2> QED BY <2>1, <2>2, Zenon DEF Data
<1>3. CASE InsertInto
  <2>1. /\ memtable' = [memtable EXCEPT ![mem] = @ \cup group.entries]
        /\ UNCHANGED <<tables, logs, imm>> /\ group # NoGroup
    BY <1>3, Zenon DEF InsertInto, disk
  <2>2. group.entries \subseteq E
    BY <2>1 DEF Front
  <2>3. imm # 0 => imm # mem /\ imm \in DOMAIN memtable
    BY <1>0 DEF IInv, Memory
  <2> QED BY <2>1, <2>2, <2>3, Zenon DEF Data
<1>4. ASSUME NEW r \in Readers, GetReturns(r) PROVE Data(B)'
  <2>1. /\ memtable' = Referenced(imm, refs') /\ UNCHANGED <<tables, logs, imm>>
    BY <1>4 DEF GetReturns, disk
  <2>2. imm # 0 => imm \in DOMAIN memtable
    BY DEF IInv, Memory
  <2> QED BY <2>1, <2>2, KeptMemtables, Zenon DEF Data
<1>5. CASE WriteLevel0Table
  <2>1. /\ tables' = With(tables, number, memtable[imm]) /\ bgpc = "build"
        /\ UNCHANGED <<logs, memtable, imm>>
    BY <1>5, Zenon DEF WriteLevel0Table
  <2>2. imm \in DOMAIN memtable
    BY <2>1 DEF IInv, Memory, Flushing
  <2>3. memtable[imm] \subseteq E
    BY <2>2 DEF Data
  <2> QED BY <1>0, <2>1, <2>3, WithFile, Zenon DEF Data
<1>6. CASE InstallMemTable
  <2>1. /\ imm' = 0 /\ memtable' = Referenced(0, refs)
        /\ DeleteObsoleteFiles(edit.current, edit.log, comp)
    BY <1>6, Zenon DEF InstallMemTable
  <2> QED BY <2>1, KeptMemtables, DeletedFiles, Zenon DEF Data
<1>7. CASE WriteOutput
  <2>1. PICK run : /\ run \subseteq comp.todo /\ tables' = With(tables, versions.next, run)
                   /\ UNCHANGED <<logs, memtable, imm>>
    BY <1>7, Zenon DEF WriteOutput
  <2>2. run \subseteq E
    BY <2>1, Zenon DEF Versions, Merges
  <2> QED BY <1>0, <2>1, <2>2, WithFile, Zenon DEF Data
<1>8. CASE InstallMerge
  <2>1. /\ DeleteObsoleteFiles(edit.current, versions.log, NoMerge)
        /\ UNCHANGED <<memtable, imm>>
    BY <1>8, Zenon DEF InstallMerge
  <2> QED BY <2>1, DeletedFiles, Zenon DEF Data
<1>9. CASE End
  <2>1. memtable' = <<>> /\ imm' = 0 /\ UNCHANGED <<tables, logs>>
    BY <1>9 DEF End, disk
  <2>2. DOMAIN memtable' = {}
    BY <2>1
  <2> QED BY <2>1, <2>2, Zenon DEF Data
<1>10. CASE RecoverLogFile
  <2>1. PICK n \in unread :
          /\ tables' = IF logs[n] = {} THEN tables ELSE With(tables, versions.next, logs[n])
          /\ UNCHANGED <<logs, memtable, imm>>
    BY <1>10, Zenon DEF RecoverLogFile
  <2>2. logs[n] \subseteq E
    BY Zenon DEF IInv, Shape, Data
  <2> QED BY <1>0, <2>1, <2>2, WithFile, Zenon DEF Data
<1>11. CASE NewLog
  <2>1. /\ logs' = With(logs, versions.next, {}) /\ tables' = tables /\ imm' = imm
        /\ memtable' = With(<<>>, versions.next, {}) /\ up = "recover"
    BY <1>11 DEF NewLog
  <2>2. imm = 0
    BY <2>1 DEF IInv, Phases
  <2>3. DOMAIN <<>> = {}
    OBVIOUS
  <2> QED BY <1>0, <2>1, <2>2, <2>3, WithFile, Zenon DEF Data
<1>12. CASE Open
  <2>1. /\ DeleteObsoleteFiles(versions.current, versions.log, comp)
        /\ UNCHANGED <<memtable, imm>>
    BY <1>12 DEF Open
  <2> QED BY <2>1, DeletedFiles, Zenon DEF Data
<1>13. CASE UNCHANGED <<tables, logs, memtable, imm>>
  BY <1>13, Zenon DEF Data
<1>14. CASE \/ \E w \in Writers : Write(w) \/ ReturnDone(w)
            \/ WaitForRoom \/ MakeRoomForWrite \/ FinishWrite
            \/ \E r \in Readers : Get(r)
            \/ CompactMemTable \/ LogAndApply \/ BackgroundCompaction
            \/ InstallCompactionResults \/ InstallMove
            \/ Recover \/ SetCurrentFile \/ UNCHANGED vars
  <2>1. UNCHANGED <<tables, logs, memtable, imm>>
    BY <1>14, Zenon DEF Write, ReturnDone, WaitForRoom, MakeRoomForWrite, FinishWrite, Get,
         CompactMemTable, LogAndApply, BackgroundCompaction, InstallCompactionResults,
         InstallMove, Recover, SetCurrentFile, vars, disk
  <2> QED BY <1>13, <2>1
<1> QED BY <1>1, <1>2, <1>3, <1>4, <1>5, <1>6, <1>7, <1>8, <1>9, <1>10, <1>11, <1>12,
          <1>14, Zenon DEF Next, Lead, Background, Opening

\* One more file at a level.
Adds(B, v, l, f, w) ==
  /\ w \in VersionsTo(B) /\ w[l] = v[l] \cup {f}
  /\ \A k \in Levels : k # l => w[k] = v[k]

LEMMA OneMoreFile ==
  ASSUME NEW B \in Nat, NEW v \in VersionsTo(B), NEW l \in Levels, NEW f \in FilesTo(B),
         NEW w, w = [v EXCEPT ![l] = @ \cup {f}]
  PROVE  Adds(B, v, l, f, w)
<1>1. v \in [Levels -> SUBSET FilesTo(B)] /\ \A k \in Levels : IsFiniteSet(v[k])
  BY DEF VersionsTo
<1>2. w \in [Levels -> SUBSET FilesTo(B)]
  BY <1>1
<1>3. w[l] = v[l] \cup {f} /\ \A k \in Levels : k # l => w[k] = v[k]
  BY <1>1
<1>4. IsFiniteSet(v[l] \cup {f})
  BY <1>1, FS_AddElement, Zenon
<1>5. \A k \in Levels : IsFiniteSet(w[k])
  BY <1>1, <1>3, <1>4, Zenon
<1>6. w \in VersionsTo(B)
  BY <1>2, <1>5, Zenon DEF VersionsTo
<1> QED BY <1>3, <1>6, Zenon DEF Adds

\* The version a merge makes.
LEMMA MergedVersion ==
  ASSUME NEW B \in Nat, Versions(B), InstallCompactionResults
  PROVE  \E w \in VersionsTo(B), l \in 0..(MaxLevel - 1) :
           /\ l = comp.level /\ edit' = Edit(w, versions.log)
           /\ w[l] = versions.current[l] \ comp.in0
           /\ w[l + 1] = (versions.current[l + 1] \ comp.in1) \cup comp.outs
           /\ \A k \in Levels : k # l /\ k # l + 1 => w[k] = versions.current[k]
<1>a. /\ versions.current \in VersionsTo(B) /\ comp.level \in 0..(MaxLevel - 1)
      /\ comp.outs \subseteq FilesTo(B) /\ IsFiniteSet(comp.outs)
  BY Zenon DEF Versions, VersionSetsTo, Merges
<1>b. PICK v \in VersionsTo(B), l \in 0..(MaxLevel - 1) : v = versions.current /\ l = comp.level
  BY <1>a, Zenon
<1>c. PICK A, R, S : A = comp.in0 /\ R = comp.in1 /\ S = comp.outs
  BY Zenon
<1>d. PICK w : w = [v EXCEPT ![l] = @ \ A, ![l + 1] = (@ \ R) \cup S]
  BY Zenon
<1>e. edit' = Edit(w, versions.log)
  BY <1>b, <1>c, <1>d, Zenon DEF InstallCompactionResults
<1>f. S \subseteq FilesTo(B) /\ IsFiniteSet(S)
  BY <1>a, <1>c, Zenon
<1>0. l \in Levels /\ l + 1 \in Levels /\ l # l + 1
  BY StorageAssumption DEF Levels
<1>1. v \in [Levels -> SUBSET FilesTo(B)] /\ \A k \in Levels : IsFiniteSet(v[k])
  BY DEF VersionsTo
<1>2. /\ w[l] = v[l] \ A /\ w[l + 1] = (v[l + 1] \ R) \cup S
      /\ \A k \in Levels : k # l /\ k # l + 1 => w[k] = v[k]
  BY <1>d, <1>0, <1>1
<1>3. w \in [Levels -> SUBSET FilesTo(B)]
  BY <1>d, <1>f, <1>0, <1>1
<1>4. IsFiniteSet(v[l] \ A) /\ IsFiniteSet(v[l + 1] \ R)
  BY <1>0, <1>1, FS_Difference, Zenon
<1>5. IsFiniteSet((v[l + 1] \ R) \cup S)
  BY <1>f, <1>4, FS_Union, Zenon
<1>6. \A k \in Levels : IsFiniteSet(w[k])
  BY <1>1, <1>2, <1>4, <1>5, Zenon
<1>7. w \in VersionsTo(B)
  BY <1>3, <1>6, Zenon DEF VersionsTo
<1>8. /\ l = comp.level /\ w[l] = versions.current[l] \ comp.in0
      /\ w[l + 1] = (versions.current[l + 1] \ comp.in1) \cup comp.outs
      /\ \A k \in Levels : k # l /\ k # l + 1 => w[k] = versions.current[k]
  BY <1>b, <1>c, <1>2, Zenon
<1> QED BY <1>e, <1>7, <1>8, Zenon

\* A file that moves down.
Moves(B, v, l, S, w) ==
  /\ w \in VersionsTo(B) /\ w[l] = v[l] \ S /\ w[l + 1] = v[l + 1] \cup S
  /\ \A k \in Levels : k # l /\ k # l + 1 => w[k] = v[k]

LEMMA MovedFiles ==
  ASSUME NEW B \in Nat, NEW v \in VersionsTo(B), NEW l \in 0..(MaxLevel - 1),
         NEW S, S \subseteq v[l], NEW w, w = [v EXCEPT ![l] = @ \ S, ![l + 1] = @ \cup S]
  PROVE  Moves(B, v, l, S, w)
<1>0. l \in Levels /\ l + 1 \in Levels /\ l # l + 1
  BY StorageAssumption DEF Levels
<1>1. v \in [Levels -> SUBSET FilesTo(B)] /\ \A k \in Levels : IsFiniteSet(v[k])
  BY Zenon DEF VersionsTo
<1>2. /\ w[l] = v[l] \ S /\ w[l + 1] = v[l + 1] \cup S
      /\ \A k \in Levels : k # l /\ k # l + 1 => w[k] = v[k]
  BY <1>0, <1>1
<1>3. w \in [Levels -> SUBSET FilesTo(B)]
  BY <1>0, <1>1
<1>4. IsFiniteSet(S) /\ IsFiniteSet(v[l] \ S)
  BY <1>0, <1>1, FS_Subset, FS_Difference, Zenon
<1>5. IsFiniteSet(v[l + 1] \cup S)
  BY <1>0, <1>1, <1>4, FS_Union, Zenon
<1>6. \A k \in Levels : IsFiniteSet(w[k])
  BY <1>1, <1>2, <1>4, <1>5, Zenon
<1>7. w \in VersionsTo(B)
  BY <1>3, <1>6, Zenon DEF VersionsTo
<1> QED BY <1>2, <1>7, Zenon DEF Moves

\* The version a trivial move makes.
LEMMA MovedVersion ==
  ASSUME NEW B \in Nat, Versions(B), NEW l \in 0..(MaxLevel - 1), NEW in,
         in[1] \subseteq versions.current[l], TrivialMove(versions.current, l, in)
  PROVE  \E w \in VersionsTo(B) :
           edit' = Edit(w, versions.log) /\ Moves(B, versions.current, l, in[1], w)
<1>1. PICK v \in VersionsTo(B) : v = versions.current
  BY Zenon DEF Versions, VersionSetsTo
<1>2. PICK S : S = in[1]
  BY Zenon
<1>3. PICK w : w = [v EXCEPT ![l] = @ \ S, ![l + 1] = @ \cup S]
  BY Zenon
<1>4. edit' = Edit(w, versions.log) /\ S \subseteq v[l]
  BY <1>1, <1>2, <1>3, Zenon DEF TrivialMove
<1>5. Moves(B, v, l, S, w)
  BY <1>3, <1>4, MovedFiles, Zenon
<1> QED BY <1>1, <1>2, <1>4, <1>5, Zenon DEF Moves

\* No version, no edit and no merge.
LEMMA NothingTyped ==
  ASSUME NEW B \in Nat
  PROVE  /\ NoVersion \in VersionsTo(B) /\ NoEdit \in VersionSetsTo(B)
         /\ NoMerge \in Merges(B) /\ IsFiniteSet(NoMerge.outs)
<1>1. NoVersion \in VersionsTo(B)
  BY FS_EmptySet DEF NoVersion, VersionsTo
<1>2. NoEdit \in VersionSetsTo(B)
  BY <1>1 DEF NoEdit, VersionSetsTo
<1>3. 0 \in 0..(MaxLevel - 1)
  BY StorageAssumption
<1> QED BY <1>1, <1>2, <1>3, FS_EmptySet DEF NoMerge, Merges

\* A file that has been written is a file with a range.
LEMMA OneFile ==
  ASSUME NEW B \in Nat, NEW f \in FilesTo(B)
  PROVE  {f} \subseteq FilesTo(B) /\ IsFiniteSet({f})
BY FS_Singleton, Zenon

\* An edit takes over the counters.
LEMMA EditTyped ==
  ASSUME NEW B \in Nat, versions \in VersionSetsTo(B), NEW v \in VersionsTo(B), NEW log \in Nat
  PROVE  Edit(v, log) \in VersionSetsTo(B)
BY Zenon DEF Edit, VersionSetsTo

\* The entries a merge keeps are entries of its inputs.
LEMMA MergedEntries ==
  ASSUME NEW B \in Nat, Data(B), NEW v, NEW l, NEW F, NEW s,
         \A f \in F : f.number \in DOMAIN tables
  PROVE  /\ Merged(v, l, F, s) \subseteq EntriesTo(B)
         /\ \A e \in Merged(v, l, F, s) : \E f \in F : e \in tables[f.number]
<1>1. \A e \in Merged(v, l, F, s) : \E f \in F : e \in tables[f.number]
  BY Zenon DEF Merged
<1>2. \A n \in DOMAIN tables : tables[n] \subseteq EntriesTo(B)
  BY Zenon DEF Data
<1> QED BY <1>1, <1>2, Zenon

\* The files of the current version exist.
LEMMA CurrentFilesExist ==
  ASSUME IInv, NEW l \in Levels, NEW f \in versions.current[l]
  PROVE  f.number \in DOMAIN tables /\ f.number \in InUse
BY Zenon DEF IInv, FilesExist, InUse, Live, Numbers

\* The inputs of a compaction.
LEMMA InputsInVersion ==
  ASSUME NEW v, NEW l \in 0..(MaxLevel - 1), NEW f \in v[l],
         NEW in \in Inputs(v, l, PickCompaction(v, l, f))
  PROVE  in[1] \subseteq v[l] /\ in[2] \subseteq v[l + 1]
<1>1. \A lo, hi : GetOverlappingInputs(v, l, lo, hi) \subseteq v[l]
  BY DEF GetOverlappingInputs, Overlapping
<1>2. \A lo, hi : GetOverlappingInputs(v, l + 1, lo, hi) \subseteq v[l + 1]
  BY DEF GetOverlappingInputs, Overlapping
<1>3. PickCompaction(v, l, f) \subseteq v[l]
  <2>1. CASE l > 0
    BY <2>1 DEF PickCompaction
  <2>2. CASE l = 0
    BY <1>1, <2>2 DEF PickCompaction
  <2> QED BY <2>1, <2>2
<1>4. in[1] \subseteq v[l]
  BY <1>3, InputsAreFiles, Zenon
<1>5. \E lo, hi : in[2] = GetOverlappingInputs(v, l + 1, lo, hi)
  <2>1. PICK F : in = <<F, GetOverlappingInputs(v, l + 1, Range0(F), Range1(F))>>
    BY Zenon DEF Inputs
  <2>2. in[2] = GetOverlappingInputs(v, l + 1, Range0(F), Range1(F))
    BY <2>1
  <2> QED BY <2>2, Zenon
<1> QED BY <1>2, <1>4, <1>5, Zenon

LEMMA InputsTyped ==
  ASSUME NEW B \in Nat, Data(B), Versions(B), IInv, NEW l \in 0..(MaxLevel - 1),
         NEW f \in versions.current[l],
         NEW in \in Inputs(versions.current, l, PickCompaction(versions.current, l, f)),
         StartMerge(versions.current, l, PickCompaction(versions.current, l, f), in)
  PROVE  comp' \in Merges(B) /\ comp'.outs = {}
<1> DEFINE v == versions.current
<1>1. v \in VersionsTo(B)
  BY Zenon DEF Versions, VersionSetsTo
<1>2. l \in Levels /\ l + 1 \in Levels
  BY StorageAssumption DEF Levels
<1>3. in[1] \subseteq v[l] /\ in[2] \subseteq v[l + 1]
  BY InputsInVersion, Zenon
<1>4. \A g \in in[1] \cup in[2] : g \in FilesTo(B) /\ g.number \in DOMAIN tables
  BY <1>1, <1>2, <1>3, CurrentFilesExist, Zenon DEF VersionsTo
<1>5. Merged(v, l, in[1] \cup in[2], versions.last) \subseteq EntriesTo(B)
  BY <1>4, MergedEntries, Zenon
<1>6. comp' = [level |-> l, in0 |-> in[1], in1 |-> in[2], input |-> v,
               todo |-> Merged(v, l, in[1] \cup in[2], versions.last), outs |-> {}]
  BY Zenon DEF StartMerge
<1> HIDE DEF v
<1> QED BY <1>1, <1>4, <1>5, <1>6, Zenon DEF Merges

RefsTo(B) == [Readers -> [key : Keys, snapshot : Nat, mem : Nat, imm : Nat,
                          ver : VersionsTo(B)] \cup {NoRef}]

\* Version sets that take their versions from each other, and readers that begin
\* and end.
LEMMA SimpleVersions ==
  ASSUME NEW B \in Nat, Versions(B),
         manifest' \in {manifest, versions, edit},
         \/ versions' \in {versions, manifest}
         \/ /\ versions' \in [current : {versions.current, manifest.current, edit.current},
                              log : Nat, next : Nat, last : Nat],
         edit' \in {edit, NoEdit}, comp' \in {comp, NoMerge},
         refs' \in RefsTo(B)
  PROVE  Versions(B)'
<1>1. /\ NoEdit \in VersionSetsTo(B) /\ NoMerge \in Merges(B) /\ IsFiniteSet(NoMerge.outs)
  BY NothingTyped, Zenon
<1>2. /\ manifest \in VersionSetsTo(B) /\ versions \in VersionSetsTo(B)
      /\ edit \in VersionSetsTo(B) /\ comp \in Merges(B) /\ IsFiniteSet(comp.outs)
  BY Zenon DEF Versions
<1>3. versions' \in VersionSetsTo(B)
  BY <1>2 DEF VersionSetsTo
<1>4. manifest' \in VersionSetsTo(B) /\ edit' \in VersionSetsTo(B)
  BY <1>1, <1>2, Zenon
<1>5. comp' \in Merges(B) /\ IsFiniteSet(comp'.outs)
  BY <1>1, <1>2, Zenon
<1> QED BY <1>3, <1>4, <1>5, Zenon DEF Versions, RefsTo

\* Steps that make no version.
LEMMA SimpleSteps ==
  ASSUME NEW B \in Nat, Front(B), Data(B), Versions(B), IInv, Next,
         ~(WriteLevel0Table \/ BackgroundCompaction \/ WriteOutput
           \/ InstallCompactionResults \/ RecoverLogFile)
  PROVE  Versions(B)'
<1>0. /\ versions = [current |-> versions.current, log |-> versions.log,
                     next |-> versions.next, last |-> versions.last]
      /\ manifest = [current |-> manifest.current, log |-> manifest.log,
                     next |-> manifest.next, last |-> manifest.last]
      /\ versions.log \in Nat /\ versions.next \in Nat /\ versions.last \in Nat
      /\ manifest.log \in Nat /\ manifest.next \in Nat /\ manifest.last \in Nat
      /\ edit.log \in Nat /\ mem \in Nat /\ imm \in Nat
      /\ versions.current \in VersionsTo(B)
  BY DEF Versions, VersionSetsTo, IInv, Shape
<1>1. refs \in RefsTo(B)
  BY Zenon DEF Versions, RefsTo
<1>2. CASE FinishWrite
  <2>1. /\ group # NoGroup /\ versions' = [versions EXCEPT !.last = @ + group.n]
        /\ UNCHANGED <<manifest, edit, comp, refs>>
    BY <1>2 DEF FinishWrite, disk, bg
  <2>2. group.n \in Nat
    BY <2>1 DEF Front
  <2>3. versions' \in [current : {versions.current, manifest.current, edit.current},
                       log : Nat, next : Nat, last : Nat]
    BY <1>0, <2>1, <2>2
  <2> QED BY <1>1, <2>1, <2>3, SimpleVersions, Zenon
<1>3. CASE SwitchMemTable \/ CompactMemTable
  <2>1. /\ versions' = [versions EXCEPT !.next = @ + 1]
        /\ UNCHANGED <<manifest, edit, comp, refs>>
    BY <1>3 DEF SwitchMemTable, CompactMemTable, disk
  <2>2. versions' \in [current : {versions.current, manifest.current, edit.current},
                       log : Nat, next : Nat, last : Nat]
    BY <1>0, <2>1
  <2> QED BY <1>1, <2>1, <2>2, SimpleVersions, Zenon
<1>4. ASSUME NEW r \in Readers, Get(r) \/ GetReturns(r) PROVE Versions(B)'
  <2>1. UNCHANGED <<manifest, versions, edit, comp>>
    BY <1>4, Zenon DEF Get, GetReturns, disk, bg
  <2>2. CASE Get(r)
    <3>1. PICK k \in Keys :
            refs' = [refs EXCEPT ![r] =
              [key |-> k, snapshot |-> versions.last, mem |-> mem, imm |-> imm,
               ver |-> versions.current]]
      BY <2>2, Zenon DEF Get
    <3>2. refs' \in RefsTo(B)
      BY <1>0, <1>1, <3>1, Zenon DEF RefsTo
    <3> QED BY <2>1, <3>2, SimpleVersions, Zenon
  <2>3. CASE GetReturns(r)
    <3>1. refs' = [refs EXCEPT ![r] = NoRef]
      BY <2>3, Zenon DEF GetReturns
    <3>2. refs' \in RefsTo(B)
      BY <1>1, <3>1 DEF RefsTo
    <3> QED BY <2>1, <3>2, SimpleVersions, Zenon
  <2> QED BY <1>4, <2>2, <2>3, Zenon
<1>5. CASE InstallMemTable \/ InstallMerge \/ InstallMove
  <2>1. /\ edit' = NoEdit /\ comp' \in {comp, NoMerge} /\ UNCHANGED <<manifest, refs>>
        /\ \/ versions' = [versions EXCEPT !.current = edit.current, !.log = edit.log]
           \/ versions' = [versions EXCEPT !.current = edit.current]
    BY <1>5, Zenon DEF InstallMemTable, InstallMerge, InstallMove, disk
  <2>2. versions' \in [current : {versions.current, manifest.current, edit.current},
                       log : Nat, next : Nat, last : Nat]
    BY <1>0, <2>1, Zenon
  <2> QED BY <1>1, <2>1, <2>2, SimpleVersions, Zenon
<1>6. CASE End
  <2>1. /\ versions' = manifest /\ manifest' = manifest /\ edit' = NoEdit /\ comp' = NoMerge
        /\ refs' = [r \in Readers |-> NoRef]
    BY <1>6 DEF End, disk
  <2>2. refs' \in RefsTo(B)
    BY <2>1 DEF RefsTo
  <2> QED BY <2>1, <2>2, SimpleVersions, Zenon
<1>7. CASE Recover \/ NewLog
  <2>1. CASE Recover
    <3>1. versions' = [manifest EXCEPT !.next = @ + 1] /\ UNCHANGED <<manifest, edit, comp, refs>>
      BY <2>1 DEF Recover, disk, bg
    <3>2. versions' \in [current : {versions.current, manifest.current, edit.current},
                         log : Nat, next : Nat, last : Nat]
      BY <1>0, <3>1
    <3> QED BY <1>1, <3>1, <3>2, SimpleVersions, Zenon
  <2>2. CASE NewLog
    <3>1. /\ versions' = [versions EXCEPT !.log = versions.next, !.next = @ + 1]
          /\ UNCHANGED <<manifest, edit, comp, refs>>
      BY <2>2, Zenon DEF NewLog, bg
    <3>2. versions' \in [current : {versions.current, manifest.current, edit.current},
                         log : Nat, next : Nat, last : Nat]
      <4>1. versions' = [current |-> versions.current, log |-> versions.next,
                         next |-> versions.next + 1, last |-> versions.last]
        BY <1>0, <3>1, Zenon
      <4> QED BY <1>0, <4>1
    <3> QED BY <1>1, <3>1, <3>2, SimpleVersions, Zenon
  <2> QED BY <1>7, <2>1, <2>2
<1>8. CASE \/ \E w \in Writers : Write(w) \/ ReturnDone(w)
           \/ WaitForRoom \/ MakeRoomForWrite \/ AddRecord \/ InsertInto
           \/ LogAndApply \/ SetCurrentFile \/ Open
  <2>1. /\ manifest' \in {manifest, versions, edit}
        /\ UNCHANGED <<versions, edit, comp, refs>>
    BY <1>8, Zenon DEF Write, ReturnDone, WaitForRoom, MakeRoomForWrite, AddRecord, InsertInto,
         LogAndApply, SetCurrentFile, Open, disk, bg
  <2> QED BY <1>1, <2>1, SimpleVersions, Zenon
<1> QED BY <1>2, <1>3, <1>4, <1>5, <1>6, <1>7, <1>8, Zenon DEF Next, Lead, Background, Opening

\* What a flush writes.
LEMMA FlushedFile ==
  ASSUME NEW B \in Nat, Data(B), Versions(B), IInv, WriteLevel0Table
  PROVE  \E f \in FilesTo(B), l \in Levels, w \in VersionsTo(B) :
           /\ f.number = number
           /\ \A e \in memtable[imm] : f.smallest <= e.key /\ e.key <= f.largest
           /\ l \in MemTableLevels(versions.current, f)
           /\ edit' = Edit(w, mem) /\ Adds(B, versions.current, l, f, w)
<1>1. bgpc = "build" /\ imm # 0 /\ number \in Nat /\ imm \in DOMAIN memtable
  BY Zenon DEF WriteLevel0Table, IInv, Memory, Flushing, Shape
<1>2. memtable[imm] \subseteq EntriesTo(B) /\ memtable[imm] # {}
  BY <1>1 DEF Data
<1>3. PICK f : f = File(number, memtable[imm])
  BY Zenon
<1>4. /\ f \in FilesTo(B) /\ f.number = number
      /\ \A e \in memtable[imm] : f.smallest <= e.key /\ e.key <= f.largest
  <2>1. PICK n \in Nat, S \in SUBSET EntriesTo(B) : n = number /\ S = memtable[imm] /\ S # {}
    BY <1>1, <1>2, Zenon
  <2>2. f = File(n, S)
    BY <1>3, <2>1, Zenon
  <2>3. f \in FilesTo(B) /\ f.number = n /\ \A e \in S : f.smallest <= e.key /\ e.key <= f.largest
    BY <2>1, <2>2, NewFile
  <2> QED BY <2>1, <2>3, Zenon
<1>5. PICK l \in MemTableLevels(versions.current, f) :
        edit' = Edit([versions.current EXCEPT ![l] = @ \cup {f}], mem)
  BY <1>3, Zenon DEF WriteLevel0Table
<1>6. l \in Levels
  BY <1>5, StorageAssumption DEF MemTableLevels, Levels
<1>7. PICK v \in VersionsTo(B) : v = versions.current
  BY Zenon DEF Versions, VersionSetsTo
<1>8. PICK w : w = [v EXCEPT ![l] = @ \cup {f}]
  BY Zenon
<1>9. Adds(B, v, l, f, w)
  BY <1>4, <1>6, <1>8, OneMoreFile, Zenon
<1>10. edit' = Edit(w, mem)
  BY <1>5, <1>7, <1>8, Zenon
<1> QED BY <1>4, <1>5, <1>6, <1>7, <1>9, <1>10, Zenon DEF Adds

\* What a merge writes.
LEMMA OutputFile ==
  ASSUME NEW B \in Nat, Versions(B), WriteOutput
  PROVE  \E f \in FilesTo(B), run \in SUBSET comp.todo, last \in Nat :
           /\ run = {e \in comp.todo : e.key <= last} /\ run # {}
           /\ f.number = versions.next
           /\ \A e \in run : f.smallest <= e.key /\ e.key <= f.largest
           /\ \E e \in run : e.key = f.smallest
           /\ \E e \in run : e.key = f.largest
           /\ tables' = With(tables, versions.next, run)
           /\ comp' = [comp EXCEPT !.todo = @ \ run, !.outs = @ \cup {f}]
<1>1. PICK last \in {e.key : e \in comp.todo} :
        LET run == {e \in comp.todo : e.key <= last} IN
        /\ tables' = With(tables, versions.next, run)
        /\ comp' = [comp EXCEPT !.todo = @ \ run,
                                !.outs = @ \cup {File(versions.next, run)}]
  BY Zenon DEF WriteOutput
<1>2. PICK run : run = {e \in comp.todo : e.key <= last}
  BY Zenon
<1>3. comp.todo \subseteq EntriesTo(B) /\ versions.next \in Nat
  BY Zenon DEF Versions, Merges, VersionSetsTo
<1>4. PICK x \in comp.todo : last = x.key
  BY Zenon
<1>5. last \in Nat
  BY <1>3, <1>4, StorageAssumption, Zenon DEF EntriesTo, Entries
<1>6. x \in run /\ run \subseteq comp.todo
  BY <1>2, <1>4, <1>5
<1>7. PICK f : f = File(versions.next, run)
  BY Zenon
<1>8. run \subseteq EntriesTo(B) /\ run # {}
  BY <1>3, <1>6, Zenon
<1>9. /\ f \in FilesTo(B) /\ f.number = versions.next
      /\ \A e \in run : f.smallest <= e.key /\ e.key <= f.largest
      /\ \E e \in run : e.key = f.smallest
      /\ \E e \in run : e.key = f.largest
  BY <1>3, <1>7, <1>8, NewFile
<1>10. /\ tables' = With(tables, versions.next, run)
       /\ comp' = [comp EXCEPT !.todo = @ \ run, !.outs = @ \cup {f}]
  BY <1>1, <1>2, <1>7, Zenon
<1> QED BY <1>2, <1>5, <1>6, <1>8, <1>9, <1>10, Zenon

\* What recovery makes of a log.
LEMMA RecoveredLog ==
  ASSUME NEW B \in Nat, Data(B), Versions(B), IInv, RecoverLogFile
  PROVE  /\ versions' \in VersionSetsTo(B)
         /\ \/ tables' = tables /\ versions'.current = versions.current
            \/ \E f \in FilesTo(B), S \in SUBSET EntriesTo(B) :
                 /\ f.number = versions.next
                 /\ \A e \in S : f.smallest <= e.key /\ e.key <= f.largest
                 /\ tables' = With(tables, versions.next, S)
                 /\ Adds(B, versions.current, 0, f, versions'.current)
<1>0. /\ versions.current \in VersionsTo(B) /\ versions.log \in Nat
      /\ versions.next \in Nat /\ versions.last \in Nat /\ unread \subseteq DOMAIN logs
      /\ 0 \in Levels /\ DOMAIN logs \subseteq Nat
  BY StorageAssumption DEF Versions, VersionSetsTo, IInv, Shape, Levels
<1>1. PICK n \in unread :
        LET S == logs[n]
            t == versions.next
            used == IF S = {} THEN t ELSE t + 1
            seqs == {versions.last} \cup {e.seq : e \in S} IN
        /\ tables' = IF S = {} THEN tables ELSE With(tables, t, S)
        /\ \E m \in seqs :
             versions' = [
               current |-> IF S = {} THEN versions.current
                           ELSE [versions.current EXCEPT ![0] = @ \cup {File(t, S)}],
               log     |-> versions.log,
               next    |-> IF used <= n THEN n + 1 ELSE used,
               last    |-> m]
  BY Zenon DEF RecoverLogFile
<1>2. PICK S : S = logs[n]
  BY Zenon
<1>3. n \in Nat /\ S \subseteq EntriesTo(B)
  BY <1>0, <1>2, Zenon DEF Data
<1>4. PICK m \in {versions.last} \cup {e.seq : e \in S}, k \in Nat :
        versions' = [
          current |-> IF S = {} THEN versions.current
                      ELSE [versions.current EXCEPT ![0] = @ \cup {File(versions.next, S)}],
          log     |-> versions.log,
          next    |-> k,
          last    |-> m]
  <2>1. PICK used \in Nat : used = IF S = {} THEN versions.next ELSE versions.next + 1
    BY <1>0
  <2>2. PICK k \in Nat : k = IF used <= n THEN n + 1 ELSE used
    BY <1>3
  <2> QED BY <1>1, <1>2, <2>1, <2>2, Zenon
<1>5. m \in Nat
  BY <1>0, <1>3 DEF EntriesTo, Entries
<1>6. CASE S = {}
  <2>1. tables' = tables
    BY <1>1, <1>2, <1>6, Zenon
  <2>2. versions' = [current |-> versions.current, log |-> versions.log, next |-> k,
                     last |-> m]
    BY <1>4, <1>6, Zenon
  <2> QED BY <1>0, <1>5, <2>1, <2>2 DEF VersionSetsTo
<1>7. CASE S # {}
  <2>1. PICK f : f = File(versions.next, S)
    BY Zenon
  <2>2. /\ f \in FilesTo(B) /\ f.number = versions.next
        /\ \A e \in S : f.smallest <= e.key /\ e.key <= f.largest
    BY <1>0, <1>3, <1>7, <2>1, NewFile
  <2>3. PICK v : v = [versions.current EXCEPT ![0] = @ \cup {f}]
    BY Zenon
  <2>4. Adds(B, versions.current, 0, f, v)
    <3>1. PICK cur \in VersionsTo(B) : cur = versions.current
      BY <1>0, Zenon
    <3>2. v = [cur EXCEPT ![0] = @ \cup {f}]
      BY <2>3, <3>1, Zenon
    <3>3. Adds(B, cur, 0, f, v)
      BY <1>0, <2>2, <3>2, OneMoreFile, Zenon
    <3> QED BY <3>1, <3>3, Zenon
  <2>5. versions' = [current |-> v, log |-> versions.log, next |-> k, last |-> m]
    BY <1>4, <1>7, <2>1, <2>3, Zenon
  <2>6. tables' = With(tables, versions.next, S)
    BY <1>1, <1>2, <1>7, Zenon
  <2>7. versions' \in VersionSetsTo(B) /\ versions'.current = v
    BY <1>0, <1>5, <2>4, <2>5 DEF VersionSetsTo, Adds
  <2> QED BY <1>3, <2>2, <2>4, <2>6, <2>7, Zenon
<1> QED BY <1>6, <1>7

\* Versions hold files with ranges.
LEMMA VersionsStep ==
  ASSUME NEW B \in Nat, Front(B), Data(B), Versions(B), IInv, [Next]_vars
  PROVE  Versions(B)'
<1>0. /\ versions \in VersionSetsTo(B) /\ versions.current \in VersionsTo(B)
      /\ versions.log \in Nat /\ mem \in Nat /\ comp \in Merges(B) /\ IsFiniteSet(comp.outs)
  BY DEF Versions, VersionSetsTo, IInv, Shape
<1>1. CASE WriteLevel0Table
  <2>1. PICK w \in VersionsTo(B) : edit' = Edit(w, mem)
    BY <1>1, FlushedFile, Zenon
  <2>3. edit' \in VersionSetsTo(B)
    BY <1>0, <2>1, EditTyped, Zenon
  <2>4. UNCHANGED <<manifest, versions, refs, comp>>
    BY <1>1, Zenon DEF WriteLevel0Table
  <2> QED BY <2>3, <2>4, Zenon DEF Versions
<1>2. CASE BackgroundCompaction
  <2>1. PICK l \in 0..(MaxLevel - 1) : \E f \in versions.current[l] :
          \E in \in Inputs(versions.current, l, PickCompaction(versions.current, l, f)) :
            \/ TrivialMove(versions.current, l, in)
            \/ StartMerge(versions.current, l, PickCompaction(versions.current, l, f), in)
    BY <1>2, Zenon DEF BackgroundCompaction
  <2>2. PICK f \in versions.current[l] :
          \E in \in Inputs(versions.current, l, PickCompaction(versions.current, l, f)) :
            \/ TrivialMove(versions.current, l, in)
            \/ StartMerge(versions.current, l, PickCompaction(versions.current, l, f), in)
    BY <2>1, Zenon
  <2> PICK in \in Inputs(versions.current, l, PickCompaction(versions.current, l, f)) :
          \/ TrivialMove(versions.current, l, in)
          \/ StartMerge(versions.current, l, PickCompaction(versions.current, l, f), in)
    BY <2>2, Zenon
  <2>3. UNCHANGED <<manifest, versions, refs>>
    BY <1>2, Zenon DEF BackgroundCompaction, disk
  <2>4. CASE TrivialMove(versions.current, l, in)
    <3>1. in[1] \subseteq versions.current[l]
      BY InputsInVersion, Zenon
    <3>2. PICK w \in VersionsTo(B) : edit' = Edit(w, versions.log)
      BY <2>4, <3>1, MovedVersion, Zenon
    <3>4. comp' = comp
      BY <2>4, Zenon DEF TrivialMove
    <3>5. edit' \in VersionSetsTo(B)
      BY <1>0, <3>2, EditTyped, Zenon
    <3> QED BY <2>3, <3>4, <3>5, Zenon DEF Versions
  <2>5. CASE StartMerge(versions.current, l, PickCompaction(versions.current, l, f), in)
    <3>1. comp' \in Merges(B) /\ comp'.outs = {}
      BY <2>5, InputsTyped, Zenon
    <3>2. IsFiniteSet(comp'.outs)
      BY <3>1, FS_EmptySet, Zenon
    <3>3. edit' = edit
      BY <2>5, Zenon DEF StartMerge
    <3> QED BY <2>3, <3>1, <3>2, <3>3, Zenon DEF Versions
  <2> QED BY <2>4, <2>5, Zenon
<1>3. CASE WriteOutput
  <2>1. PICK f \in FilesTo(B), run \in SUBSET comp.todo :
          comp' = [comp EXCEPT !.todo = @ \ run, !.outs = @ \cup {f}]
    BY <1>3, OutputFile, Zenon
  <2>2. comp' \in Merges(B) /\ comp'.outs = comp.outs \cup {f}
    BY <1>0, <2>1, Zenon DEF Merges
  <2>3. IsFiniteSet(comp'.outs)
    BY <1>0, <2>2, FS_AddElement
  <2>4. /\ UNCHANGED <<manifest, refs, edit>>
        /\ versions' = [versions EXCEPT !.next = @ + 1]
    BY <1>3, Zenon DEF WriteOutput
  <2>5. versions' \in VersionSetsTo(B)
    BY <1>0, <2>4 DEF VersionSetsTo
  <2> QED BY <2>2, <2>3, <2>4, <2>5, Zenon DEF Versions
<1>4. CASE InstallCompactionResults
  <2>1. PICK w \in VersionsTo(B) : edit' = Edit(w, versions.log)
    BY <1>4, MergedVersion, Zenon
  <2>5. edit' \in VersionSetsTo(B)
    BY <1>0, <2>1, EditTyped, Zenon
  <2>6. UNCHANGED <<manifest, versions, refs, comp>>
    BY <1>4, Zenon DEF InstallCompactionResults, disk
  <2> QED BY <2>5, <2>6, Zenon DEF Versions
<1>5. CASE RecoverLogFile
  <2>1. versions' \in VersionSetsTo(B)
    BY <1>5, RecoveredLog, Zenon
  <2>2. UNCHANGED <<manifest, refs, edit, comp>>
    BY <1>5, Zenon DEF RecoverLogFile, bg
  <2> QED BY <2>1, <2>2, Zenon DEF Versions
<1>6. CASE UNCHANGED vars
  BY <1>6, Zenon DEF Versions, vars
<1> QED BY <1>1, <1>2, <1>3, <1>4, <1>5, <1>6, SimpleSteps, Zenon

-----------------------------------------------------------------------------
(* The types hold and are kept.                                            *)

LEMMA InitTInv == Init => TInv
<1> SUFFICES ASSUME Init PROVE Front(0) /\ Data(0) /\ Versions(0)
  BY Zenon DEF TInv
<1>1. Front(0)
  <2>1. queue = <<>> /\ wop = [w \in Writers |-> NoOp] /\ sleeping = {} /\ group = NoGroup
        /\ stalled = FALSE /\ ends = 0
    BY Zenon DEF Init
  <2>2. ends \in 0..MaxEnds
    BY <2>1, StorageAssumption
  <2>3. queue \in Seq(Writers) /\ 1..Len(queue) = {}
    BY <2>1
  <2>4. wop \in [Writers -> Ops \cup {NoOp}]
    BY <2>1, Zenon
  <2> QED BY <2>1, <2>2, <2>3, <2>4, Zenon DEF Front
<1>2. Data(0)
  BY DEF Init, Data
<1>3. Versions(0)
  <2>1. /\ NoVersion \in VersionsTo(0) /\ NoEdit \in VersionSetsTo(0)
        /\ NoMerge \in Merges(0) /\ IsFiniteSet(NoMerge.outs)
    BY NothingTyped
  <2>2. manifest \in VersionSetsTo(0) /\ versions = manifest
    BY <2>1 DEF Init, VersionSetsTo
  <2>3. edit = NoEdit /\ comp = NoMerge /\ refs = [r \in Readers |-> NoRef]
    BY Zenon DEF Init
  <2> QED BY <2>1, <2>2, <2>3 DEF Versions
<1> QED BY <1>1, <1>2, <1>3

\* A step finds a bound on the keys, the same one unless a write is queued.
LEMMA TypeStep ==
  ASSUME IInv, TInv, [Next]_vars
  PROVE  TInv'
<1>1. PICK B \in Nat : Front(B) /\ Data(B) /\ Versions(B)
  BY Zenon DEF TInv
<1>2. CASE \E w \in Writers : Write(w)
  <2>1. PICK C \in Nat : B <= C /\ Front(C)'
    BY <1>1, <1>2, WriteBound, Zenon
  <2>2. Front(C) /\ Data(C) /\ Versions(C)
    BY <1>1, <2>1, LargerBound, Zenon
  <2>3. Data(C)' /\ Versions(C)'
    BY <2>2, DataStep, VersionsStep, Zenon
  <2> QED BY <2>1, <2>3, Zenon DEF TInv
<1>3. CASE ~ \E w \in Writers : Write(w)
  <2>1. Front(B)'
    BY <1>1, <1>3, FrontStep, Zenon
  <2>2. Data(B)' /\ Versions(B)'
    BY <1>1, DataStep, VersionsStep, Zenon
  <2> QED BY <2>1, <2>2, Zenon DEF TInv
<1> QED BY <1>2, <1>3

\* Both invariants hold in every state.
LEMMA AlwaysTyped == Spec => [](IInv /\ TInv)
<1>1. Init => IInv /\ TInv
  BY InitIInv, InitTInv
<1>2. IInv /\ TInv /\ [Next]_vars => (IInv /\ TInv)'
  BY NextStep, TypeStep
<1> QED BY <1>1, <1>2, PTL DEF Spec

\* The files on the disk, VersionSet and the members of DBImpl have their types
\* in every state, with the writers' queue, the readers' references and the
\* background thread at any point, and while DB::Open recovers.
THEOREM TypeCorrect == Spec => []TypeOK
<1>1. ASSUME IInv, TInv PROVE TypeOK
  <2>1. PICK B \in Nat : Front(B) /\ Data(B) /\ Versions(B)
    BY <1>1, Zenon DEF TInv
  <2>2. EntriesTo(B) \subseteq Entries /\ FilesTo(B) \subseteq Files
    BY Zenon DEF EntriesTo, FilesTo
  <2>3. VersionsTo(B) \subseteq VersionType
    BY <2>2 DEF VersionsTo, VersionType
  <2>4. VersionSetsTo(B) \subseteq VersionSetType
    BY <2>3 DEF VersionSetsTo, VersionSetType
  <2>5. /\ manifest \in VersionSetType /\ versions \in VersionSetType
        /\ edit \in VersionSetType
    BY <2>1, <2>4, Zenon DEF Versions
  <2>6. refs \in [Readers -> [key : Keys, snapshot : Nat, mem : Nat, imm : Nat,
                              ver : VersionType] \cup {NoRef}]
    BY <2>1, <2>3 DEF Versions
  <2>7. comp \in [level : 0..(MaxLevel - 1), in0 : SUBSET Files, in1 : SUBSET Files,
                  input : VersionType, todo : SUBSET Entries, outs : SUBSET Files]
    BY <2>1, <2>2, <2>3 DEF Versions, Merges
  <2>8. /\ DOMAIN tables \subseteq Nat /\ \A n \in DOMAIN tables : tables[n] \subseteq Entries
        /\ DOMAIN logs \subseteq Nat /\ \A n \in DOMAIN logs : logs[n] \subseteq Entries
        /\ DOMAIN memtable \subseteq Nat
        /\ \A n \in DOMAIN memtable : memtable[n] \subseteq Entries
    BY <2>1, <2>2, Zenon DEF Data
  <2>9. /\ queue \in Seq(Writers) /\ wop \in [Writers -> Ops \cup {NoOp}]
        /\ sleeping \subseteq Writers /\ stalled \in BOOLEAN /\ ends \in 0..MaxEnds
        /\ group = NoGroup \/ /\ group.pc \in {"log", "insert", "finish"}
                              /\ group.n \in 1..Len(queue) /\ group.entries \subseteq Entries
    BY <2>1, <2>2, Zenon DEF Front
  <2>10. /\ up \in {"down", "recover", "open", "opened", "up"}
         /\ bgpc \in {"idle", "scheduled", "build", "merge"} \cup
              {"log flush", "log move", "log merge",
               "install flush", "install move", "install merge"}
    BY <1>1, Zenon DEF IInv, Phases, Flushing, Logging, Installing
  <2>11. unread \subseteq DOMAIN logs /\ mem \in Nat /\ imm \in Nat /\ number \in Nat
    BY <1>1, Zenon DEF IInv, Shape
  <2> QED BY <2>5, <2>6, <2>7, <2>8, <2>9, <2>10, <2>11, Zenon DEF TypeOK
<1> QED BY <1>1, AlwaysTyped, PTL
=============================================================================
