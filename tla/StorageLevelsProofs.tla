------------------------ MODULE StorageLevelsProofs ------------------------
(***************************************************************************)
(* The files of a level below 0 never overlap, for any number of keys,     *)
(* levels, writers, readers, writes and ends of the process.               *)
(***************************************************************************)
EXTENDS StorageTypesProofs

-----------------------------------------------------------------------------
(* The inductive invariant.                                                *)

\* The range of a file that a version or a merge names holds its keys.
Named(f) == \/ f \in comp.outs
            \/ \E l \in Levels : \/ f \in manifest.current[l] \/ f \in versions.current[l]
                                 \/ f \in edit.current[l]
HoldsKeys(f) == f.number \in DOMAIN tables =>
                  \A e \in tables[f.number] : f.smallest <= e.key /\ e.key <= f.largest
Ranges == /\ \A f \in comp.outs : HoldsKeys(f)
          /\ \A l \in Levels :
               \A f \in manifest.current[l] \cup versions.current[l] \cup edit.current[l] :
                 HoldsKeys(f)

Apart(f, g) == f.largest < g.smallest \/ g.largest < f.smallest
Disjoint(v) == \A l \in 1..MaxLevel : \A f, g \in v[l] : f # g => Apart(f, g)

\* k is in the range of the files S; a convex S has no gap in its range.
Within(k, S) == \E f, g \in S : f.smallest <= k /\ k <= g.largest
Covered(k, S) == \E f \in S : f.smallest <= k /\ k <= f.largest
Convex(S) == \A k \in Nat : Within(k, S) => Covered(k, S)

\* The inputs of merge c are files of version v, and no other file of the level
\* the outputs go to overlaps one of them.
InputsOf(c) == c.in0 \cup c.in1
Fits(c, v) ==
  /\ c.in0 \subseteq v[c.level] /\ c.in1 \subseteq v[c.level + 1]
  /\ \A g \in v[c.level + 1] \ c.in1 : \A f \in InputsOf(c) : Apart(f, g)

\* What is left of a merge and its outputs stay in the range of its inputs.
Merging(c) ==
  /\ Convex(InputsOf(c))
  /\ \A e \in c.todo : Within(e.key, InputsOf(c))
  /\ \A f \in c.outs : Within(f.smallest, InputsOf(c)) /\ Within(f.largest, InputsOf(c))
  /\ \A f, g \in c.outs : f # g => Apart(f, g)
  /\ \A f \in c.outs : \A e \in c.todo : f.largest < e.key

Overlaps ==
  /\ Disjoint(manifest.current) /\ Disjoint(versions.current) /\ Disjoint(edit.current)
  /\ Merging(comp)
  /\ Fits(comp, versions.current)
  /\ bgpc \in {"log flush", "install flush"} => Fits(comp, edit.current)
  /\ bgpc \in {"idle", "scheduled", "log move", "install move"} => comp = NoMerge
  /\ comp.in0 = {} => comp = NoMerge

LInv == Ranges /\ Overlaps

-----------------------------------------------------------------------------
(* Ranges.                                                                 *)

\* The range of the files of a merge.
LEMMA RangeOf ==
  ASSUME NEW B \in Nat, NEW F, F \subseteq FilesTo(B), F # {}
  PROVE  /\ Range0(F) \in Nat /\ Range1(F) \in Nat
         /\ \A f \in F : Range0(F) <= f.smallest /\ f.largest <= Range1(F)
         /\ \A k \in Range0(F)..Range1(F) : Within(k, F)
<1> DEFINE Lo == {f.smallest : f \in F}
           Hi == {f.largest : f \in F}
<1>0. \A f \in F : f.smallest \in 0..B /\ f.largest \in 0..B
  BY FileRange DEF FilesTo
<1>1. Lo \subseteq 0..B /\ Hi \subseteq 0..B /\ Lo # {} /\ Hi # {}
  BY <1>0
<1>2. /\ Min(Lo) \in Lo /\ \A x \in Lo : Min(Lo) <= x
      /\ Max(Hi) \in Hi /\ \A x \in Hi : x <= Max(Hi)
  BY <1>1, LeastAndGreatest, Zenon
<1>3. Range0(F) = Min(Lo) /\ Range1(F) = Max(Hi)
  BY DEF Range0, Range1
<1>4. PICK f \in F, g \in F : f.smallest = Range0(F) /\ g.largest = Range1(F)
  BY <1>2, <1>3, Zenon
<1>5. \A k \in Range0(F)..Range1(F) : Within(k, F)
  BY <1>4 DEF Within
<1> QED BY <1>1, <1>2, <1>3, <1>5

\* GetOverlappingInputs takes all files that overlap the range, and leaves no
\* gap between the range and what it takes.
LEMMA Overlapped ==
  ASSUME NEW B \in Nat, NEW v \in VersionsTo(B), NEW l \in Levels,
         NEW lo \in Nat, NEW hi \in Nat
  PROVE  LET T == GetOverlappingInputs(v, l, lo, hi) IN
         /\ T \subseteq v[l] /\ Overlapping(v[l], lo, hi) \subseteq T
         /\ \A k \in Nat : ~Covered(k, T) =>
              /\ k < lo => \A f \in T : k < f.smallest
              /\ k > hi => \A f \in T : f.largest < k
<1> DEFINE T == GetOverlappingInputs(v, l, lo, hi)
           first == Overlapping(v[l], lo, hi)
           Closed(S) == \A f \in S : Overlapping(v[l], f.smallest, f.largest) \subseteq S
<1>0. v[l] \subseteq FilesTo(B)
  BY DEF VersionsTo
<1>1. CASE l > 0
  <2>1. T = first
    BY <1>1 DEF GetOverlappingInputs
  <2> QED BY <1>0, <2>1, FileRange DEF Overlapping, Covered
<1>2. CASE l = 0
  <2>1. T = {f \in v[l] : \A S \in SUBSET v[l] : first \subseteq S /\ Closed(S) => f \in S}
    BY <1>2 DEF GetOverlappingInputs
  <2>2. first \subseteq T /\ T \subseteq v[l]
    BY <2>1 DEF Overlapping
  <2>3. Closed(T)
    <3>1. ASSUME NEW f \in T, NEW g \in Overlapping(v[l], f.smallest, f.largest) PROVE g \in T
      <4>1. g \in v[l]
        BY DEF Overlapping
      <4>2. ASSUME NEW S \in SUBSET v[l], first \subseteq S, Closed(S) PROVE g \in S
        BY <2>1, <4>2
      <4> HIDE DEF Closed, first
      <4> QED BY <2>1, <4>1, <4>2
    <3> QED BY <3>1
  <2>4. ASSUME NEW k \in Nat, ~Covered(k, T), k < lo, NEW f \in T PROVE k < f.smallest
    <3> DEFINE S == {g \in T : k < g.smallest}
    <3>1. first \subseteq S
      BY <1>0, <2>2, <2>4, FileRange DEF Overlapping, Covered
    <3>2. ASSUME NEW g \in S, NEW h \in Overlapping(v[l], g.smallest, g.largest) PROVE h \in S
      <4>1. h \in T /\ h.largest >= g.smallest /\ h \in FilesTo(B) /\ g \in FilesTo(B)
        BY <1>0, <2>2, <2>3 DEF Overlapping
      <4> QED BY <2>4, <4>1, FileRange DEF Covered
    <3>3. S \in SUBSET v[l] /\ Closed(S)
      BY <2>2, <3>2
    <3> HIDE DEF S, Closed, first
    <3>4. f \in S
      BY <2>1, <3>1, <3>3
    <3> QED BY <3>4 DEF S
  <2>5. ASSUME NEW k \in Nat, ~Covered(k, T), k > hi, NEW f \in T PROVE f.largest < k
    <3> DEFINE S == {g \in T : g.largest < k}
    <3>1. first \subseteq S
      BY <1>0, <2>2, <2>5, FileRange DEF Overlapping, Covered
    <3>2. ASSUME NEW g \in S, NEW h \in Overlapping(v[l], g.smallest, g.largest) PROVE h \in S
      <4>1. h \in T /\ h.smallest <= g.largest /\ h \in FilesTo(B) /\ g \in FilesTo(B)
        BY <1>0, <2>2, <2>3 DEF Overlapping
      <4> QED BY <2>5, <4>1, FileRange DEF Covered
    <3>3. S \in SUBSET v[l] /\ Closed(S)
      BY <2>2, <3>2
    <3> HIDE DEF S, Closed, first
    <3>4. f \in S
      BY <2>1, <3>1, <3>3
    <3> QED BY <3>4 DEF S
  <2> HIDE DEF T, first
  <2> QED BY <2>2, <2>4, <2>5 DEF T, first
<1> QED BY <1>1, <1>2, StorageAssumption DEF Levels

\* Files S within a range that S and the files that overlap it cover.
LEMMA WidenedIsConvex ==
  ASSUME NEW B \in Nat, NEW v \in VersionsTo(B), NEW l \in Levels,
         NEW lo \in Nat, NEW hi \in Nat, NEW S,
         \A f \in S : lo <= f.smallest /\ f.largest <= hi,
         S \subseteq FilesTo(B),
         \A k \in lo..hi : Covered(k, S \cup GetOverlappingInputs(v, l, lo, hi))
  PROVE  Convex(S \cup GetOverlappingInputs(v, l, lo, hi))
<1> DEFINE T == GetOverlappingInputs(v, l, lo, hi)
<1>1. /\ T \subseteq v[l] /\ T \subseteq FilesTo(B)
      /\ \A k \in Nat : ~Covered(k, T) =>
           /\ k < lo => \A f \in T : k < f.smallest
           /\ k > hi => \A f \in T : f.largest < k
  BY Overlapped DEF VersionsTo
<1> HIDE DEF T
<1>2. ASSUME NEW k \in Nat, NEW f \in S \cup T, NEW g \in S \cup T,
             f.smallest <= k, k <= g.largest, ~Covered(k, S \cup T)
      PROVE  FALSE
  <2>1. ~Covered(k, T) /\ f \in FilesTo(B) /\ g \in FilesTo(B)
    BY <1>1, <1>2 DEF Covered
  <2>2. f.smallest \in Nat /\ g.largest \in Nat
    BY <2>1, FileRange
  <2>3. k < lo \/ k > hi
    BY <1>2 DEF T
  <2>4. CASE k < lo
    BY <1>1, <1>2, <2>1, <2>2, <2>4
  <2>5. CASE k > hi
    BY <1>1, <1>2, <2>1, <2>2, <2>5
  <2> QED BY <2>3, <2>4, <2>5
<1>3. Convex(S \cup T)
  BY <1>2, Zenon DEF Convex, Within
<1> QED BY <1>3 DEF T

\* A file that overlaps the range of F is among those that overlap a wider one.
LEMMA OverlappingFiles ==
  ASSUME NEW B \in Nat, NEW L, L \subseteq FilesTo(B), NEW F, F \subseteq L, F # {}
  PROVE  F \subseteq Overlapping(L, Range0(F), Range1(F))
<1> SUFFICES ASSUME NEW f \in F PROVE f.largest >= Range0(F) /\ f.smallest <= Range1(F)
  BY DEF Overlapping
<1>1. /\ Range0(F) \in Nat /\ Range1(F) \in Nat
      /\ Range0(F) <= f.smallest /\ f.largest <= Range1(F)
  BY RangeOf, Zenon
<1>2. f.smallest \in Nat /\ f.largest \in Nat /\ f.smallest <= f.largest
  BY FileRange, Zenon
<1> QED BY <1>1, <1>2

LEMMA OverlappingWider ==
  ASSUME NEW B \in Nat, NEW L, L \subseteq FilesTo(B), NEW F, NEW G,
         F \subseteq G, G \subseteq FilesTo(B), F # {}
  PROVE  Overlapping(L, Range0(F), Range1(F)) \subseteq Overlapping(L, Range0(G), Range1(G))
<1> SUFFICES ASSUME NEW h \in L, h.largest >= Range0(F), h.smallest <= Range1(F)
             PROVE  h.largest >= Range0(G) /\ h.smallest <= Range1(G)
  BY DEF Overlapping
<1>1. /\ Range0(F) \in Nat /\ Range1(F) \in Nat /\ Range0(G) \in Nat /\ Range1(G) \in Nat
      /\ \A f \in F : Range0(F) <= f.smallest /\ f.largest <= Range1(F)
      /\ \A f \in G : Range0(G) <= f.smallest /\ f.largest <= Range1(G)
      /\ \A k \in Range0(F)..Range1(F) : Within(k, F)
  BY RangeOf, Zenon
<1>2. /\ h.smallest \in Nat /\ h.largest \in Nat
      /\ \A f \in G : f.smallest \in Nat /\ f.largest \in Nat /\ f.smallest <= f.largest
  BY FileRange, Zenon
<1>3. Range0(F) <= Range1(F)
  BY <1>1, <1>2
<1>4. Within(Range0(F), F) /\ Within(Range1(F), F)
  BY <1>1, <1>3
<1>5. Range0(G) <= Range0(F) /\ Range1(F) <= Range1(G)
  BY <1>1, <1>2, <1>4 DEF Within
<1> QED BY <1>1, <1>2, <1>5

\* The inputs PickCompaction and SetupOtherInputs choose cover their range
\* without a gap, and no file of the next level that overlaps it is left out.
Covers(v, l, in) ==
  /\ in[1] # {} /\ in[1] \subseteq v[l] /\ in[2] \subseteq v[l + 1]
  /\ in[2] = Overlapping(v[l + 1], Range0(in[1]), Range1(in[1]))
  /\ Convex(in[1] \cup in[2])

LEMMA InputsCover ==
  ASSUME NEW B \in Nat, NEW v \in VersionsTo(B), NEW l \in 0..(MaxLevel - 1),
         NEW f \in v[l], NEW in \in Inputs(v, l, PickCompaction(v, l, f))
  PROVE  Covers(v, l, in)
<1> DEFINE F == PickCompaction(v, l, f)
           G == GetOverlappingInputs(v, l + 1, Range0(F), Range1(F))
           lo == Range0(F \cup G)
           hi == Range1(F \cup G)
           F2 == GetOverlappingInputs(v, l, lo, hi)
           G2 == GetOverlappingInputs(v, l + 1, Range0(F2), Range1(F2))
<1>1. /\ l \in Levels /\ l + 1 \in Levels /\ l + 1 > 0 /\ l \in Nat
      /\ v[l] \subseteq FilesTo(B) /\ v[l + 1] \subseteq FilesTo(B)
  BY StorageAssumption DEF Levels, VersionsTo
<1>2. /\ f.smallest \in Nat /\ f.largest \in Nat /\ f.smallest <= f.largest
      /\ f \in FilesTo(B)
  BY <1>1, FileRange, Zenon
<1>3. f \in F /\ F \subseteq v[l] /\ Convex(F)
  <2>1. CASE l > 0
    <3>1. F = {f}
      BY <2>1 DEF PickCompaction
    <3> HIDE DEF F
    <3> QED BY <3>1 DEF Convex, Within, Covered
  <2>2. CASE l = 0
    <3> DEFINE T == GetOverlappingInputs(v, l, f.smallest, f.largest)
    <3>1. F = T
      BY <2>2 DEF PickCompaction
    <3>2. T \subseteq v[l] /\ Overlapping(v[l], f.smallest, f.largest) \subseteq T
      BY <1>1, <1>2, Overlapped, Zenon
    <3>3. f \in T
      BY <1>2, <3>2 DEF Overlapping
    <3>4. \A k \in f.smallest .. f.largest : Covered(k, {} \cup T)
      <4> HIDE DEF T
      <4> QED BY <1>2, <3>3 DEF Covered
    <3>5. Convex({} \cup T)
      BY <1>1, <1>2, <3>4, WidenedIsConvex, Zenon
    <3>6. {} \cup T = T
      BY Zenon
    <3> HIDE DEF F, T
    <3> QED BY <3>1, <3>2, <3>3, <3>5, <3>6
  <2> QED BY <1>1, <2>1, <2>2
<1> HIDE DEF F
<1>4. /\ F \subseteq FilesTo(B) /\ F # {} /\ Range0(F) \in Nat /\ Range1(F) \in Nat
      /\ \A h \in F : Range0(F) <= h.smallest /\ h.largest <= Range1(F)
      /\ \A k \in Range0(F)..Range1(F) : Within(k, F)
  BY <1>1, <1>3, RangeOf, Zenon
<1>5. G = Overlapping(v[l + 1], Range0(F), Range1(F)) /\ G \subseteq v[l + 1]
  BY <1>1 DEF GetOverlappingInputs, Overlapping
<1>6. \A k \in Range0(F)..Range1(F) : Covered(k, F \cup G)
  <2>1. \A k \in Range0(F)..Range1(F) : k \in Nat
    BY <1>4
  <2> QED BY <1>3, <1>4, <2>1 DEF Convex, Covered
<1>7. Convex(F \cup G)
  BY <1>1, <1>4, <1>6, WidenedIsConvex, Zenon
<1> HIDE DEF G
<1>8. in \in {<<F, G>>, <<F2, G2>>}
  BY DEF Inputs, F, G
<1>9. CASE in = <<F, G>>
  <2>1. in[1] = F /\ in[2] = G
    BY <1>9
  <2> QED BY <1>3, <1>5, <1>7, <2>1 DEF Covers
<1>10. CASE in = <<F2, G2>>
  <2>1. /\ F \cup G \subseteq FilesTo(B) /\ F \cup G # {}
    BY <1>1, <1>4, <1>5
  <2>2. /\ lo \in Nat /\ hi \in Nat
        /\ \A h \in F \cup G : lo <= h.smallest /\ h.largest <= hi
        /\ \A k \in lo..hi : Within(k, F \cup G)
    BY <2>1, RangeOf, Zenon
  <2>3. F \subseteq Overlapping(v[l], lo, hi)
    <3>1. F \subseteq Overlapping(v[l], Range0(F), Range1(F))
      BY <1>1, <1>3, <1>4, OverlappingFiles, Zenon
    <3>2. Overlapping(v[l], Range0(F), Range1(F)) \subseteq Overlapping(v[l], lo, hi)
      BY <1>1, <1>4, <2>1, OverlappingWider, Zenon
    <3> QED BY <3>1, <3>2, Zenon
  <2>4. F2 \subseteq v[l] /\ Overlapping(v[l], lo, hi) \subseteq F2
    BY <1>1, <2>2, Overlapped, Zenon
  <2>5. F \subseteq F2 /\ F2 # {} /\ F2 \subseteq FilesTo(B)
    BY <1>1, <1>4, <2>3, <2>4, Zenon
  <2>6. \A k \in lo..hi : Covered(k, G \cup F2)
    <3>1. \A k \in lo..hi : k \in Nat
      BY <2>2
    <3> HIDE DEF lo, hi, F2
    <3> QED BY <1>7, <2>2, <2>5, <3>1, Zenon DEF Convex, Covered
  <2>7. Convex(G \cup F2)
    <3>1. /\ G \subseteq FilesTo(B)
          /\ \A h \in G : lo <= h.smallest /\ h.largest <= hi
      BY <2>1, <2>2, Zenon
    <3> QED BY <1>1, <2>2, <2>6, <3>1, WidenedIsConvex, Zenon
  <2> HIDE DEF lo, hi, F2
  <2>8. /\ Range0(F2) \in Nat /\ Range1(F2) \in Nat
        /\ \A h \in F2 : Range0(F2) <= h.smallest /\ h.largest <= Range1(F2)
        /\ \A k \in Range0(F2)..Range1(F2) : Within(k, F2)
    BY <2>5, RangeOf, Zenon
  <2>9. G2 = Overlapping(v[l + 1], Range0(F2), Range1(F2)) /\ G2 \subseteq v[l + 1]
    BY <1>1 DEF GetOverlappingInputs, Overlapping
  <2>10. G \subseteq G2
    <3>1. Overlapping(v[l + 1], Range0(F), Range1(F))
            \subseteq Overlapping(v[l + 1], Range0(F2), Range1(F2))
      BY <1>1, <1>4, <2>5, OverlappingWider, Zenon
    <3> QED BY <1>5, <2>9, <3>1, Zenon
  <2>11. \A k \in Range0(F2)..Range1(F2) : Covered(k, F2 \cup G2)
    <3>1. \A k \in Range0(F2)..Range1(F2) : k \in Nat /\ Within(k, G \cup F2)
      BY <2>8 DEF Within
    <3> HIDE DEF G2
    <3> QED BY <2>7, <2>10, <3>1, Zenon DEF Convex, Covered
  <2>12. Convex(F2 \cup G2)
    BY <1>1, <2>5, <2>8, <2>11, WidenedIsConvex, Zenon
  <2>13. in[1] = F2 /\ in[2] = G2
    BY <1>10
  <2> HIDE DEF G2
  <2> QED BY <2>4, <2>5, <2>9, <2>12, <2>13 DEF Covers
<1> QED BY <1>8, <1>9, <1>10

-----------------------------------------------------------------------------
(* The ranges of the files hold their keys.                                *)

\* A file that is in use keeps its entries.
LEMMA NamedKeep ==
  ASSUME IInv, Ranges, [Next]_vars, NEW f, Named(f)
  PROVE  HoldsKeys(f)'
<1>1. f.number \in InUse
  <2>1. CASE f \in comp.outs
    BY <2>1, Zenon DEF InUse, Live
  <2>2. CASE \E l \in Levels : f \in manifest.current[l]
    BY <2>2, Zenon DEF InUse, Numbers
  <2>3. CASE \E l \in Levels : f \in edit.current[l]
    BY <2>3, Zenon DEF InUse, Numbers
  <2>4. CASE \E l \in Levels : f \in versions.current[l]
    BY <2>4, Zenon DEF InUse, Live, Numbers
  <2> QED BY <2>1, <2>2, <2>3, <2>4, Zenon DEF Named
<1>2. f.number \in DOMAIN tables
  BY <1>1, Zenon DEF IInv, FilesExist
<1>3. f.number \in DOMAIN tables' => tables'[f.number] = tables[f.number]
  BY <1>1, NextStep, Zenon DEF Keeps
<1>4. HoldsKeys(f)
  BY Zenon DEF Ranges, Named
<1> QED BY <1>2, <1>3, <1>4, Zenon DEF HoldsKeys

\* So does a file of the next state that was named before or is new.
LEMMA OneNewFile ==
  ASSUME IInv, Ranges, [Next]_vars, NEW g, HoldsKeys(g)',
         \A f : Named(f)' => Named(f) \/ f = g
  PROVE  Ranges'
<1>1. \A f : Named(f)' => HoldsKeys(f)'
  BY NamedKeep, Zenon
<1> QED BY <1>1, Zenon DEF Ranges, Named, Levels

LEMMA NoNewFile ==
  ASSUME IInv, Ranges, [Next]_vars, \A f : Named(f)' => Named(f)
  PROVE  Ranges'
<1>1. \A f : Named(f)' => HoldsKeys(f)'
  BY NamedKeep, Zenon
<1> QED BY <1>1, Zenon DEF Ranges, Named, Levels

\* Steps that leave the versions, the edit and the merge as they are.
Steady ==
  /\ versions'.current = versions.current /\ edit' = edit /\ comp' = comp
  /\ manifest'.current \in {manifest.current, versions.current, edit.current}
  /\ bgpc' \in {"log flush", "install flush"} => bgpc \in {"log flush", "install flush"}
  /\ bgpc' \in {"idle", "scheduled", "log move", "install move"} =>
       bgpc \in {"idle", "scheduled", "log move", "install move"}

LEMMA SteadySteps ==
  ASSUME IInv, [Next]_vars,
         ~(WriteLevel0Table \/ InstallMemTable \/ BackgroundCompaction \/ WriteOutput
           \/ InstallCompactionResults \/ InstallMerge \/ InstallMove \/ End
           \/ RecoverLogFile)
  PROVE  Steady
<1>0. /\ versions = [current |-> versions.current, log |-> versions.log,
                     next |-> versions.next, last |-> versions.last]
      /\ manifest = [current |-> manifest.current, log |-> manifest.log,
                     next |-> manifest.next, last |-> manifest.last]
      /\ up # "up" => bgpc = "idle"
      /\ up = "down" => versions = manifest
  BY DEF IInv, Shape, IsVersionSet, Phases
<1>1. CASE \/ \E w \in Writers : Write(w) \/ ReturnDone(w)
           \/ WaitForRoom \/ MakeRoomForWrite \/ AddRecord \/ InsertInto
  <2>1. UNCHANGED <<manifest, versions, edit, comp, bgpc>>
    BY <1>1, Zenon DEF Write, ReturnDone, WaitForRoom, MakeRoomForWrite, AddRecord, InsertInto,
       disk, bg
  <2> QED BY <2>1, Zenon DEF Steady
<1>2. CASE FinishWrite
  <2>1. /\ versions' = [versions EXCEPT !.last = @ + group.n]
        /\ UNCHANGED <<manifest, edit, comp, bgpc>>
    BY <1>2, Zenon DEF FinishWrite, disk, bg
  <2>2. versions'.current = versions.current
    BY <1>0, <2>1
  <2> QED BY <2>1, <2>2, Zenon DEF Steady
<1>3. CASE SwitchMemTable
  <2>1. /\ versions' = [versions EXCEPT !.next = @ + 1]
        /\ UNCHANGED <<manifest, edit, comp>>
        /\ bgpc' = (IF bgpc = "idle" THEN "scheduled" ELSE bgpc)
    BY <1>3, Zenon DEF SwitchMemTable
  <2>2. versions'.current = versions.current
    BY <1>0, <2>1
  <2> QED BY <2>1, <2>2 DEF Steady
<1>4. CASE CompactMemTable
  <2>1. /\ versions' = [versions EXCEPT !.next = @ + 1] /\ bgpc' = "build"
        /\ UNCHANGED <<manifest, edit, comp>>
    BY <1>4, Zenon DEF CompactMemTable, disk
  <2>2. versions'.current = versions.current
    BY <1>0, <2>1
  <2> QED BY <2>1, <2>2 DEF Steady
<1>5. CASE \E r \in Readers : Get(r) \/ GetReturns(r)
  <2>1. /\ UNCHANGED <<manifest, versions, edit, comp>>
        /\ \/ bgpc' = bgpc
           \/ bgpc = "idle" /\ bgpc' \in Scheduled(imm, versions.current)
    BY <1>5, Zenon DEF Get, GetReturns, disk, bg
  <2>2. Scheduled(imm, versions.current) \subseteq {"idle", "scheduled"}
    BY ScheduledStates, Zenon
  <2> QED BY <2>1, <2>2 DEF Steady
<1>6. CASE LogAndApply
  <2>1. /\ manifest' = edit /\ UNCHANGED <<versions, edit, comp>>
        /\ \/ bgpc = "log flush" /\ bgpc' = "install flush"
           \/ bgpc = "log move" /\ bgpc' = "install move"
           \/ bgpc = "log merge" /\ bgpc' = "install merge"
    BY <1>6, Zenon DEF LogAndApply
  <2> QED BY <2>1 DEF Steady
<1>7. CASE Recover
  <2>1. /\ versions' = [manifest EXCEPT !.next = @ + 1] /\ up = "down"
        /\ UNCHANGED <<manifest, edit, comp, bgpc>>
    BY <1>7, Zenon DEF Recover, disk, bg
  <2>2. versions'.current = versions.current
    BY <1>0, <2>1
  <2> QED BY <2>1, <2>2, Zenon DEF Steady
<1>8. CASE NewLog
  <2>1. /\ versions' = [versions EXCEPT !.log = versions.next, !.next = @ + 1]
        /\ UNCHANGED <<manifest, edit, comp, bgpc>>
    BY <1>8, Zenon DEF NewLog, bg
  <2>2. versions' = [current |-> versions.current, log |-> versions.next,
                     next |-> versions.next + 1, last |-> versions.last]
    BY <1>0, <2>1, Zenon
  <2>3. versions'.current = versions.current
    BY <2>2
  <2> QED BY <2>1, <2>3, Zenon DEF Steady
<1>9. CASE SetCurrentFile
  <2>1. manifest' = versions /\ UNCHANGED <<versions, edit, comp, bgpc>>
    BY <1>9, Zenon DEF SetCurrentFile, bg
  <2> QED BY <2>1, Zenon DEF Steady
<1>10. CASE Open
  <2>1. /\ up = "opened" /\ UNCHANGED <<manifest, versions, edit, comp>>
        /\ bgpc' \in {"idle", "scheduled"}
    BY <1>10, ScheduledStates, Zenon DEF Open
  <2> QED BY <1>0, <2>1 DEF Steady
<1>11. CASE UNCHANGED vars
  BY <1>11, Zenon DEF Steady, vars
<1> QED BY <1>1, <1>2, <1>3, <1>4, <1>5, <1>6, <1>7, <1>8, <1>9, <1>10, <1>11, Zenon
      DEF Next, Lead, Background, Opening

\* The files named in the next state.
LEMMA NamedBefore ==
  ASSUME manifest'.current \in {manifest.current, versions.current, edit.current},
         versions'.current \in {manifest.current, versions.current, edit.current},
         edit'.current \in {edit.current, NoVersion}, comp'.outs \subseteq comp.outs
  PROVE  \A f : Named(f)' => Named(f)
<1>1. \A l \in Levels : NoVersion[l] = {}
  BY DEF NoVersion
<1> QED BY <1>1, Zenon DEF Named, Levels

LEMMA NamedByEdit ==
  ASSUME NEW w, NEW N, edit'.current = w, manifest' = manifest, versions' = versions,
         comp' = comp,
         \A l \in Levels : w[l] \subseteq versions.current[l] \cup N
  PROVE  \A f : Named(f)' => Named(f) \/ f \in N
BY Zenon DEF Named, Levels

\* The range of every file that is named holds the keys of its entries.
LEMMA RangesStep ==
  ASSUME IInv, TInv, LInv, [Next]_vars
  PROVE  Ranges'
<1>0. PICK B \in Nat : Front(B) /\ Data(B) /\ Versions(B)
  BY Zenon DEF TInv
<1> Ranges
  BY DEF LInv
<1>a. NoEdit.current = NoVersion /\ NoMerge.outs = {}
  BY DEF NoEdit, NoMerge
<1>b. /\ versions = [current |-> versions.current, log |-> versions.log,
                     next |-> versions.next, last |-> versions.last]
      /\ versions.next \in Nat /\ versions.current \in VersionsTo(B)
  BY <1>0 DEF IInv, Shape, IsVersionSet, Versions, VersionSetsTo
<1>1. CASE Steady
  <2>1. \A x : Named(x)' => Named(x)
    BY <1>1, NamedBefore, Zenon DEF Steady
  <2> QED BY <2>1, NoNewFile, Zenon
<1>2. CASE InstallMemTable \/ InstallMerge \/ InstallMove
  <2>1. /\ edit' = NoEdit /\ comp' \in {comp, NoMerge} /\ UNCHANGED <<manifest, refs>>
        /\ \/ versions' = [versions EXCEPT !.current = edit.current, !.log = edit.log]
           \/ versions' = [versions EXCEPT !.current = edit.current]
    BY <1>2 DEF InstallMemTable, InstallMerge, InstallMove, disk
  <2>2. versions'.current = edit.current
    BY <1>b, <2>1
  <2>3. \A x : Named(x)' => Named(x)
    BY <1>a, <2>1, <2>2, NamedBefore, Zenon
  <2> QED BY <2>3, NoNewFile, Zenon
<1>3. CASE End
  <2>1. /\ versions' = manifest /\ manifest' = manifest /\ edit' = NoEdit /\ comp' = NoMerge
    BY <1>3, Zenon DEF End, disk
  <2>2. \A x : Named(x)' => Named(x)
    BY <1>a, <2>1, NamedBefore, Zenon
  <2> QED BY <2>2, NoNewFile, Zenon
<1>4. CASE WriteLevel0Table
  <2>1. PICK f \in FilesTo(B), l \in Levels, w \in VersionsTo(B) :
           /\ f.number = number
           /\ \A e \in memtable[imm] : f.smallest <= e.key /\ e.key <= f.largest
           /\ edit' = Edit(w, mem) /\ Adds(B, versions.current, l, f, w)
    BY <1>0, <1>4, FlushedFile, Zenon
  <2>2. /\ tables' = With(tables, number, memtable[imm])
        /\ UNCHANGED <<manifest, versions, comp>>
    BY <1>4, Zenon DEF WriteLevel0Table
  <2>3. HoldsKeys(f)'
    BY <2>1, <2>2, Zenon DEF HoldsKeys, With
  <2>4. edit'.current = w
    BY <2>1 DEF Edit
  <2>5. \A k \in Levels : w[k] \subseteq versions.current[k] \cup {f}
    BY <2>1, Zenon DEF Adds
  <2>6. \A x : Named(x)' => Named(x) \/ x = f
    <3>1. \A x : Named(x)' => Named(x) \/ x \in {f}
      BY <2>2, <2>4, <2>5, NamedByEdit, Zenon
    <3> QED BY <3>1, Zenon
  <2> QED BY <2>3, <2>6, OneNewFile, Zenon
<1>5. CASE BackgroundCompaction
  <2>1. PICK l \in 0..(MaxLevel - 1) : \E f \in versions.current[l] :
          \E in \in Inputs(versions.current, l, PickCompaction(versions.current, l, f)) :
            \/ TrivialMove(versions.current, l, in)
            \/ StartMerge(versions.current, l, PickCompaction(versions.current, l, f), in)
    BY <1>5, Zenon DEF BackgroundCompaction
  <2>2. PICK f \in versions.current[l] :
          \E in \in Inputs(versions.current, l, PickCompaction(versions.current, l, f)) :
            \/ TrivialMove(versions.current, l, in)
            \/ StartMerge(versions.current, l, PickCompaction(versions.current, l, f), in)
    BY <2>1, Zenon
  <2> PICK in \in Inputs(versions.current, l, PickCompaction(versions.current, l, f)) :
          \/ TrivialMove(versions.current, l, in)
          \/ StartMerge(versions.current, l, PickCompaction(versions.current, l, f), in)
    BY <2>2, Zenon
  <2>3. UNCHANGED <<manifest, versions>>
    BY <1>5, Zenon DEF BackgroundCompaction, disk
  <2>4. CASE TrivialMove(versions.current, l, in)
    <3>1. in[1] \subseteq versions.current[l]
      BY InputsInVersion, Zenon
    <3>2. PICK w \in VersionsTo(B) :
            edit' = Edit(w, versions.log) /\ Moves(B, versions.current, l, in[1], w)
      BY <1>0, <2>4, <3>1, MovedVersion, Zenon
    <3>3. edit'.current = w
      BY <3>2 DEF Edit
    <3>8. comp' = comp
      BY <2>4, Zenon DEF TrivialMove
    <3>4. l \in Levels
      BY StorageAssumption DEF Levels
    <3>5. \A x \in in[1] : Named(x)
      BY <3>1, <3>4, Zenon DEF Named
    <3>6. \A k \in Levels : w[k] \subseteq versions.current[k] \cup in[1]
      BY <3>2, Zenon DEF Moves
    <3>7. \A x : Named(x)' => Named(x) \/ x \in in[1]
      BY <2>3, <3>3, <3>6, <3>8, NamedByEdit, Zenon
    <3> QED BY <3>5, <3>7, NoNewFile, Zenon
  <2>5. CASE StartMerge(versions.current, l, PickCompaction(versions.current, l, f), in)
    <3>1. comp'.outs = {} /\ edit' = edit
      BY <2>5 DEF StartMerge
    <3>2. \A x : Named(x)' => Named(x)
      BY <2>3, <3>1, NamedBefore, Zenon
    <3> QED BY <3>2, NoNewFile, Zenon
  <2> QED BY <2>4, <2>5
<1>6. CASE WriteOutput
  <2>1. PICK f \in FilesTo(B), run \in SUBSET comp.todo :
           /\ f.number = versions.next
           /\ \A e \in run : f.smallest <= e.key /\ e.key <= f.largest
           /\ tables' = With(tables, versions.next, run)
           /\ comp' = [comp EXCEPT !.todo = @ \ run, !.outs = @ \cup {f}]
    BY <1>0, <1>6, OutputFile, Zenon
  <2>2. HoldsKeys(f)'
    BY <2>1, Zenon DEF HoldsKeys, With
  <2>3. comp'.outs = comp.outs \cup {f}
    BY <1>0, <2>1 DEF Versions, Merges
  <2>4. /\ UNCHANGED <<manifest, edit>>
        /\ versions' = [versions EXCEPT !.next = @ + 1]
    BY <1>6, Zenon DEF WriteOutput
  <2>5. versions'.current = versions.current
    BY <1>b, <2>4
  <2>6. \A x : Named(x)' => Named(x) \/ x = f
    BY <2>3, <2>4, <2>5, Zenon DEF Named, Levels
  <2> QED BY <2>2, <2>6, OneNewFile, Zenon
<1>7. CASE InstallCompactionResults
  <2>1. PICK w \in VersionsTo(B), l \in 0..(MaxLevel - 1) :
           /\ l = comp.level /\ edit' = Edit(w, versions.log)
           /\ w[l] = versions.current[l] \ comp.in0
           /\ w[l + 1] = (versions.current[l + 1] \ comp.in1) \cup comp.outs
           /\ \A k \in Levels : k # l /\ k # l + 1 => w[k] = versions.current[k]
    BY <1>0, <1>7, MergedVersion, Zenon
  <2>2. UNCHANGED <<manifest, versions, comp>>
    BY <1>7, Zenon DEF InstallCompactionResults, disk
  <2>3. edit'.current = w
    BY <2>1 DEF Edit
  <2>4. \A k \in Levels : w[k] \subseteq versions.current[k] \cup comp.outs
    BY <2>1, Zenon
  <2>5. \A x : Named(x)' => Named(x) \/ x \in comp.outs
    BY <2>2, <2>3, <2>4, NamedByEdit, Zenon
  <2>6. \A x \in comp.outs : Named(x)
    BY Zenon DEF Named
  <2> QED BY <2>5, <2>6, NoNewFile, Zenon
<1>8. CASE RecoverLogFile
  <2>1. UNCHANGED <<manifest, edit, comp>>
    BY <1>8, Zenon DEF RecoverLogFile, bg
  <2>2. CASE tables' = tables /\ versions'.current = versions.current
    <3>1. \A x : Named(x)' => Named(x)
      BY <2>1, <2>2, NamedBefore, Zenon
    <3> QED BY <3>1, NoNewFile, Zenon
  <2>3. ASSUME NEW f \in FilesTo(B), NEW S \in SUBSET EntriesTo(B), f.number = versions.next,
               \A e \in S : f.smallest <= e.key /\ e.key <= f.largest,
               tables' = With(tables, versions.next, S),
               Adds(B, versions.current, 0, f, versions'.current)
        PROVE  Ranges'
    <3>1. HoldsKeys(f)'
      BY <2>3, Zenon DEF HoldsKeys, With
    <3>2. \A k \in Levels : versions'.current[k] \subseteq versions.current[k] \cup {f}
      BY <2>3, Zenon DEF Adds
    <3>3. \A x : Named(x)' => Named(x) \/ x = f
      BY <2>1, <3>2, Zenon DEF Named, Levels
    <3> QED BY <3>1, <3>3, OneNewFile, Zenon
  <2> QED BY <1>0, <1>8, <2>2, <2>3, RecoveredLog, Zenon
<1> QED BY <1>1, <1>2, <1>3, <1>4, <1>5, <1>6, <1>7, <1>8, SteadySteps, Zenon

-----------------------------------------------------------------------------
(* The files of a level do not overlap.                                    *)

\* Nothing overlaps in an empty version, and no merge fits everywhere.
LEMMA NothingOverlaps ==
  /\ Disjoint(NoVersion) /\ Merging(NoMerge) /\ NoEdit.current = NoVersion
  /\ \A v : Fits(NoMerge, v)
<1>1. /\ NoMerge.in0 = {} /\ NoMerge.in1 = {} /\ NoMerge.todo = {} /\ NoMerge.outs = {}
  BY DEF NoMerge
<1>2. \A l \in 1..MaxLevel : NoVersion[l] = {}
  BY DEF NoVersion, Levels
<1>3. Disjoint(NoVersion)
  BY <1>2 DEF Disjoint
<1>4. Merging(NoMerge)
  BY <1>1 DEF Merging, Convex, Within, InputsOf
<1>5. \A v : Fits(NoMerge, v)
  BY <1>1 DEF Fits, InputsOf
<1>6. NoEdit.current = NoVersion
  BY DEF NoEdit
<1> QED BY <1>3, <1>4, <1>5, <1>6

\* Apart, for the files of versions.
LEMMA ApartSymmetric ==
  ASSUME NEW f, NEW g
  PROVE  Apart(f, g) <=> Apart(g, f)
BY Zenon DEF Apart

\* A memtable that goes below level 0 overlaps no file of its level or the one
\* above (PickLevelForMemTableOutput).
LEMMA FlushIsClear ==
  ASSUME NEW B \in Nat, NEW v \in VersionsTo(B), NEW f \in FilesTo(B), NEW l \in Levels,
         l \in MemTableLevels(v, f), l > 0
  PROVE  \A j \in 0..l : \A g \in v[j] : Apart(f, g)
<1>1. \A j \in 0..l : ~(j <= MaxLevel /\ Overlapping(v[j], f.smallest, f.largest) # {})
  BY DEF MemTableLevels
<1>2. ASSUME NEW j \in 0..l, NEW g \in v[j] PROVE Apart(f, g)
  <2>1. j <= MaxLevel /\ j \in Levels
    BY StorageAssumption DEF Levels
  <2>2. g \notin Overlapping(v[j], f.smallest, f.largest)
    BY <1>1, <2>1, Zenon
  <2>3. ~(g.largest >= f.smallest /\ g.smallest <= f.largest)
    BY <2>2, Zenon DEF Overlapping
  <2>4. g \in FilesTo(B)
    BY <2>1, Zenon DEF VersionsTo
  <2>5. /\ f.smallest \in Nat /\ f.largest \in Nat /\ g.smallest \in Nat /\ g.largest \in Nat
    BY <2>4, FileRange, Zenon
  <2> QED BY <2>3, <2>5 DEF Apart
<1> QED BY <1>2, Zenon

\* The version a flush makes.
LEMMA FlushFits ==
  ASSUME NEW B \in Nat, NEW v \in VersionsTo(B), NEW f \in FilesTo(B), NEW l \in Levels,
         l \in MemTableLevels(v, f), NEW w, Adds(B, v, l, f, w), Disjoint(v),
         comp \in Merges(B), Fits(comp, v)
  PROVE  Disjoint(w) /\ Fits(comp, w)
<1>0. /\ w[l] = v[l] \cup {f} /\ \A k \in Levels : k # l => w[k] = v[k]
      /\ l \in Nat
  BY DEF Adds, Levels
<1>1. l > 0 => \A j \in 0..l : \A g \in v[j] : Apart(f, g)
  BY FlushIsClear, Zenon
<1>2. ASSUME NEW k \in 1..MaxLevel, NEW x \in w[k], NEW y \in w[k], x # y
      PROVE  Apart(x, y)
  <2>1. CASE k # l
    <3>1. w[k] = v[k]
      BY <1>0, <2>1 DEF Levels
    <3> QED BY <1>2, <3>1, Zenon DEF Disjoint
  <2>2. CASE k = l
    <3>1. \A g \in v[k] : Apart(f, g) /\ Apart(g, f)
      <4>1. l > 0 /\ k \in 0..l
        BY <2>2
      <4> QED BY <1>1, <4>1, ApartSymmetric, Zenon
    <3>2. w[k] = v[k] \cup {f}
      BY <1>0, <2>2, Zenon
    <3>3. \A g, h \in v[k] : g # h => Apart(g, h)
      BY Zenon DEF Disjoint
    <3> QED BY <1>2, <3>1, <3>2, <3>3, Zenon
  <2> QED BY <2>1, <2>2
<1>3. Disjoint(w)
  BY <1>2, Zenon DEF Disjoint
<1>4. PICK c \in Nat : c = comp.level /\ c \in Levels /\ c + 1 \in Levels
  BY StorageAssumption DEF Merges, Levels
<1>5. /\ comp.in0 \subseteq v[c] /\ comp.in1 \subseteq v[c + 1]
      /\ \A g \in v[c + 1] \ comp.in1 : \A x \in InputsOf(comp) : Apart(x, g)
  BY <1>4, Zenon DEF Fits
<1>6. \A k \in Levels : v[k] \subseteq w[k]
  BY <1>0, Zenon
<1>7. comp.in0 \subseteq w[c] /\ comp.in1 \subseteq w[c + 1]
  BY <1>4, <1>5, <1>6, Zenon
<1>8. ASSUME NEW g \in w[c + 1] \ comp.in1, NEW x \in InputsOf(comp)
      PROVE  Apart(x, g)
  <2>1. CASE g \in v[c + 1]
    BY <1>5, <2>1, Zenon
  <2>2. CASE g \notin v[c + 1]
    <3>1. l = c + 1 /\ g = f
      BY <1>0, <1>4, <1>8, <2>2, Zenon
    <3>2. l > 0 /\ c \in 0..l /\ c + 1 \in 0..l
      BY <1>4, <3>1
    <3>3. x \in v[c] \/ x \in v[c + 1]
      BY <1>5, <1>8, Zenon DEF InputsOf
    <3>4. Apart(f, x)
      BY <1>1, <3>2, <3>3, Zenon
    <3> QED BY <3>1, <3>4, ApartSymmetric, Zenon
  <2> QED BY <2>1, <2>2
<1> QED BY <1>3, <1>4, <1>7, <1>8, Zenon DEF Fits

\* The file a trivial move takes down overlaps nothing there.
LEMMA MoveIsClear ==
  ASSUME NEW B \in Nat, NEW v \in VersionsTo(B), Disjoint(v), NEW l \in 0..(MaxLevel - 1),
         NEW f \in v[l], NEW in \in Inputs(v, l, PickCompaction(v, l, f)),
         Cardinality(in[1]) = 1, in[2] = {}, NEW w, Moves(B, v, l, in[1], w)
  PROVE  Disjoint(w)
<1>0. /\ l \in Levels /\ l + 1 \in Levels /\ l + 1 # l
      /\ \A k \in 1..MaxLevel : k \in Levels
  BY StorageAssumption DEF Levels
<1>1. /\ in[1] # {} /\ in[1] \subseteq v[l]
      /\ Overlapping(v[l + 1], Range0(in[1]), Range1(in[1])) = {}
  <2>1. Covers(v, l, in)
    BY InputsCover, Zenon
  <2> QED BY <2>1, Zenon DEF Covers
<1>2. /\ w[l] = v[l] \ in[1] /\ w[l + 1] = v[l + 1] \cup in[1]
      /\ \A k \in Levels : k # l /\ k # l + 1 => w[k] = v[k]
  BY Zenon DEF Moves
<1>3. PICK x : in[1] = {x}
  <2>1. IsFiniteSet(in[1])
    <3>1. IsFiniteSet(v[l])
      BY <1>0, Zenon DEF VersionsTo
    <3> QED BY <1>1, <3>1, FS_Subset, Zenon
  <2> QED BY <2>1, FS_Singleton, Zenon
<1>4. x \in v[l] /\ x \in FilesTo(B)
  BY <1>0, <1>1, <1>3, Zenon DEF VersionsTo
<1>5. /\ Range0(in[1]) \in Nat /\ Range1(in[1]) \in Nat
      /\ Range0(in[1]) <= x.smallest /\ x.largest <= Range1(in[1])
  <2>1. in[1] \subseteq FilesTo(B)
    BY <1>3, <1>4, Zenon
  <2> QED BY <1>1, <1>3, <2>1, RangeOf, Zenon
<1>6. ASSUME NEW g \in v[l + 1] PROVE Apart(x, g) /\ Apart(g, x)
  <2>1. ~(g.largest >= Range0(in[1]) /\ g.smallest <= Range1(in[1]))
    BY <1>1, Zenon DEF Overlapping
  <2>2. g \in FilesTo(B)
    BY <1>0, Zenon DEF VersionsTo
  <2>3. /\ g.smallest \in Nat /\ g.largest \in Nat /\ x.smallest \in Nat /\ x.largest \in Nat
    BY <1>4, <2>2, FileRange, Zenon
  <2> QED BY <1>5, <2>1, <2>3 DEF Apart
<1>7. ASSUME NEW k \in 1..MaxLevel, NEW g \in w[k], NEW h \in w[k], g # h
      PROVE  Apart(g, h)
  <2>0. \A a, b \in v[k] : a # b => Apart(a, b)
    BY Zenon DEF Disjoint
  <2>1. CASE k # l + 1
    <3>1. g \in v[k] /\ h \in v[k]
      BY <1>0, <1>2, <1>7, <2>1, Zenon
    <3> QED BY <1>7, <2>0, <3>1, Zenon
  <2>2. CASE k = l + 1
    <3>1. (g \in v[k] \/ g = x) /\ (h \in v[k] \/ h = x)
      BY <1>2, <1>3, <1>7, <2>2, Zenon
    <3> QED BY <1>6, <1>7, <2>0, <2>2, <3>1, Zenon
  <2> QED BY <2>1, <2>2
<1> QED BY <1>7, Zenon DEF Disjoint

\* A merge begins with all files of the next level that its inputs overlap.
LEMMA MergeFits ==
  ASSUME NEW B \in Nat, NEW v \in VersionsTo(B), Disjoint(v), NEW l \in 0..(MaxLevel - 1),
         NEW f \in v[l], NEW in \in Inputs(v, l, PickCompaction(v, l, f)),
         NEW g \in v[l + 1] \ in[2], NEW x \in in[1] \cup in[2]
  PROVE  Apart(x, g)
<1>0. l \in Levels /\ l + 1 \in Levels /\ l + 1 \in 1..MaxLevel
  BY StorageAssumption DEF Levels
<1>1. /\ in[1] # {} /\ in[1] \subseteq v[l] /\ in[2] \subseteq v[l + 1]
      /\ in[2] = Overlapping(v[l + 1], Range0(in[1]), Range1(in[1]))
  <2>1. Covers(v, l, in)
    BY InputsCover, Zenon
  <2> QED BY <2>1, Zenon DEF Covers
<1>2. CASE x \in in[2]
  BY <1>0, <1>1, <1>2, Zenon DEF Disjoint
<1>3. CASE x \in in[1]
  <2>1. in[1] \subseteq FilesTo(B) /\ g \in FilesTo(B)
    BY <1>0, <1>1, Zenon DEF VersionsTo
  <2>2. /\ Range0(in[1]) \in Nat /\ Range1(in[1]) \in Nat
        /\ Range0(in[1]) <= x.smallest /\ x.largest <= Range1(in[1])
    BY <1>1, <1>3, <2>1, RangeOf, Zenon
  <2>3. ~(g.largest >= Range0(in[1]) /\ g.smallest <= Range1(in[1]))
    BY <1>1, Zenon DEF Overlapping
  <2>4. /\ g.smallest \in Nat /\ g.largest \in Nat /\ x.smallest \in Nat /\ x.largest \in Nat
    BY <1>3, <2>1, FileRange, Zenon
  <2> QED BY <2>2, <2>3, <2>4 DEF Apart
<1> QED BY <1>2, <1>3

\* What is between two keys in the range of the inputs is apart from what the
\* inputs are apart from.
LEMMA OutputsApart ==
  ASSUME NEW B \in Nat, NEW S, S \subseteq FilesTo(B), Convex(S), NEW o \in FilesTo(B),
         Within(o.smallest, S), Within(o.largest, S), NEW g \in FilesTo(B),
         \A x \in S : Apart(x, g)
  PROVE  Apart(o, g)
<1>0. /\ o.smallest \in Nat /\ o.largest \in Nat /\ o.smallest <= o.largest
      /\ g.smallest \in Nat /\ g.largest \in Nat /\ g.smallest <= g.largest
      /\ \A x \in S : x.smallest \in Nat /\ x.largest \in Nat
  BY FileRange, Zenon
<1>1. SUFFICES ASSUME ~Apart(o, g) PROVE FALSE
  OBVIOUS
<1>2. o.smallest <= g.largest /\ g.smallest <= o.largest
  BY <1>0, <1>1 DEF Apart
<1>3. PICK k \in Nat : /\ o.smallest <= k /\ k <= o.largest
                       /\ g.smallest <= k /\ k <= g.largest
  <2>1. CASE o.smallest <= g.smallest
    BY <1>0, <1>2, <2>1
  <2>2. CASE g.smallest <= o.smallest
    BY <1>0, <1>2, <2>2
  <2> QED BY <1>0, <2>1, <2>2
<1>4. PICK a \in S : a.smallest <= o.smallest
  BY Zenon DEF Within
<1>5. PICK b \in S : o.largest <= b.largest
  BY Zenon DEF Within
<1>6. a.smallest <= k /\ k <= b.largest
  BY <1>0, <1>3, <1>4, <1>5
<1>7. Covered(k, S)
  BY <1>6, Zenon DEF Convex, Within
<1>8. PICK x \in S : x.smallest <= k /\ k <= x.largest
  BY <1>7, Zenon DEF Covered
<1>9. Apart(x, g)
  BY Zenon
<1> QED BY <1>0, <1>3, <1>8, <1>9 DEF Apart

\* The version a merge makes.
LEMMA MergeIsClear ==
  ASSUME NEW B \in Nat, NEW v \in VersionsTo(B), Disjoint(v), comp \in Merges(B),
         Fits(comp, v), Merging(comp), NEW w, NEW l \in 0..(MaxLevel - 1), l = comp.level,
         w[l] = v[l] \ comp.in0, w[l + 1] = (v[l + 1] \ comp.in1) \cup comp.outs,
         \A k \in Levels : k # l /\ k # l + 1 => w[k] = v[k]
  PROVE  Disjoint(w)
<1>0. /\ l \in Levels /\ l + 1 \in Levels /\ l + 1 # l
      /\ \A k \in 1..MaxLevel : k \in Levels
  BY StorageAssumption DEF Levels
<1>1. /\ InputsOf(comp) \subseteq FilesTo(B) /\ comp.outs \subseteq FilesTo(B)
      /\ v[l + 1] \subseteq FilesTo(B)
  BY <1>0 DEF Merges, InputsOf, VersionsTo
<1>2. ASSUME NEW g \in v[l + 1] \ comp.in1, NEW o \in comp.outs
      PROVE  Apart(o, g) /\ Apart(g, o)
  <2>1. \A x \in InputsOf(comp) : Apart(x, g)
    BY Zenon DEF Fits
  <2>2. /\ Convex(InputsOf(comp))
        /\ Within(o.smallest, InputsOf(comp)) /\ Within(o.largest, InputsOf(comp))
    BY Zenon DEF Merging
  <2>3. o \in FilesTo(B) /\ g \in FilesTo(B)
    BY <1>1, Zenon
  <2>4. Apart(o, g)
    BY <1>1, <2>1, <2>2, <2>3, OutputsApart, Zenon
  <2> QED BY <2>4, ApartSymmetric, Zenon
<1>3. \A a, b \in comp.outs : a # b => Apart(a, b)
  BY Zenon DEF Merging
<1>4. ASSUME NEW k \in 1..MaxLevel, NEW g \in w[k], NEW h \in w[k], g # h
      PROVE  Apart(g, h)
  <2>0. \A a, b \in v[k] : a # b => Apart(a, b)
    BY Zenon DEF Disjoint
  <2>1. CASE k # l + 1
    <3>1. g \in v[k] /\ h \in v[k]
      BY <1>0, <1>4, <2>1, Zenon
    <3> QED BY <1>4, <2>0, <3>1, Zenon
  <2>2. CASE k = l + 1
    <3>1. /\ g \in v[k] \ comp.in1 \/ g \in comp.outs
          /\ h \in v[k] \ comp.in1 \/ h \in comp.outs
      BY <1>4, <2>2, Zenon
    <3> QED BY <1>2, <1>3, <1>4, <2>0, <2>2, <3>1, Zenon
  <2> QED BY <2>1, <2>2
<1> QED BY <1>4, Zenon DEF Disjoint

\* A merge that begins.
LEMMA MergeBegins ==
  ASSUME NEW B \in Nat, Data(B), Versions(B), IInv, Ranges, Disjoint(versions.current),
         NEW l \in 0..(MaxLevel - 1), NEW f \in versions.current[l],
         NEW in \in Inputs(versions.current, l, PickCompaction(versions.current, l, f)),
         StartMerge(versions.current, l, PickCompaction(versions.current, l, f), in)
  PROVE  Merging(comp') /\ Fits(comp', versions.current) /\ comp'.in0 # {}
<1>1. PICK v \in VersionsTo(B) : v = versions.current
  BY Zenon DEF Versions, VersionSetsTo
<1>2. Covers(v, l, in)
  BY <1>1, InputsCover, Zenon
<1>3. l \in Levels /\ l + 1 \in Levels
  BY StorageAssumption DEF Levels
<1>4. /\ comp'.level = l /\ comp'.in0 = in[1] /\ comp'.in1 = in[2] /\ comp'.outs = {}
      /\ comp'.todo = Merged(v, l, in[1] \cup in[2], versions.last)
  BY <1>1 DEF StartMerge
<1>5. ASSUME NEW g \in in[1] \cup in[2]
      PROVE  /\ g.number \in DOMAIN tables
             /\ \A e \in tables[g.number] : g.smallest <= e.key /\ e.key <= g.largest
  <2>1. g \in versions.current[l] \/ g \in versions.current[l + 1]
    BY <1>1, <1>2, Zenon DEF Covers
  <2>2. g.number \in DOMAIN tables
    BY <1>3, <2>1, CurrentFilesExist, Zenon
  <2>3. HoldsKeys(g)
    BY <1>3, <2>1, Zenon DEF Ranges
  <2> QED BY <2>2, <2>3, Zenon DEF HoldsKeys
<1>6. \A e \in comp'.todo : Within(e.key, in[1] \cup in[2])
  <2>1. \A e \in Merged(v, l, in[1] \cup in[2], versions.last) :
          \E g \in in[1] \cup in[2] : e \in tables[g.number]
    BY <1>5, MergedEntries, Zenon
  <2> QED BY <1>4, <1>5, <2>1, Zenon DEF Within
<1>7. InputsOf(comp') = in[1] \cup in[2]
  BY <1>4, Zenon DEF InputsOf
<1>8. Merging(comp')
  BY <1>2, <1>4, <1>6, <1>7, Zenon DEF Merging, Covers
<1>9. \A g \in v[l + 1] \ in[2] : \A x \in in[1] \cup in[2] : Apart(x, g)
  BY <1>1, MergeFits, Zenon
<1>10. Fits(comp', v)
  BY <1>2, <1>4, <1>7, <1>9, Zenon DEF Fits, Covers
<1> QED BY <1>1, <1>2, <1>4, <1>8, <1>10, Zenon DEF Covers

\* A merge writes an output.
LEMMA MergeGoesOn ==
  ASSUME NEW B \in Nat, Versions(B), Merging(comp), WriteOutput
  PROVE  /\ Merging(comp') /\ comp'.level = comp.level
         /\ comp'.in0 = comp.in0 /\ comp'.in1 = comp.in1
<1>1. PICK f \in FilesTo(B), run \in SUBSET comp.todo, last \in Nat :
        /\ run = {e \in comp.todo : e.key <= last} /\ run # {}
        /\ f.number = versions.next
        /\ \A e \in run : f.smallest <= e.key /\ e.key <= f.largest
        /\ \E e \in run : e.key = f.smallest
        /\ \E e \in run : e.key = f.largest
        /\ tables' = With(tables, versions.next, run)
        /\ comp' = [comp EXCEPT !.todo = @ \ run, !.outs = @ \cup {f}]
  BY OutputFile, Zenon
<1>2. /\ comp'.level = comp.level /\ comp'.in0 = comp.in0 /\ comp'.in1 = comp.in1
      /\ comp'.todo = comp.todo \ run /\ comp'.outs = comp.outs \cup {f}
  BY <1>1 DEF Versions, Merges
<1>3. InputsOf(comp') = InputsOf(comp)
  BY <1>2, Zenon DEF InputsOf
<1>4. Within(f.smallest, InputsOf(comp)) /\ Within(f.largest, InputsOf(comp))
  BY <1>1, Zenon DEF Merging
<1>5. ASSUME NEW o \in comp.outs PROVE Apart(o, f) /\ Apart(f, o)
  <2>1. o.largest < f.smallest
    BY <1>1, Zenon DEF Merging
  <2> QED BY <2>1, Zenon DEF Apart
<1>6. ASSUME NEW e \in comp.todo \ run PROVE f.largest < e.key
  <2>1. PICK x \in run : x.key = f.largest
    BY <1>1, Zenon
  <2>2. x.key <= last /\ ~(e.key <= last)
    BY <1>1, Zenon
  <2>3. comp.todo \subseteq EntriesTo(B)
    BY DEF Versions, Merges
  <2>4. x.key \in Nat /\ e.key \in Nat
    BY <2>3, StorageAssumption, Zenon DEF EntriesTo, Entries
  <2> QED BY <2>1, <2>2, <2>4
<1>7. /\ Convex(InputsOf(comp'))
      /\ \A e \in comp'.todo : Within(e.key, InputsOf(comp'))
      /\ \A o \in comp'.outs : /\ Within(o.smallest, InputsOf(comp'))
                              /\ Within(o.largest, InputsOf(comp'))
  BY <1>2, <1>3, <1>4, Zenon DEF Merging
<1>8. \A g, h \in comp'.outs : g # h => Apart(g, h)
  BY <1>2, <1>5, Zenon DEF Merging
<1>9. \A o \in comp'.outs : \A e \in comp'.todo : o.largest < e.key
  BY <1>2, <1>6, Zenon DEF Merging
<1> QED BY <1>2, <1>7, <1>8, <1>9, Zenon DEF Merging

\* No two files of a level overlap, in the version, the manifest and the edit.
LEMMA OverlapsStep ==
  ASSUME IInv, TInv, LInv, [Next]_vars
  PROVE  Overlaps'
<1>0. PICK B \in Nat : Front(B) /\ Data(B) /\ Versions(B)
  BY Zenon DEF TInv
<1>a. /\ Disjoint(manifest.current) /\ Disjoint(versions.current) /\ Disjoint(edit.current)
      /\ Merging(comp) /\ Fits(comp, versions.current)
      /\ bgpc \in {"log flush", "install flush"} => Fits(comp, edit.current)
      /\ bgpc \in {"idle", "scheduled", "log move", "install move"} => comp = NoMerge
      /\ comp.in0 = {} => comp = NoMerge
  BY Zenon DEF LInv, Overlaps
<1>b. /\ versions = [current |-> versions.current, log |-> versions.log,
                     next |-> versions.next, last |-> versions.last]
      /\ versions.current \in VersionsTo(B) /\ comp \in Merges(B)
  BY <1>0 DEF IInv, Shape, IsVersionSet, Versions, VersionSetsTo
<1>c. /\ Disjoint(NoVersion) /\ Merging(NoMerge) /\ NoEdit.current = NoVersion
      /\ \A v : Fits(NoMerge, v)
  BY NothingOverlaps
<1>d. Ranges
  BY DEF LInv
<1>1. CASE Steady
  BY <1>1, <1>a, Zenon DEF Steady, Overlaps
<1>2. CASE InstallMemTable
  <2>1. /\ versions' = [versions EXCEPT !.current = edit.current, !.log = edit.log]
        /\ bgpc = "install flush" /\ edit' = NoEdit /\ UNCHANGED <<manifest, comp>>
        /\ IF comp.in0 # {} THEN bgpc' = "merge" ELSE bgpc' \in Scheduled(0, edit.current)
    BY <1>2, Zenon DEF InstallMemTable
  <2>2. versions'.current = edit.current
    BY <1>b, <2>1
  <2>3. /\ bgpc' \notin {"log flush", "install flush"}
        /\ bgpc' \in {"idle", "scheduled", "log move", "install move"} => comp.in0 = {}
    BY <2>1, ScheduledStates
  <2> QED BY <1>a, <1>c, <2>1, <2>2, <2>3, Zenon DEF Overlaps
<1>3. CASE InstallMerge \/ InstallMove
  <2>1. /\ versions' = [versions EXCEPT !.current = edit.current]
        /\ edit' = NoEdit /\ manifest' = manifest
        /\ bgpc' \in Scheduled(imm, edit.current)
        /\ \/ comp' = NoMerge
           \/ bgpc = "install move" /\ comp' = comp
    BY <1>3, Zenon DEF InstallMerge, InstallMove, disk
  <2>2. versions'.current = edit.current
    BY <1>b, <2>1
  <2>3. bgpc' \notin {"log flush", "install flush"}
    BY <2>1, ScheduledStates
  <2>4. comp' = NoMerge
    BY <1>a, <2>1
  <2> QED BY <1>a, <1>c, <2>1, <2>2, <2>3, <2>4, Zenon DEF Overlaps
<1>4. CASE End
  <2>1. /\ versions' = manifest /\ manifest' = manifest /\ edit' = NoEdit /\ comp' = NoMerge
        /\ bgpc' = "idle"
    BY <1>4, Zenon DEF End, disk
  <2>2. bgpc' \notin {"log flush", "install flush"}
    BY <2>1
  <2> QED BY <1>a, <1>c, <2>1, <2>2, Zenon DEF Overlaps
<1>5. CASE WriteLevel0Table
  <2>1. PICK f \in FilesTo(B), l \in Levels, w \in VersionsTo(B) :
           /\ f.number = number
           /\ \A e \in memtable[imm] : f.smallest <= e.key /\ e.key <= f.largest
           /\ l \in MemTableLevels(versions.current, f)
           /\ edit' = Edit(w, mem) /\ Adds(B, versions.current, l, f, w)
    BY <1>0, <1>5, FlushedFile, Zenon
  <2>2. bgpc' = "log flush" /\ UNCHANGED <<manifest, versions, comp>>
    BY <1>5, Zenon DEF WriteLevel0Table
  <2>3. edit'.current = w
    BY <2>1 DEF Edit
  <2>4. Disjoint(w) /\ Fits(comp, w)
    BY <1>a, <1>b, <2>1, FlushFits, Zenon
  <2>5. bgpc' \notin {"idle", "scheduled", "log move", "install move"}
    BY <2>2
  <2> QED BY <1>a, <2>2, <2>3, <2>4, <2>5, Zenon DEF Overlaps
<1>6. CASE BackgroundCompaction
  <2>1. PICK l \in 0..(MaxLevel - 1) : \E f \in versions.current[l] :
          \E in \in Inputs(versions.current, l, PickCompaction(versions.current, l, f)) :
            \/ TrivialMove(versions.current, l, in)
            \/ StartMerge(versions.current, l, PickCompaction(versions.current, l, f), in)
    BY <1>6, Zenon DEF BackgroundCompaction
  <2>2. PICK f \in versions.current[l] :
          \E in \in Inputs(versions.current, l, PickCompaction(versions.current, l, f)) :
            \/ TrivialMove(versions.current, l, in)
            \/ StartMerge(versions.current, l, PickCompaction(versions.current, l, f), in)
    BY <2>1, Zenon
  <2> PICK in \in Inputs(versions.current, l, PickCompaction(versions.current, l, f)) :
          \/ TrivialMove(versions.current, l, in)
          \/ StartMerge(versions.current, l, PickCompaction(versions.current, l, f), in)
    BY <2>2, Zenon
  <2>3. bgpc = "scheduled" /\ UNCHANGED <<manifest, versions>>
    BY <1>6, Zenon DEF BackgroundCompaction, disk
  <2>4. CASE TrivialMove(versions.current, l, in)
    <3>1. in[1] \subseteq versions.current[l]
      BY InputsInVersion, Zenon
    <3>2. PICK w \in VersionsTo(B) :
            edit' = Edit(w, versions.log) /\ Moves(B, versions.current, l, in[1], w)
      BY <1>0, <2>4, <3>1, MovedVersion, Zenon
    <3>3. edit'.current = w
      BY <3>2 DEF Edit
    <3>4. comp' = comp /\ bgpc' = "log move" /\ Cardinality(in[1]) = 1 /\ in[2] = {}
      BY <2>4, Zenon DEF TrivialMove
    <3>5. Disjoint(w)
      BY <1>a, <1>b, <3>2, <3>4, MoveIsClear, Zenon
    <3>6. comp = NoMerge /\ bgpc' \notin {"log flush", "install flush"}
      BY <1>a, <2>3, <3>4
    <3> QED BY <1>a, <2>3, <3>3, <3>4, <3>5, <3>6, Zenon DEF Overlaps
  <2>5. CASE StartMerge(versions.current, l, PickCompaction(versions.current, l, f), in)
    <3>1. Merging(comp') /\ Fits(comp', versions.current) /\ comp'.in0 # {}
      BY <1>0, <1>a, <1>d, <2>5, MergeBegins, Zenon
    <3>2. edit' = edit /\ bgpc' = "merge"
      BY <2>5, Zenon DEF StartMerge
    <3>3. /\ bgpc' \notin {"log flush", "install flush"}
          /\ bgpc' \notin {"idle", "scheduled", "log move", "install move"}
      BY <3>2
    <3> QED BY <1>a, <2>3, <3>1, <3>2, <3>3, Zenon DEF Overlaps
  <2> QED BY <2>4, <2>5, Zenon
<1>7. CASE WriteOutput
  <2>1. /\ Merging(comp') /\ comp'.level = comp.level
        /\ comp'.in0 = comp.in0 /\ comp'.in1 = comp.in1
    BY <1>0, <1>7, <1>a, MergeGoesOn, Zenon
  <2>2. /\ UNCHANGED <<manifest, edit>> /\ bgpc = "merge" /\ bgpc' = "merge"
        /\ versions' = [versions EXCEPT !.next = @ + 1] /\ comp.todo # {}
    BY <1>7, Zenon DEF WriteOutput
  <2>3. versions'.current = versions.current
    BY <1>b, <2>2
  <2>4. Fits(comp', versions.current)
    BY <1>a, <2>1, Zenon DEF Fits, InputsOf
  <2>5. /\ bgpc' \notin {"log flush", "install flush"}
        /\ bgpc' \notin {"idle", "scheduled", "log move", "install move"}
    BY <2>2
  <2>6. comp.in0 # {}
    BY <1>a, <2>2 DEF NoMerge
  <2> QED BY <1>a, <2>1, <2>2, <2>3, <2>4, <2>5, <2>6, Zenon DEF Overlaps
<1>8. CASE InstallCompactionResults
  <2>1. PICK w \in VersionsTo(B), l \in 0..(MaxLevel - 1) :
           /\ l = comp.level /\ edit' = Edit(w, versions.log)
           /\ w[l] = versions.current[l] \ comp.in0
           /\ w[l + 1] = (versions.current[l + 1] \ comp.in1) \cup comp.outs
           /\ \A k \in Levels : k # l /\ k # l + 1 => w[k] = versions.current[k]
    BY <1>0, <1>8, MergedVersion, Zenon
  <2>2. UNCHANGED <<manifest, versions, comp>> /\ bgpc' = "log merge"
    BY <1>8, Zenon DEF InstallCompactionResults, disk
  <2>3. edit'.current = w
    BY <2>1 DEF Edit
  <2>4. Disjoint(w)
    BY <1>a, <1>b, <2>1, MergeIsClear, Zenon
  <2>5. /\ bgpc' \notin {"log flush", "install flush"}
        /\ bgpc' \notin {"idle", "scheduled", "log move", "install move"}
    BY <2>2
  <2> QED BY <1>a, <2>2, <2>3, <2>4, <2>5, Zenon DEF Overlaps
<1>9. CASE RecoverLogFile
  <2>1. up = "recover" /\ UNCHANGED <<manifest, edit, comp, bgpc>>
    BY <1>9, Zenon DEF RecoverLogFile, bg
  <2>2. comp = NoMerge
    BY <1>a, <2>1 DEF IInv, Phases
  <2>3. \A k \in 1..MaxLevel : versions'.current[k] = versions.current[k]
    <3>1. \A k \in 1..MaxLevel : k \in Levels /\ k # 0
      BY DEF Levels
    <3> QED BY <1>0, <1>9, <3>1, RecoveredLog, Zenon DEF Adds
  <2>4. Disjoint(versions'.current)
    BY <1>a, <2>3, Zenon DEF Disjoint
  <2> QED BY <1>a, <1>c, <2>1, <2>2, <2>4, Zenon DEF Overlaps
<1> QED BY <1>1, <1>2, <1>3, <1>4, <1>5, <1>6, <1>7, <1>8, <1>9, SteadySteps, Zenon

-----------------------------------------------------------------------------
(* The invariant holds in every state.                                     *)

LEMMA InitLInv == Init => LInv
<1> SUFFICES ASSUME Init PROVE LInv
  OBVIOUS
<1>1. /\ manifest.current = NoVersion /\ versions = manifest /\ edit = NoEdit
      /\ comp = NoMerge /\ bgpc = "idle"
  BY DEF Init
<1>2. /\ Disjoint(NoVersion) /\ Merging(NoMerge) /\ NoEdit.current = NoVersion
      /\ \A v : Fits(NoMerge, v)
  BY NothingOverlaps
<1>3. Overlaps
  BY <1>1, <1>2 DEF Overlaps
<1>4. NoMerge.outs = {} /\ \A l \in Levels : NoVersion[l] = {}
  BY DEF NoMerge, NoVersion
<1>5. Ranges
  BY <1>1, <1>2, <1>4, Zenon DEF Ranges
<1> QED BY <1>3, <1>5 DEF LInv

LEMMA AlwaysLInv == Spec => []LInv
<1>1. LInv /\ IInv /\ TInv /\ [Next]_vars => LInv'
  BY RangesStep, OverlapsStep DEF LInv
<1> QED BY <1>1, InitLInv, AlwaysTyped, PTL DEF Spec

\* Below level 0 no two files of the current version overlap, for every choice
\* of inputs, for a memtable flushed in the middle of a merge to the level the
\* merge writes to, and after an end of the process at any point (the assertion
\* in Builder::MaybeAddFile).
THEOREM LevelsAlwaysDisjoint == Spec => []LevelsDisjoint
<1>1. LInv => LevelsDisjoint
  BY Zenon DEF LInv, Overlaps, Disjoint, Apart, LevelsDisjoint
<1> QED BY <1>1, AlwaysLInv, PTL
=============================================================================
