-------------------------- MODULE DeviceTreeProofs --------------------------
(***************************************************************************)
(* Proofs about DeviceTreeTools, for any dumps, files, targets and sizes:  *)
(* what carve-dtb.py takes out of a dump and what it misses, what          *)
(* patch-extcon.py leaves alone, the names of the files that the patch     *)
(* scripts write, the index of the carved trees, the trees that the patch  *)
(* scripts write, and what fdt2dts.py shows of a tree.                     *)
(***************************************************************************)
EXTENDS DeviceTreeTools, DataLemmas, TLAPS

\* A slice of a tree has the cells between its bounds, and of these the ones the
\* tree has.
LEMMA SliceOfCells ==
  ASSUME NEW data \in Seq(Nat), NEW from \in Nat, NEW to \in Nat
  PROVE  /\ Slice(data, from, to) \in Seq(Nat)
         /\ from <= to => Len(Slice(data, from, to)) <= to - from
         /\ \A k \in 1..Len(Slice(data, from, to)) :
              /\ from + k \in 1..Len(data) /\ from + k <= to
              /\ Slice(data, from, to)[k] = data[from + k]
<1>1. PICK end \in Nat : /\ end <= Len(data) /\ end <= to
                         /\ Slice(data, from, to) = SubSeq(data, from + 1, end)
  BY SMTT(60) DEF Slice
<1>2. QED
  BY <1>1, SMTT(60)

\* A value takes a natural number of cells.
LEMMA WordsNat == ASSUME NEW n \in Nat PROVE Words(n) \in Nat
BY DEF Words

\* Where index(b'\0', ...) stops there is a NUL, and none before it.
LEMMA NulIndexInBlock ==
  ASSUME NEW blk \in Seq(Nat), NEW from \in Nat, NulsFrom(blk, from) # {}
  PROVE  /\ NulIndex(blk, from) \in from + 1 .. Len(blk)
         /\ HasNul(blk[NulIndex(blk, from)])
         /\ \A k \in from + 1 .. Len(blk) : HasNul(blk[k]) => NulIndex(blk, from) <= k
<1>1. NulsFrom(blk, from) \in SUBSET Nat
  BY DEF NulsFrom
<1>2. \E k \in NulsFrom(blk, from) : \A other \in NulsFrom(blk, from) : k <= other
  BY <1>1, LeastNat
<1>3. NulIndex(blk, from) \in NulsFrom(blk, from)
      /\ \A other \in NulsFrom(blk, from) : NulIndex(blk, from) <= other
  BY <1>2 DEF NulIndex
<1>4. QED
  BY <1>3 DEF NulsFrom

\* With its header a file has offsets and sizes, and blocks cut out by them.
LEMMA BlocksOfCells ==
  ASSUME NEW data \in Seq(Nat), Len(data) >= 10
  PROVE  /\ data[OFF_STRUCT] \in Nat /\ data[OFF_STRINGS] \in Nat
         /\ data[SIZE_STRUCT] \in Nat /\ data[SIZE_STRINGS] \in Nat
         /\ struct_blk(data) \in Seq(Nat) /\ strings_blk(data) \in Seq(Nat)
         /\ Len(struct_blk(data)) <= data[SIZE_STRUCT]
         /\ \A k \in 1..Len(struct_blk(data)) :
              /\ data[OFF_STRUCT] + k \in 1..Len(data)
              /\ struct_blk(data)[k] = data[data[OFF_STRUCT] + k]
<1>1. /\ data[OFF_STRUCT] \in Nat /\ data[OFF_STRINGS] \in Nat
      /\ data[SIZE_STRUCT] \in Nat /\ data[SIZE_STRINGS] \in Nat
  BY SMTT(60) DEF OFF_STRUCT, OFF_STRINGS, SIZE_STRUCT, SIZE_STRINGS
<1> DEFINE from == data[OFF_STRUCT]
           to == data[OFF_STRUCT] + data[SIZE_STRUCT]
<1>2. from \in Nat /\ to \in Nat /\ from <= to /\ to - from = data[SIZE_STRUCT]
  <2>1. \A x, y \in Nat : x + y \in Nat /\ x <= x + y /\ (x + y) - x = y
    OBVIOUS
  <2>2. QED
    BY <1>1, <2>1, Zenon
<1>3. data[OFF_STRINGS] + data[SIZE_STRINGS] \in Nat
  BY <1>1, SMTT(60)
<1>4. strings_blk(data) \in Seq(Nat)
  BY <1>1, <1>3, SliceOfCells, Zenon DEF strings_blk
<1> HIDE DEF to
<1>5. struct_blk(data) = Slice(data, from, to)
  BY Zenon DEF struct_blk, to
<1> HIDE DEF from
<1>6. /\ struct_blk(data) \in Seq(Nat)
      /\ Len(struct_blk(data)) <= data[SIZE_STRUCT]
      /\ \A k \in 1..Len(struct_blk(data)) :
           from + k \in 1..Len(data) /\ struct_blk(data)[k] = data[from + k]
  <2>1. /\ Slice(data, from, to) \in Seq(Nat)
        /\ Len(Slice(data, from, to)) <= to - from
        /\ \A k \in 1..Len(Slice(data, from, to)) :
             from + k \in 1..Len(data) /\ Slice(data, from, to)[k] = data[from + k]
    BY <1>2, SliceOfCells, Zenon
  <2>2. QED
    BY <1>2, <1>5, <2>1, Zenon
<1>7. QED
  BY <1>1, <1>4, <1>6 DEF from

\* The loop behind the scan keeps everything of what is already in order.
LEMMA DedupedKeeps ==
  ASSUME NEW found \in Seq([offset : Nat, totalsize : Nat]),
         \A j, k \in DOMAIN found : j < k => found[j].offset + found[j].totalsize <= found[k].offset
  PROVE  Deduped(found) = found
<1> DEFINE step(before, h) ==
             LET last == before[Len(before)]
             IN  IF before # << >> /\ last.offset + last.totalsize > h.offset
                 THEN before ELSE Append(before, h)
           body(f) == [k \in 0..Len(found) |->
                         IF k = 0 THEN << >> ELSE step(f[k - 1], found[k])]
           kept == CHOOSE f : f = body(f)
           whole == [k \in 0..Len(found) |-> SubSeq(found, 1, k)]
<1>1. Deduped(found) = kept[Len(found)]
  BY DEF Deduped
<1>2. ASSUME NEW k \in 1..Len(found)
      PROVE  step(SubSeq(found, 1, k - 1), found[k]) = SubSeq(found, 1, k)
  <2>1. k - 1 \in 0..Len(found) /\ (k = 1 \/ k - 1 \in DOMAIN found)
    OBVIOUS
  <2>2. SubSeq(found, 1, k) = Append(SubSeq(found, 1, k - 1), found[k])
    BY <2>1, SMTT(60)
  <2>3. CASE k = 1
    <3>1. SubSeq(found, 1, k - 1) = << >>
      BY <2>3
    <3>2. QED
      BY <2>2, <3>1
  <2>4. CASE k - 1 \in DOMAIN found
    <3> DEFINE before == SubSeq(found, 1, k - 1)
    <3>1. before[Len(before)] = found[k - 1]
      BY <2>4, SMTT(60)
    <3>2. found[k - 1].offset + found[k - 1].totalsize <= found[k].offset
      BY <2>4
    <3>3. /\ found[k - 1] \in [offset : Nat, totalsize : Nat]
          /\ found[k] \in [offset : Nat, totalsize : Nat]
      <4>1. k \in 1..Len(found) /\ k - 1 \in 1..Len(found)
        BY <2>4
      <4>2. QED
        BY <4>1, ElementsOf, Zenon
    <3>4. ~(found[k - 1].offset + found[k - 1].totalsize > found[k].offset)
      BY <3>2, <3>3, SMTT(60)
    <3> HIDE DEF before
    <3>5. step(before, found[k]) = Append(before, found[k])
      BY <3>1, <3>4
    <3>6. QED
      BY <2>2, <3>5 DEF before
  <2>5. QED
    BY <2>1, <2>3, <2>4
<1> HIDE DEF step
<1>3. whole = body(whole)
  <2>1. ASSUME NEW k \in 0..Len(found) PROVE whole[k] = body(whole)[k]
    <3>1. CASE k = 0
      BY <3>1
    <3>2. CASE k # 0
      <4>1. k \in 1..Len(found) /\ k - 1 \in 0..Len(found)
        BY <3>2
      <4>2. whole[k - 1] = SubSeq(found, 1, k - 1)
        BY <4>1
      <4>3. body(whole)[k] = step(SubSeq(found, 1, k - 1), found[k])
        BY <3>2, <4>2
      <4>4. QED
        BY <1>2, <4>1, <4>3
    <3>3. QED
      BY <3>1, <3>2
  <2>2. QED
    BY <2>1
<1>4. kept = body(kept)
  BY <1>3
<1>5. /\ kept[0] = << >>
      /\ \A k \in 1..Len(found) : kept[k] = step(kept[k - 1], found[k])
  <2> HIDE DEF kept
  <2>1. \A k \in 0..Len(found) : kept[k] = body(kept)[k]
    BY <1>4
  <2>2. QED
    BY <2>1
<1> HIDE DEF kept, whole
<1>6. ASSUME NEW k \in 0..Len(found) PROVE kept[k] = SubSeq(found, 1, k)
  <2> DEFINE S == {i \in Nat : i <= Len(found) => kept[i] = SubSeq(found, 1, i)}
  <2>1. 0 \in S
    <3>1. SubSeq(found, 1, 0) = << >>
      OBVIOUS
    <3>2. QED
      BY <1>5, <3>1
  <2>2. ASSUME NEW i \in S PROVE i + 1 \in S
    <3>1. SUFFICES ASSUME i + 1 <= Len(found) PROVE kept[i + 1] = SubSeq(found, 1, i + 1)
      OBVIOUS
    <3>2. i + 1 \in 1..Len(found) /\ (i + 1) - 1 = i
      BY <3>1
    <3>3. kept[i] = SubSeq(found, 1, i)
      BY <3>2
    <3>4. kept[i + 1] = step(SubSeq(found, 1, i), found[i + 1])
      BY <1>5, <3>2, <3>3
    <3>5. QED
      BY <1>2, <3>2, <3>4
  <2> HIDE DEF S
  <2>3. S \in SUBSET Nat
    BY DEF S
  <2>4. S = Nat
    BY <2>1, <2>2, <2>3, Induction
  <2>5. QED
    BY <2>4 DEF S
<1>7. QED
  BY <1>1, <1>6

\* What patch-drmode.py writes is made of cells.
LEMMA NewDataCells ==
  ASSUME NEW data \in Seq(Nat), Len(data) >= 10, NEW block \in Seq(Nat)
  PROVE  NewData(data, block) \in Seq(Nat)
<1>1. data[OFF_STRUCT] \in Nat /\ data[OFF_STRINGS] \in Nat
  BY BlocksOfCells
<1>2. Slice(data, 0, data[OFF_STRUCT]) \in Seq(Nat)
  BY <1>1, SliceOfCells
<1>3. Slice(data, data[OFF_STRINGS], Len(data)) \in Seq(Nat)
  BY <1>1, SliceOfCells
<1>4. Moved(data, block) \in Seq(Nat)
  BY <1>2, <1>3 DEF Moved
<1>5. Len(Moved(data, block)) \in Nat /\ Len(block) \in Nat /\ data[OFF_STRUCT] + Len(block) \in Nat
  BY <1>1, <1>4, SMTT(60)
<1> DEFINE one == [Moved(data, block) EXCEPT ![TOTALSIZE] = Len(Moved(data, block))]
           two == [one EXCEPT ![OFF_STRINGS] = data[OFF_STRUCT] + Len(block)]
<1>6. one \in Seq(Nat)
  BY <1>4, <1>5, SeqExcept
<1>7. two \in Seq(Nat)
  BY <1>5, <1>6, SeqExcept
<1>8. [two EXCEPT ![SIZE_STRUCT] = Len(block)] \in Seq(Nat)
  BY <1>5, <1>7, SeqExcept
<1>9. QED
  BY <1>8 DEF NewData

\* What patch-extcon.py writes has the length of what it read, and its cells
\* outside of the structure block.
LEMMA ReplacedCells ==
  ASSUME NEW data \in Seq(Nat), Len(data) >= 10, NEW block \in Seq(Nat)
  PROVE  /\ Replaced(data, block) \in Seq(Nat) /\ Len(Replaced(data, block)) = Len(data)
         /\ \A k \in 1..Len(data) :
              Replaced(data, block)[k] =
                IF k > data[OFF_STRUCT] /\ k <= data[OFF_STRUCT] + Len(block)
                THEN block[k - data[OFF_STRUCT]] ELSE data[k]
<1> DEFINE new == Replaced(data, block)
<1>1. data[OFF_STRUCT] \in Nat /\ Len(block) \in Nat /\ Len(data) \in Nat
  BY BlocksOfCells
<1>2. \A k \in 1..Len(data) :
        new[k] = IF k > data[OFF_STRUCT] /\ k <= data[OFF_STRUCT] + Len(block)
                 THEN block[k - data[OFF_STRUCT]] ELSE data[k]
  BY DEF Replaced
<1> HIDE DEF new
<1>3. ASSUME NEW k \in 1..Len(data) PROVE new[k] \in Nat
  <2>1. CASE k > data[OFF_STRUCT] /\ k <= data[OFF_STRUCT] + Len(block)
    <3>1. k - data[OFF_STRUCT] \in 1..Len(block)
      BY <1>1, <2>1, SMTT(60)
    <3>2. block[k - data[OFF_STRUCT]] \in Nat
      BY <3>1, ElementsOf, Zenon
    <3>3. new[k] = block[k - data[OFF_STRUCT]]
      BY <1>2, <2>1
    <3>4. QED
      BY <3>2, <3>3
  <2>2. CASE ~(k > data[OFF_STRUCT] /\ k <= data[OFF_STRUCT] + Len(block))
    <3>1. new[k] = data[k]
      BY <1>2, <2>2
    <3>2. QED
      BY <3>1, ElementsOf, Zenon
  <2>3. QED
    BY <2>1, <2>2
<1>4. new \in [1..Len(data) -> Nat]
  BY <1>3 DEF new, Replaced
<1>5. new \in Seq(Nat) /\ Len(new) = Len(data)
  BY <1>1, <1>4, FunctionIsSeq, Zenon
<1>6. QED
  BY <1>2, <1>5 DEF new

\* The states in which a patch script holds a block it has cut out.
CellWalk == {"drmode", "drmode_write", "extcon", "extcon_write"}

\* A script that walks over a tree has seen that there is a header, and what it is
\* to write are cells.
WalkInv ==
    /\ pc \in CellWalk \cup {"dump"} => Len(file.data) >= 10
    /\ pc \in CellWalk => out \in Seq(Nat)

\* Every tree taken is plausible where it was found, they are in order, the scan
\* is behind the last, and the summary is one of trees already written.
CarveInv ==
    /\ \A k \in DOMAIN Targets : part[Targets[k]] = None \/ IsDump(part[Targets[k]])
    /\ pc \in {"scan", "write"} =>
         /\ target \in DOMAIN Targets /\ IsDump(Dump)
         /\ \A k \in 1..Len(hits) :
              Plausible(Dump, hits[k].offset) /\ hits[k] = Blob(Dump, hits[k].offset)
         /\ \A j, k \in 1..Len(hits) :
              j < k => hits[j].offset + hits[j].totalsize <= hits[k].offset
    /\ pc = "write" =>
         /\ Targets[target] \in DOMAIN summary /\ Written <= Len(hits)
         /\ \E S : summary[Targets[target]] \in Seq(S)
    /\ pc = "scan" => \A k \in 1..Len(hits) : hits[k].offset + hits[k].totalsize <= pos

\* The type invariant, with what makes it inductive.
TypeInv == TypeOK /\ WalkInv /\ CarveInv

\* At the start, nothing has been taken or read.
LEMMA InitTypes == Init => TypeInv
<1>1. SUFFICES ASSUME Init PROVE TypeInv
  OBVIOUS
<1>2. PICK s \in Setups : part = s.part /\ dir = s.dir
  BY <1>1 DEF Init
<1>3. TypeOK
  BY <1>1, <1>2, SizesAssumption, TargetsAssumption, SetupsAssumption DEF Init, TypeOK
<1>4. WalkInv /\ CarveInv
  BY <1>1, <1>2, SetupsAssumption DEF Init, WalkInv, CarveInv, CellWalk
<1>5. QED
  BY <1>3, <1>4 DEF TypeInv

\* Starting a script keeps the types.
LEMMA StartsTyped ==
  ASSUME TypeInv, Carve \/ RunDrmode \/ RunExtcon \/ RunDump
  PROVE  TypeInv'
<1> USE DEF TypeInv
<1>1. CASE Carve
  BY <1>1, SizesAssumption, TargetsAssumption
     DEF Carve, Start, walk, TypeOK, WalkInv, CellWalk, CarveInv
<1>2. ASSUME NEW name \in DOMAIN dir, NEW to, NEW prop,
             NEW first \in {"drmode_open", "extcon_open", "dump_open"},
             Read(name, to, prop, first)
      PROVE  TypeInv'
  <2>1. runs' \in 0..MaxRuns
    BY <1>2, SizesAssumption DEF Read, Start, TypeOK
  <2>2. file'.data \in Seq(Nat)
    BY <1>2 DEF Read, TypeOK, IsFile
  <2>3. QED
    BY <1>2, <2>1, <2>2 DEF Read, Start, carving, TypeOK, WalkInv, CellWalk, CarveInv
<1>3. QED
  BY <1>1, <1>2 DEF RunDrmode, RunExtcon, RunDump

\* A step of another script leaves what is said of the scan alone.
LEMMA NotCarving ==
  ASSUME CarveInv, UNCHANGED part, pc' \notin {"scan", "write"}
  PROVE  CarveInv'
BY DEF CarveInv

\* A step of carve-dtb.py keeps the types; one that takes a tree puts it behind
\* the others.
LEMMA CarveTyped ==
  ASSUME TypeInv, CarveStep
  PROVE  TypeInv'
<1> USE DEF TypeInv
<1>1. CASE NextTarget
  <2>1. CASE Dump = None
    <3>1. target' \in 1..Len(Targets) + 1
      BY <1>1, <2>1, TargetsAssumption DEF NextTarget, TypeOK
    <3>2. QED
      BY <1>1, <2>1, <3>1 DEF NextTarget, CarveUnchanged, TypeOK, WalkInv, CellWalk, CarveInv
  <2>2. CASE Dump # None
    <3>1. target \in DOMAIN Targets
      BY <1>1, TargetsAssumption DEF NextTarget, TypeOK
    <3>2. IsDump(Dump)
      BY <2>2, <3>1 DEF CarveInv, Dump
    <3>3. IsDump(Dump')
      BY <1>1, <2>2, <3>2 DEF NextTarget, CarveUnchanged, Dump
    <3>4. CarveInv'
      BY <1>1, <2>2, <3>1, <3>3 DEF NextTarget, CarveUnchanged, CarveInv
    <3>5. QED
      BY <1>1, <2>2, <3>4 DEF NextTarget, CarveUnchanged, TypeOK, WalkInv, CellWalk
  <2>3. QED
    BY <2>1, <2>2
<1>2. CASE WriteIndex
  BY <1>2 DEF WriteIndex, Exit, walk, carving, TypeOK, WalkInv, CellWalk, CarveInv
<1>3. CASE TakeBlob
  <2>1. pc = "scan" /\ pos \in Nat /\ Plausible(Dump, pos) /\ IsDump(Dump)
    BY <1>3 DEF TakeBlob, Scanning, TypeOK, CarveInv
  <2> DEFINE size == Dump.magic[pos].totalsize
             blob == Blob(Dump, pos)
  <2>2. size \in Nat
    BY <2>1 DEF Plausible, IsDump
  <2>3. blob \in [offset : Nat, totalsize : Nat] /\ blob.offset = pos /\ blob.totalsize = size
    BY <2>1, <2>2 DEF Blob
  <2>4. Dump' = Dump
    BY <1>3 DEF TakeBlob, CarveUnchanged, Dump
  <2>5. pos' = pos + size /\ hits' = Append(hits, blob) /\ pc' = "scan" /\ UNCHANGED <<part, target>>
    BY <1>3, <2>1 DEF TakeBlob, CarveUnchanged
  <2>6. pos' \in Nat /\ pos <= pos'
    BY <2>1, <2>2, <2>5
  <2> HIDE DEF size, blob
  <2>7. /\ hits' \in Seq([offset : Nat, totalsize : Nat])
        /\ Len(hits') = Len(hits) + 1 /\ hits'[Len(hits) + 1] = blob
        /\ \A k \in 1..Len(hits) : hits'[k] = hits[k]
    BY <2>3, <2>5 DEF TypeOK
  <2>8. \A k \in 1..Len(hits) : /\ hits[k] \in [offset : Nat, totalsize : Nat]
                               /\ hits[k].offset + hits[k].totalsize <= pos
    BY <2>1, ElementsOf DEF TypeOK, CarveInv
  <2>9. \A k \in 1..Len(hits') : k \in 1..Len(hits) \/ k = Len(hits) + 1
    BY <2>7 DEF TypeOK
  <2>10. CarveInv'
    <3>1. \A k \in 1..Len(hits') :
            Plausible(Dump', hits'[k].offset) /\ hits'[k] = Blob(Dump', hits'[k].offset)
      BY <2>1, <2>3, <2>4, <2>7, <2>9 DEF CarveInv, blob
    <3>2. ASSUME NEW j \in 1..Len(hits'), NEW k \in 1..Len(hits'), j < k
          PROVE  hits'[j].offset + hits'[j].totalsize <= hits'[k].offset
      <4>1. j \in 1..Len(hits)
        BY <2>7, <3>2 DEF TypeOK
      <4>2. CASE k \in 1..Len(hits)
        BY <2>1, <2>7, <3>2, <4>1, <4>2 DEF CarveInv
      <4>3. CASE k = Len(hits) + 1
        BY <2>3, <2>7, <2>8, <4>1, <4>3
      <4>4. QED
        BY <2>9, <4>2, <4>3
    <3>3. ASSUME NEW k \in 1..Len(hits') PROVE hits'[k].offset + hits'[k].totalsize <= pos'
      <4>1. CASE k \in 1..Len(hits)
        <5>1. /\ hits'[k] = hits[k] /\ hits[k].offset \in Nat /\ hits[k].totalsize \in Nat
              /\ hits[k].offset + hits[k].totalsize <= pos
          BY <2>7, <2>8, <4>1
        <5>2. QED
          BY <2>1, <2>6, <5>1
      <4>2. CASE k = Len(hits) + 1
        BY <2>3, <2>5, <2>7, <4>2
      <4>3. QED
        BY <2>9, <4>1, <4>2
    <3>4. QED
      BY <2>1, <2>4, <2>5, <3>1, <3>2, <3>3 DEF CarveInv
  <2>11. QED
    BY <1>3, <2>5, <2>6, <2>7, <2>10 DEF TakeBlob, CarveUnchanged, TypeOK, WalkInv, CellWalk
<1>4. CASE SkipWord
  <2>1. pos' = pos + 4 /\ pos \in Nat /\ pos' \in Nat /\ pc = "scan"
    BY <1>4 DEF SkipWord, Scanning, TypeOK
  <2>2. \A k \in 1..Len(hits) : hits[k] \in [offset : Nat, totalsize : Nat]
    BY ElementsOf DEF TypeOK
  <2>3. \A k \in 1..Len(hits) : hits[k].offset + hits[k].totalsize <= pos'
    BY <2>1, <2>2 DEF CarveInv
  <2>4. CarveInv'
    BY <1>4, <2>1, <2>3 DEF SkipWord, CarveUnchanged, CarveInv, Dump
  <2>5. QED
    BY <1>4, <2>1, <2>4 DEF SkipWord, CarveUnchanged, TypeOK, WalkInv, CellWalk
<1>5. CASE Dedupe
  <2>1. \A j, k \in DOMAIN hits : j < k => hits[j].offset + hits[j].totalsize <= hits[k].offset
    <3>1. DOMAIN hits = 1..Len(hits)
      BY DEF TypeOK
    <3>2. QED
      BY <1>5, <3>1 DEF Dedupe, CarveInv
  <2>2. hits' = hits
    BY <1>5, <2>1, DedupedKeeps DEF Dedupe, TypeOK
  <2>3. /\ Targets[target'] \in DOMAIN summary' /\ summary'[Targets[target']] = << >>
        /\ target' = target /\ pc' = "write" /\ UNCHANGED part
    BY <1>5 DEF Dedupe, Put, CarveUnchanged
  <2>4. Written' = 0 /\ Len(hits') \in Nat
    BY <2>2, <2>3 DEF Written, TypeOK
  <2>5. CarveInv'
    <3>1. << >> \in Seq({})
      OBVIOUS
    <3>2. /\ Targets[target'] \in DOMAIN summary' /\ Written' <= Len(hits')
          /\ \E S : summary'[Targets[target']] \in Seq(S)
      BY <2>3, <2>4, <3>1
    <3>3. QED
      BY <1>5, <2>2, <2>3, <3>2 DEF Dedupe, CarveInv, Dump
  <2>6. DOMAIN summary' \subseteq {Targets[k] : k \in DOMAIN Targets}
    BY <1>5 DEF Dedupe, Put, TypeOK, CarveInv
  <2>7. QED
    BY <1>5, <2>2, <2>5, <2>6 DEF Dedupe, CarveUnchanged, TypeOK, WalkInv, CellWalk
<1>6. CASE WriteBlob
  <2> DEFINE t == Targets[target]
             h == hits[Written + 1]
             name == BlobName(t, Written)
             entry == [file |-> name, offset |-> h.offset, totalsize |-> h.totalsize]
  <2>1. PICK S : summary[t] \in Seq(S)
    BY <1>6 DEF WriteBlob, CarveInv
  <2>2. Written \in Nat /\ t \in DOMAIN summary
    BY <1>6, <2>1 DEF WriteBlob, CarveInv, Written
  <2>3. Written + 1 \in 1..Len(hits)
    BY <1>6, <2>2, SMTT(60) DEF WriteBlob, TypeOK
  <2>4. IsFile(Dump.magic[h.offset].file)
    BY <1>6, <2>3 DEF WriteBlob, CarveInv, Plausible, IsDump
  <2>5. /\ dir' = Put(dir, name, Dump.magic[h.offset].file)
        /\ summary' = [summary EXCEPT ![t] = Append(@, entry)]
        /\ UNCHANGED <<pc, part, target, hits, pos>> /\ pc = "write"
    BY <1>6 DEF WriteBlob, CarveUnchanged
  <2> HIDE DEF t, h, name, entry
  <2>6. \A f \in DOMAIN dir' : IsFile(dir'[f])
    BY <2>4, <2>5 DEF TypeOK, Put
  <2>7. DOMAIN summary' = DOMAIN summary /\ summary'[t] = Append(summary[t], entry)
    BY <2>2, <2>5
  <2>8. summary'[t] \in Seq(S \cup {entry}) /\ Len(summary'[t]) = Len(summary[t]) + 1
    <3>1. summary[t] \in Seq(S \cup {entry})
      BY <2>1, SeqMonotone
    <3>2. QED
      BY <2>7, <3>1
  <2>9. CarveInv'
    <3>1. t' = t /\ Dump' = Dump /\ Written' = Written + 1
      BY <2>5, <2>8 DEF t, Dump, Written
    <3>2. Written' <= Len(hits')
      BY <2>3, <2>5, <3>1
    <3>3. Targets[target'] = t /\ t = Targets[target]
      BY <2>5 DEF t
    <3>4. QED
      BY <2>2, <2>5, <2>7, <2>8, <3>1, <3>2, <3>3 DEF CarveInv
  <2>10. QED
    BY <1>6, <2>5, <2>6, <2>7, <2>9 DEF WriteBlob, CarveUnchanged, TypeOK, WalkInv, CellWalk
<1>7. CASE CarveDone
  <2>1. target' \in 1..Len(Targets) + 1
    BY <1>7, TargetsAssumption DEF CarveDone, CarveInv
  <2>2. QED
    BY <1>7, <2>1 DEF CarveDone, CarveUnchanged, TypeOK, WalkInv, CellWalk, CarveInv
<1>8. QED
  BY <1>1, <1>2, <1>3, <1>4, <1>5, <1>6, <1>7 DEF CarveStep

\* A step of patch-drmode.py keeps the types.
LEMMA DrmodeTyped ==
  ASSUME TypeInv, DrmodeStep
  PROVE  TypeInv'
<1> USE DEF TypeInv
<1>1. pc \in {"drmode", "drmode_write"} =>
        /\ Block \in Seq(Nat) /\ Strings \in Seq(Nat)
        /\ Len(file.data) >= 10 /\ out \in Seq(Nat)
  BY BlocksOfCells DEF WalkInv, CellWalk, TypeOK, Block, Strings
<1>2. ASSUME NEW next \in Nat, Copy(next), pc = "drmode"
      PROVE  out' \in Seq(Nat) /\ pos' \in Nat
  <2>1. Slice(Block, pos, next) \in Seq(Nat)
    BY <1>1, <1>2, SliceOfCells DEF TypeOK
  <2>2. QED
    BY <1>1, <1>2, <2>1 DEF Copy
<1>3. ASSUME out' \in Seq(Nat), pos' \in Nat, npatched' \in Nat, pc = "drmode",
             pc' \in {"idle", "drmode", "drmode_write"}, ret' \in {"ok", "error"},
             DrmodeUnchanged
      PROVE  TypeInv'
  <2>1. CarveInv'
    BY <1>3, NotCarving DEF DrmodeUnchanged
  <2>2. TypeOK'
    BY <1>3 DEF DrmodeUnchanged, carving, TypeOK
  <2>3. WalkInv'
    BY <1>1, <1>3 DEF DrmodeUnchanged, WalkInv, CellWalk
  <2>4. QED
    BY <2>1, <2>2, <2>3
<1>4. CASE OpenDrmode
  <2>1. CarveInv'
    BY <1>4, NotCarving DEF OpenDrmode, Exit
  <2>2. TypeOK'
    BY <1>4 DEF OpenDrmode, Exit, carving, TypeOK
  <2>3. WalkInv'
    BY <1>4 DEF OpenDrmode, OpensAsTree, Exit, WalkInv, CellWalk
  <2>4. QED
    BY <2>1, <2>2, <2>3
<1>5. CASE DrmodeBeginNode
  <2>1. CASE NulsFrom(Block, pos + 1) = {}
    BY <1>1, <1>3, <1>5, <2>1 DEF DrmodeBeginNode, Exit, TypeOK
  <2>2. CASE NulsFrom(Block, pos + 1) # {}
    <3>1. NulIndex(Block, pos + 1) \in Nat
      <4>1. pos + 1 \in Nat /\ Block \in Seq(Nat)
        BY <1>1, <1>5 DEF DrmodeBeginNode, TypeOK
      <4>2. NulIndex(Block, pos + 1) \in (pos + 1) + 1 .. Len(Block)
        BY <2>2, <4>1, NulIndexInBlock
      <4>3. QED
        BY <4>1, <4>2
    <3>2. out' \in Seq(Nat) /\ pos' \in Nat
      BY <1>2, <1>5, <2>2, <3>1 DEF DrmodeBeginNode
    <3>3. QED
      BY <1>3, <1>5, <2>2, <3>2 DEF DrmodeBeginNode, TypeOK
  <2>3. QED
    BY <2>1, <2>2
<1>6. CASE DrmodeCopyToken
  <2>1. out' \in Seq(Nat) /\ pos' \in Nat
    BY <1>2, <1>6 DEF DrmodeCopyToken, TypeOK
  <2>2. QED
    BY <1>3, <1>6, <2>1 DEF DrmodeCopyToken, TypeOK
<1>7. CASE DrmodeProp
  <2>1. CASE PropCut \/ NulsFrom(Strings, Block[pos + 3]) = {}
    BY <1>1, <1>3, <1>7, <2>1 DEF DrmodeProp, Exit, TypeOK
  <2>2. CASE ~(PropCut \/ NulsFrom(Strings, Block[pos + 3]) = {})
    <3>1. pos + 2 \in 1..Len(Block) /\ pos + 3 \in 1..Len(Block)
      <4>1. pos \in Nat /\ Len(Block) \in Nat /\ ~(pos + 3 > Len(Block))
        BY <1>1, <1>7, <2>2 DEF DrmodeProp, PropCut, TypeOK
      <4>2. QED
        BY <4>1
    <3>2. Block[pos + 2] \in Nat /\ Block[pos + 3] \in Nat
      <4>1. Block \in Seq(Nat)
        BY <1>1, <1>7 DEF DrmodeProp
      <4>2. QED
        BY <3>1, <4>1, ElementsOf, Zenon
    <3>3. ValueEnd \in Nat
      <4>1. Words(Block[pos + 2]) \in Nat
        BY <3>2, WordsNat
      <4>2. pos \in Nat
        BY DEF TypeInv, TypeOK
      <4> DEFINE w == Words(Block[pos + 2])
      <4>3. w \in Nat
        BY <4>1
      <4> HIDE DEF w
      <4>4. pos + 3 + w \in Nat
        BY <4>2, <4>3
      <4>5. QED
        BY <4>4 DEF ValueEnd, w
    <3>4. Slice(Block, pos, ValueEnd) \in Seq(Nat)
      BY <1>1, <1>7, <3>3, SliceOfCells DEF DrmodeProp, TypeOK
    <3>5. NewProp \in Seq(Nat)
      BY <3>2 DEF NewProp, PROP, peripheral
    <3>6. /\ pos' = ValueEnd
          /\ \/ out' = out \o NewProp /\ npatched' = npatched + 1
             \/ out' = out \o Slice(Block, pos, ValueEnd) /\ npatched' = npatched
      BY <1>7, <2>2 DEF DrmodeProp
    <3>7. out' \in Seq(Nat) /\ npatched' \in Nat /\ pos' \in Nat
      <4>1. out \in Seq(Nat) /\ npatched \in Nat
        BY <1>1, <1>7 DEF DrmodeProp, TypeOK
      <4>2. out \o NewProp \in Seq(Nat) /\ out \o Slice(Block, pos, ValueEnd) \in Seq(Nat)
        BY <3>4, <3>5, <4>1
      <4>3. npatched + 1 \in Nat
        BY <4>1
      <4>4. QED
        BY <3>3, <3>6, <4>1, <4>2, <4>3, Zenon
    <3>8. QED
      BY <1>3, <1>7, <2>2, <3>7 DEF DrmodeProp, TypeOK
  <2>3. QED
    BY <2>1, <2>2
<1>8. CASE DrmodeUnknownToken
  BY <1>1, <1>3, <1>8 DEF DrmodeUnknownToken, Exit, TypeOK
<1>9. CASE DrmodeEnd
  <2>1. out' \in Seq(Nat) /\ pos' \in Nat
    BY <1>1, <1>2, <1>9 DEF DrmodeEnd, TypeOK
  <2>2. QED
    BY <1>3, <1>9, <2>1 DEF DrmodeEnd, TypeOK
<1>10. CASE DrmodeWrite
  <2>1. NewData(file.data, out) \in Seq(Nat)
    BY <1>1, <1>10, NewDataCells DEF DrmodeWrite, TypeOK
  <2>2. CarveInv'
    BY <1>10, NotCarving DEF DrmodeWrite, Exit
  <2>3. \A f \in DOMAIN dir' : IsFile(dir'[f])
    BY <1>10, <2>1 DEF DrmodeWrite, Put, IsFile, TypeOK
  <2>4. QED
    BY <1>10, <2>2, <2>3 DEF DrmodeWrite, Exit, walk, carving, TypeOK, WalkInv, CellWalk
<1>11. QED
  BY <1>4, <1>5, <1>6, <1>7, <1>8, <1>9, <1>10 DEF DrmodeStep

\* A step of patch-extcon.py keeps the types.
LEMMA ExtconTyped ==
  ASSUME TypeInv, ExtconStep
  PROVE  TypeInv'
<1> USE DEF TypeInv
<1>1. pc \in {"extcon", "extcon_write"} =>
        /\ Len(file.data) >= 10 /\ out \in Seq(Nat) /\ Len(out) \in Nat
        /\ struct_blk(file.data) \in Seq(Nat) /\ NameStrings \in Seq(Nat)
  BY BlocksOfCells DEF WalkInv, CellWalk, TypeOK, NameStrings
<1>2. pos \in Nat
  BY DEF TypeOK
<1>3. ASSUME out' \in Seq(Nat), pos' \in Nat, npatched' \in Nat, pc = "extcon",
             pc' \in {"idle", "extcon", "extcon_write"}, ret' \in {"ok", "error"},
             ExtconUnchanged
      PROVE  TypeInv'
  <2>1. CarveInv'
    BY <1>3, NotCarving DEF ExtconUnchanged
  <2>2. TypeOK'
    BY <1>3 DEF ExtconUnchanged, carving, TypeOK
  <2>3. WalkInv'
    BY <1>1, <1>3 DEF ExtconUnchanged, WalkInv, CellWalk
  <2>4. QED
    BY <2>1, <2>2, <2>3
<1>4. CASE OpenExtcon
  <2>1. CarveInv'
    BY <1>4, NotCarving DEF OpenExtcon, Exit, ExtconUnchanged
  <2>2. TypeOK'
    BY <1>4 DEF OpenExtcon, Exit, ExtconUnchanged, carving, TypeOK
  <2>3. WalkInv'
    <3>1. OpensAsTree(file.data) => Len(file.data) >= 10 /\ struct_blk(file.data) \in Seq(Nat)
      BY BlocksOfCells DEF OpensAsTree, TypeOK
    <3>2. QED
      BY <1>4, <3>1 DEF OpenExtcon, Exit, ExtconUnchanged, WalkInv, CellWalk
  <2>4. QED
    BY <2>1, <2>2, <2>3
<1>5. CASE ExtconBeginNode
  <2>1. CASE NulsFrom(out, pos + 1) = {}
    BY <1>1, <1>3, <1>5, <2>1 DEF ExtconBeginNode, Exit, TypeOK
  <2>2. CASE NulsFrom(out, pos + 1) # {}
    <3>1. NulIndex(out, pos + 1) \in Nat
      <4>1. pos + 1 \in Nat /\ out \in Seq(Nat)
        BY <1>1, <1>5 DEF ExtconBeginNode, TypeOK
      <4>2. NulIndex(out, pos + 1) \in (pos + 1) + 1 .. Len(out)
        BY <2>2, <4>1, NulIndexInBlock
      <4>3. QED
        BY <4>1, <4>2
    <3>2. QED
      BY <1>1, <1>3, <1>5, <2>2, <3>1 DEF ExtconBeginNode, TypeOK
  <2>3. QED
    BY <2>1, <2>2
<1>6. CASE ExtconSkipToken
  BY <1>1, <1>2, <1>3, <1>6, SMTT(60) DEF ExtconSkipToken, TypeOK
<1>7. CASE ExtconProp
  <2>1. pos + 3 <= Len(out) => PropEnd \in Nat
    <3>1. SUFFICES ASSUME pos + 3 <= Len(out) PROVE PropEnd \in Nat
      OBVIOUS
    <3>2. pos + 2 \in 1..Len(out)
      BY <1>1, <1>2, <1>7, <3>1 DEF ExtconProp
    <3>3. Words(out[pos + 2]) \in Nat
      <4>1. out \in Seq(Nat)
        BY <1>1, <1>7 DEF ExtconProp
      <4>2. out[pos + 2] \in Nat
        BY <3>2, <4>1, ElementsOf, Zenon
      <4>3. QED
        BY <4>2, WordsNat
    <3>4. QED
      BY <1>2, <3>3 DEF PropEnd
  <2>2. NopOut(out, pos, PropEnd) \in Seq(Nat)
    <3>1. \A k \in 1..Len(out) : NopOut(out, pos, PropEnd)[k] \in Nat
      BY <1>1, <1>7 DEF ExtconProp, NopOut, NOP
    <3>2. QED
      BY <1>1, <1>7, <3>1 DEF ExtconProp, NopOut
  <2>3. \/ UNCHANGED <<out, pos, npatched>>
        \/ UNCHANGED <<out, npatched>> /\ pos' = PropEnd /\ pos + 3 <= Len(out)
        \/ /\ out' = NopOut(out, pos, PropEnd) /\ pos' = PropEnd /\ npatched' = npatched + 1
           /\ pos + 3 <= Len(out)
    BY <1>1, <1>2, <1>7 DEF ExtconProp
  <2>4. out' \in Seq(Nat) /\ pos' \in Nat /\ npatched' \in Nat
    <3>1. out \in Seq(Nat) /\ npatched \in Nat
      BY <1>1, <1>7 DEF ExtconProp, TypeOK
    <3>2. QED
      BY <1>2, <2>1, <2>2, <2>3, <3>1
  <2>5. pc' \in {"idle", "extcon"} /\ ret' \in {"ok", "error"} /\ ExtconUnchanged /\ pc = "extcon"
    BY <1>7 DEF ExtconProp, Exit, TypeOK
  <2>6. QED
    BY <1>3, <2>4, <2>5
<1>8. CASE ExtconUnknownToken
  BY <1>1, <1>2, <1>3, <1>8 DEF ExtconUnknownToken, Exit, TypeOK
<1>9. CASE ExtconEnd
  BY <1>1, <1>2, <1>3, <1>9, SMTT(60) DEF ExtconEnd, TypeOK
<1>10. CASE ExtconWrite
  <2>1. Replaced(file.data, out) \in Seq(Nat)
    BY <1>1, <1>10, ReplacedCells DEF ExtconWrite, TypeOK
  <2>2. CarveInv'
    BY <1>10, NotCarving DEF ExtconWrite, Exit
  <2>3. \A f \in DOMAIN dir' : IsFile(dir'[f])
    BY <1>10, <2>1 DEF ExtconWrite, Put, IsFile, TypeOK
  <2>4. QED
    BY <1>10, <2>2, <2>3 DEF ExtconWrite, Exit, walk, carving, TypeOK, WalkInv, CellWalk
<1>11. QED
  BY <1>4, <1>5, <1>6, <1>7, <1>8, <1>9, <1>10 DEF ExtconStep

\* A step of fdt2dts.py keeps the types.
LEMMA DumpTyped ==
  ASSUME TypeInv, DumpStep
  PROVE  TypeInv'
<1> USE DEF TypeInv
<1>1. pos \in Nat /\ depth \in Int /\ Data \in Seq(Nat) /\ Len(Data) \in Nat
  BY DEF TypeOK, Data
<1>2. ASSUME pos' \in Nat, depth' \in Int, pc = "dump", pc' \in {"idle", "dump"},
             ret' \in {"ok", "error"}, DumpUnchanged
      PROVE  TypeInv'
  <2>1. CarveInv'
    BY <1>2, NotCarving DEF DumpUnchanged
  <2>2. TypeOK'
    BY <1>2 DEF DumpUnchanged, carving, TypeOK
  <2>3. WalkInv'
    BY <1>2 DEF DumpUnchanged, WalkInv, CellWalk
  <2>4. QED
    BY <2>1, <2>2, <2>3
<1>3. ret \in {"ok", "error"}
  BY DEF TypeOK
<1>4. CASE OpenDump
  <2>1. CarveInv'
    BY <1>4, NotCarving DEF OpenDump, Exit, DumpUnchanged
  <2>2. OpensAsTree(Data) => Len(file.data) >= 10 /\ Data[OFF_STRUCT] \in Nat
    BY <1>1, BlocksOfCells DEF OpensAsTree, Data
  <2>3. TypeOK'
    BY <1>4, <2>2 DEF OpenDump, Exit, DumpUnchanged, carving, TypeOK
  <2>4. WalkInv'
    BY <1>4, <2>2 DEF OpenDump, Exit, DumpUnchanged, WalkInv, CellWalk
  <2>5. QED
    BY <2>1, <2>3, <2>4
<1>5. CASE DumpBeginNode
  <2>1. AfterText(Data, pos + 1) \in Nat
    <3>1. pos + 1 \in Nat
      BY <1>1
    <3>2. NulsFrom(Data, pos + 1) # {} => NulIndex(Data, pos + 1) \in (pos + 1) + 1 .. Len(Data)
      BY <1>1, <3>1, NulIndexInBlock
    <3>3. QED
      BY <1>1, <3>1, <3>2 DEF AfterText
  <2>2. QED
    BY <1>1, <1>2, <1>3, <1>5, <2>1 DEF DumpBeginNode, More, Dumping
<1>6. CASE DumpEndNode
  BY <1>1, <1>2, <1>3, <1>6 DEF DumpEndNode, More, Dumping
<1>7. CASE DumpProp
  <2>1. pos + 3 <= Len(Data) => PropNext \in Nat
    <3>1. SUFFICES ASSUME pos + 3 <= Len(Data) PROVE PropNext \in Nat
      OBVIOUS
    <3>2. pos + 2 \in 1..Len(Data)
      BY <1>1, <3>1
    <3>3. Data[pos + 2] \in Nat
      BY <1>1, <3>2, ElementsOf, Zenon
    <3>4. Words(Data[pos + 2]) \in Nat
      BY <3>3, WordsNat
    <3>5. QED
      BY <1>1, <3>4 DEF PropNext
  <2>2. pos' \in Nat
    BY <1>1, <1>7, <2>1 DEF DumpProp
  <2>3. QED
    BY <1>1, <1>2, <1>3, <1>7, <2>2 DEF DumpProp, More, Dumping, Exit
<1>8. CASE DumpNop
  BY <1>1, <1>2, <1>3, <1>8 DEF DumpNop, More, Dumping
<1>9. CASE DumpPastEnd
  BY <1>1, <1>2, <1>3, <1>9 DEF DumpPastEnd, Dumping, Exit
<1>10. CASE DumpEnd
  BY <1>1, <1>2, <1>3, <1>10 DEF DumpEnd, Exit
<1>11. QED
  BY <1>4, <1>5, <1>6, <1>7, <1>8, <1>9, <1>10 DEF DumpStep

\* The strengthened type invariant holds throughout.
LEMMA TypeInvariant == Spec => []TypeInv
<1>1. TypeInv /\ [Next]_vars => TypeInv'
  <2>1. SUFFICES ASSUME TypeInv, [Next]_vars PROVE TypeInv'
    OBVIOUS
  <2>2. CASE UNCHANGED vars
    BY <2>1, <2>2
       DEF vars, walk, carving, TypeInv, TypeOK, WalkInv, CellWalk, CarveInv, Dump, Written
  <2>3. QED
    BY <2>1, <2>2, StartsTyped, CarveTyped, DrmodeTyped, ExtconTyped, DumpTyped DEF Next, Step
<1>2. QED
  BY <1>1, InitTypes, PTL DEF Spec

\* The variables of the four scripts have the values they are meant to have, for
\* files of any cells, well-formed or not, and dumps of any size.
THEOREM TypeCorrect == Spec => []TypeOK
<1>1. TypeInv => TypeOK
  BY DEF TypeInv
<1>2. QED
  BY <1>1, TypeInvariant, PTL

\* What carve-dtb.py takes out of a dump lies in it, one tree behind the other, so
\* its loop against overlapping trees never drops one.
THEOREM HitsInDump == Spec => []HitsOrdered
<1>1. TypeInv => HitsOrdered
  <2>1. SUFFICES ASSUME TypeInv, pc \in {"scan", "write"}
                 PROVE  /\ pc = "scan" => Deduped(hits) = hits
                        /\ \A k \in DOMAIN hits : hits[k].offset + hits[k].totalsize <= Dump.n
                        /\ \A j, k \in DOMAIN hits :
                             j < k => hits[j].offset + hits[j].totalsize <= hits[k].offset
    BY DEF HitsOrdered
  <2>2. hits \in Seq([offset : Nat, totalsize : Nat]) /\ DOMAIN hits = 1..Len(hits)
    BY <2>1 DEF TypeInv, TypeOK
  <2>3. \A j, k \in DOMAIN hits : j < k => hits[j].offset + hits[j].totalsize <= hits[k].offset
    BY <2>1, <2>2 DEF TypeInv, CarveInv
  <2>4. Deduped(hits) = hits
    BY <2>2, <2>3, DedupedKeeps
  <2>5. ASSUME NEW k \in DOMAIN hits PROVE hits[k].offset + hits[k].totalsize <= Dump.n
    <3>1. Plausible(Dump, hits[k].offset) /\ hits[k] = Blob(Dump, hits[k].offset)
      BY <2>1, <2>2 DEF TypeInv, CarveInv
    <3>2. hits[k].totalsize = Dump.magic[hits[k].offset].totalsize
      BY <3>1 DEF Blob
    <3>3. QED
      BY <3>1, <3>2 DEF Plausible
  <2>6. QED
    BY <2>3, <2>4, <2>5
<1>2. QED
  BY <1>1, TypeInvariant, PTL

\* In a regular dump every tree before the scan has been taken, and the scan is at
\* a multiple of four, or at a tree, or behind all of them.
RegularInv ==
    Regular(Dump) =>
        /\ pc \in {"scan", "write"} =>
             \A a \in Valid(Dump) :
                 pc = "write" \/ a < pos => \E k \in 1..Len(hits) : hits[k].offset = a
        /\ pc = "scan" =>
             pos % 4 = 0 \/ pos \in Valid(Dump) \/ \A b \in Valid(Dump) : b < pos

\* A tree of a dump has a size of at least four, and ends behind its start.
LEMMA InValid ==
  ASSUME NEW p, IsDump(p), NEW a \in Valid(p)
  PROVE  /\ a \in Nat /\ p.magic[a].totalsize \in Nat /\ p.magic[a].totalsize >= 4
         /\ EndOf(p, a) = a + p.magic[a].totalsize /\ EndOf(p, a) \in Nat
         /\ a < EndOf(p, a) /\ a + 8 <= p.n
<1>1. a \in Nat /\ p.magic[a].totalsize \in Nat
  BY DEF Valid, IsDump
<1>2. MinBlob <= p.magic[a].totalsize /\ a + 8 <= p.n
  BY DEF Valid, Plausible
<1>3. p.magic[a].totalsize >= 4
  BY <1>1, <1>2, SizesAssumption
<1>4. QED
  BY <1>1, <1>2, <1>3 DEF EndOf

\* No other step of the user brings the scan about.
LEMMA OthersDoNotCarve ==
  ASSUME Next, ~CarveStep
  PROVE  pc' \notin {"scan", "write"}
<1>1. CASE Carve \/ RunDrmode \/ RunExtcon \/ RunDump
  BY <1>1 DEF Carve, RunDrmode, RunExtcon, RunDump, Read
<1>2. CASE DrmodeStep
  BY <1>2 DEF DrmodeStep, OpenDrmode, DrmodeBeginNode, DrmodeCopyToken, DrmodeProp,
              DrmodeUnknownToken, DrmodeEnd, DrmodeWrite, Exit
<1>3. CASE ExtconStep
  BY <1>3 DEF ExtconStep, OpenExtcon, ExtconBeginNode, ExtconSkipToken, ExtconProp,
              ExtconUnknownToken, ExtconEnd, ExtconWrite, Exit
<1>4. CASE DumpStep
  BY <1>4 DEF DumpStep, OpenDump, DumpBeginNode, DumpEndNode, DumpProp, DumpNop,
              DumpPastEnd, DumpEnd, More, Dumping, Exit
<1>5. QED
  BY <1>1, <1>2, <1>3, <1>4 DEF Next, Step

\* A word that is skipped is none where a tree begins: such a tree would be at no
\* multiple of four, hence right behind another, which has been jumped over whole.
LEMMA RegularStep ==
  ASSUME TypeInv, RegularInv, [Next]_vars
  PROVE  RegularInv'
<1> USE DEF TypeInv
<1>1. CASE Scanning /\ Plausible(Dump, pos) /\ TakeBlob
  <2>1. SUFFICES ASSUME Regular(Dump)
        PROVE  /\ \A a \in Valid(Dump) : a < pos' => \E k \in 1..Len(hits') : hits'[k].offset = a
               /\ pos' % 4 = 0 \/ pos' \in Valid(Dump) \/ \A b \in Valid(Dump) : b < pos'
    <3>1. pc' = "scan" /\ Dump' = Dump
      BY <1>1 DEF TakeBlob, Scanning, CarveUnchanged, Dump
    <3>2. QED
      BY <3>1 DEF RegularInv
  <2>2. IsDump(Dump) /\ pos \in Valid(Dump)
    BY <1>1 DEF Scanning, CarveInv, Valid, Plausible
  <2>3. pos' = EndOf(Dump, pos) /\ hits' = Append(hits, Blob(Dump, pos))
    BY <1>1 DEF TakeBlob, EndOf
  <2>4. pos \in Nat /\ pos' \in Nat /\ pos < pos'
    BY <2>2, <2>3, InValid
  <2>5. /\ Len(hits) \in Nat /\ Len(hits') = Len(hits) + 1
        /\ hits'[Len(hits) + 1] = Blob(Dump, pos) /\ \A k \in 1..Len(hits) : hits'[k] = hits[k]
    <3>1. hits \in Seq([offset : Nat, totalsize : Nat])
      BY DEF TypeOK
    <3>2. QED
      BY <2>3, <3>1
  <2>6. ASSUME NEW a \in Valid(Dump), a < pos'
        PROVE  \E k \in 1..Len(hits') : hits'[k].offset = a
    <3>1. a \in Nat
      BY <2>2, InValid
    <3>2. CASE a < pos
      <4>1. PICK k \in 1..Len(hits) : hits[k].offset = a
        BY <1>1, <2>1, <2>6, <3>2 DEF RegularInv, Scanning
      <4>2. k \in 1..Len(hits') /\ hits'[k].offset = a
        BY <2>5, <4>1
      <4>3. QED
        BY <4>2
    <3>3. CASE a = pos
      <4>1. Len(hits) + 1 \in 1..Len(hits') /\ Blob(Dump, pos).offset = pos
        BY <2>5 DEF Blob
      <4>2. QED
        BY <2>5, <3>3, <4>1
    <3>4. CASE pos < a
      <4>1. EndOf(Dump, pos) <= a
        BY <2>1, <2>2, <3>4 DEF Regular
      <4>2. QED
        BY <2>3, <2>4, <2>6, <3>1, <4>1
    <3>5. QED
      BY <2>4, <3>1, <3>2, <3>3, <3>4
  <2>7. pos' % 4 = 0 \/ pos' \in Valid(Dump) \/ \A b \in Valid(Dump) : b < pos'
    <3>1. SUFFICES ASSUME pos' % 4 # 0, pos' \notin Valid(Dump), NEW b \in Valid(Dump)
                   PROVE  b < pos'
      OBVIOUS
    <3>2. b <= pos
      BY <2>1, <2>2, <2>3, <3>1 DEF Regular
    <3>3. b \in Nat
      BY <2>2, InValid
    <3>4. QED
      BY <2>4, <3>2, <3>3
  <2>8. QED
    BY <2>6, <2>7
<1>2. CASE SkipWord
  <2>1. SUFFICES ASSUME Regular(Dump)
        PROVE  /\ \A a \in Valid(Dump) : a < pos' => \E k \in 1..Len(hits') : hits'[k].offset = a
               /\ pos' % 4 = 0 \/ pos' \in Valid(Dump) \/ \A b \in Valid(Dump) : b < pos'
    <3>1. pc' = "scan" /\ Dump' = Dump
      BY <1>2 DEF SkipWord, Scanning, CarveUnchanged, Dump
    <3>2. QED
      BY <3>1 DEF RegularInv
  <2>2. IsDump(Dump) /\ pos \notin Valid(Dump) /\ pc = "scan"
    BY <1>2 DEF SkipWord, Scanning, CarveInv, Valid
  <2>3. pos \in Nat /\ pos' = pos + 4 /\ pos' \in Nat /\ hits' = hits
    BY <1>2 DEF SkipWord, TypeOK
  <2>4. pos % 4 = 0 \/ \A b \in Valid(Dump) : b < pos
    BY <2>1, <2>2 DEF RegularInv
  <2>5. ASSUME NEW a \in Valid(Dump), a < pos' PROVE a < pos
    <3>1. SUFFICES ASSUME ~(a < pos), pos % 4 = 0 PROVE FALSE
      BY <2>4
    <3>2. a \in Nat /\ a # pos
      BY <2>2, InValid
    <3>3. pos < a /\ a < pos + 4
      BY <2>3, <2>5, <3>1, <3>2
    <3>4. a % 4 # 0
      BY <2>3, <3>1, <3>2, <3>3
    <3>5. PICK b \in Valid(Dump) : EndOf(Dump, b) = a
      BY <2>1, <3>4 DEF Regular
    <3>6. b \in Nat /\ b + 4 <= a /\ b + Dump.magic[b].totalsize = a
      BY <2>2, <3>2, <3>5, InValid
    <3>7. b < pos
      BY <2>3, <3>2, <3>3, <3>6
    <3>8. PICK k \in 1..Len(hits) : hits[k].offset = b
      BY <2>1, <2>2, <3>7 DEF RegularInv
    <3>9. hits[k] = Blob(Dump, b) /\ hits[k].offset + hits[k].totalsize <= pos
      BY <2>2, <3>8 DEF CarveInv
    <3>10. a <= pos
      BY <3>6, <3>8, <3>9 DEF Blob
    <3>11. QED
      BY <2>3, <3>2, <3>3, <3>10
  <2>6. pos' % 4 = 0 \/ \A b \in Valid(Dump) : b < pos'
    <3>1. pos % 4 = 0 => pos' % 4 = 0
      BY <2>3
    <3>2. ASSUME NEW b \in Valid(Dump), b < pos PROVE b < pos'
      <4>1. b \in Nat
        BY <2>2, InValid
      <4>2. QED
        BY <2>3, <3>2, <4>1
    <3>3. QED
      BY <2>4, <3>1, <3>2
  <2>7. QED
    BY <2>1, <2>2, <2>3, <2>5, <2>6 DEF RegularInv
<1>3. CASE Dedupe
  <2>1. SUFFICES ASSUME Regular(Dump)
        PROVE  \A a \in Valid(Dump) : \E k \in 1..Len(hits') : hits'[k].offset = a
    <3>1. pc' = "write" /\ Dump' = Dump
      BY <1>3 DEF Dedupe, CarveUnchanged, Dump
    <3>2. QED
      BY <3>1 DEF RegularInv
  <2>2. IsDump(Dump) /\ pos \in Nat /\ pc = "scan" /\ pos + 8 > Dump.n /\ Dump.n \in Nat
    BY <1>3 DEF Dedupe, CarveInv, IsDump, TypeOK
  <2>3. hits' = hits
    <3>1. DOMAIN hits = 1..Len(hits) /\ hits \in Seq([offset : Nat, totalsize : Nat])
      BY DEF TypeOK
    <3>2. \A j, k \in DOMAIN hits :
            j < k => hits[j].offset + hits[j].totalsize <= hits[k].offset
      BY <2>2, <3>1 DEF CarveInv
    <3>3. QED
      BY <1>3, <3>1, <3>2, DedupedKeeps DEF Dedupe
  <2>4. ASSUME NEW a \in Valid(Dump) PROVE a < pos
    BY <2>2, InValid
  <2>5. QED
    BY <2>1, <2>2, <2>3, <2>4 DEF RegularInv
<1>4. CASE WriteBlob \/ UNCHANGED vars
  BY <1>4 DEF WriteBlob, CarveUnchanged, vars, walk, carving, RegularInv, Dump
<1>5. CASE NextTarget
  <2>1. pc' = "scan" => pos' = 0 /\ hits' = << >>
    BY <1>5 DEF NextTarget
  <2>2. pc' # "write" /\ 0 % 4 = 0
    BY <1>5 DEF NextTarget
  <2>3. pc' = "scan" => IsDump(Dump')
    BY <1>5, CarveTyped DEF CarveStep, CarveInv
  <2>4. ASSUME pc' = "scan", NEW a \in Valid(Dump') PROVE ~(a < pos')
    BY <2>1, <2>3, <2>4, InValid
  <2>5. QED
    BY <2>1, <2>2, <2>4 DEF RegularInv
<1>6. CASE pc' \notin {"scan", "write"}
  BY <1>6 DEF RegularInv
<1>7. QED
  <2>1. CASE CarveStep
    BY <2>1, <1>1, <1>2, <1>3, <1>4, <1>5, <1>6
       DEF CarveStep, WriteIndex, Exit, CarveDone, TakeBlob
  <2>2. CASE ~CarveStep
    <3>1. Next => pc' \notin {"scan", "write"}
      BY <2>2, OthersDoNotCarve
    <3>2. QED
      BY <2>2, <1>4, <1>6, <3>1
  <2>3. QED
    BY <2>1, <2>2

\* carve-dtb.py finds all trees of a regular dump and nothing else, for dumps of
\* any size and trees of any sizes, although it looks at every fourth byte only.
THEOREM ScanComplete == Spec => []FindsRegular
<1>1. Init => RegularInv
  BY DEF Init, RegularInv
<1>2. TypeInv /\ RegularInv => FindsRegular
  <2>1. SUFFICES ASSUME TypeInv, RegularInv, pc = "write", Regular(Dump)
                 PROVE  {hits[k].offset : k \in DOMAIN hits} = Valid(Dump)
    BY DEF FindsRegular
  <2>2. DOMAIN hits = 1..Len(hits)
    BY <2>1 DEF TypeInv, TypeOK
  <2>3. ASSUME NEW k \in DOMAIN hits PROVE hits[k].offset \in Valid(Dump)
    BY <2>1, <2>2 DEF TypeInv, CarveInv, Valid, Plausible
  <2>4. ASSUME NEW a \in Valid(Dump) PROVE \E k \in DOMAIN hits : hits[k].offset = a
    BY <2>1, <2>2 DEF RegularInv
  <2>5. QED
    BY <2>3, <2>4
<1>3. Spec => []RegularInv
  BY <1>1, TypeInvariant, RegularStep, PTL DEF Spec
<1>4. QED
  BY <1>2, <1>3, TypeInvariant, PTL

\* The block patch-extcon.py works on has the length it had, and its cells are the
\* old ones or FDT_NOP.
NopsInv ==
    pc \in {"extcon", "extcon_write"} =>
        /\ Len(out) = Len(struct_blk(file.data))
        /\ \A k \in 1..Len(out) : out[k] = struct_blk(file.data)[k] \/ out[k] = NOP

\* Every step of the walk keeps that: it blanks out whole properties, in place.
LEMMA NopsStep ==
  ASSUME TypeInv, NopsInv, [Next]_vars
  PROVE  NopsInv'
<1>1. CASE ExtconStep
  <2>1. CASE OpenExtcon
    BY <2>1 DEF OpenExtcon, Exit, ExtconUnchanged, NopsInv
  <2>2. CASE ExtconProp
    <3>1. CASE out' = out
      BY <2>2, <3>1 DEF ExtconProp, ExtconUnchanged, NopsInv, Exit
    <3>2. CASE out' = NopOut(out, pos, PropEnd)
      <4>1. out \in Seq(Nat) /\ Len(out) \in Nat
        BY <2>2 DEF ExtconProp, TypeInv, WalkInv, CellWalk
      <4>2. \A k \in 1..Len(out) : out'[k] = NOP \/ out'[k] = out[k]
        BY <3>2 DEF NopOut
      <4>3. DOMAIN out' = 1..Len(out)
        BY <3>2 DEF NopOut
      <4>4. Len(out') = Len(out)
        BY <4>1, <4>3, <3>2 DEF NopOut
      <4>5. QED
        BY <2>2, <4>2, <4>4 DEF ExtconProp, ExtconUnchanged, NopsInv
    <3>3. QED
      BY <2>2, <3>1, <3>2 DEF ExtconProp
  <2>3. CASE ExtconWrite
    BY <2>3 DEF ExtconWrite, Exit, NopsInv
  <2>4. CASE ExtconBeginNode \/ ExtconSkipToken \/ ExtconUnknownToken \/ ExtconEnd
    BY <2>4 DEF ExtconBeginNode, ExtconSkipToken, ExtconUnknownToken, ExtconEnd, Exit,
                ExtconUnchanged, NopsInv
  <2>5. QED
    BY <1>1, <2>1, <2>2, <2>3, <2>4 DEF ExtconStep
<1>2. CASE UNCHANGED vars
  BY <1>2 DEF vars, walk, NopsInv
<1>3. CASE Next /\ ~ExtconStep
  <2>1. pc' \notin {"extcon", "extcon_write"}
    <3>1. CASE Carve \/ RunDrmode \/ RunExtcon \/ RunDump
      BY <3>1 DEF Carve, RunDrmode, RunExtcon, RunDump, Read
    <3>2. CASE DrmodeStep
      BY <3>2 DEF DrmodeStep, OpenDrmode, DrmodeBeginNode, DrmodeCopyToken, DrmodeProp,
                  DrmodeUnknownToken, DrmodeEnd, DrmodeWrite, Exit
    <3>3. CASE CarveStep
      BY <3>3 DEF CarveStep, NextTarget, WriteIndex, TakeBlob, SkipWord, Scanning, Dedupe,
                  WriteBlob, CarveDone, Exit
    <3>4. CASE DumpStep
      BY <3>4 DEF DumpStep, OpenDump, DumpBeginNode, DumpEndNode, DumpProp, DumpNop,
                  DumpPastEnd, DumpEnd, More, Dumping, Exit
    <3>5. QED
      BY <1>3, <3>1, <3>2, <3>3, <3>4 DEF Next, Step
  <2>2. QED
    BY <2>1 DEF NopsInv
<1>4. QED
  BY <1>1, <1>2, <1>3

\* patch-extcon.py writes nothing but FDT_NOP, and that within the structure block,
\* whatever the cells of the file are.
THEOREM NothingButNops == Spec => []OnlyNops
<1>1. Init => NopsInv
  BY DEF Init, NopsInv
<1>2. TypeInv /\ NopsInv => OnlyNops
  <2>1. SUFFICES ASSUME TypeInv, NopsInv, pc = "extcon_write"
                 PROVE  OnlyNops
    BY DEF OnlyNops
  <2> DEFINE data == file.data
             off == data[OFF_STRUCT]
  <2>2. data \in Seq(Nat) /\ Len(data) >= 10 /\ out \in Seq(Nat) /\ Len(out) \in Nat
    BY <2>1 DEF TypeInv, TypeOK, WalkInv, CellWalk
  <2>3. /\ off \in Nat /\ data[SIZE_STRUCT] \in Nat
        /\ Len(struct_blk(data)) <= data[SIZE_STRUCT]
        /\ \A k \in 1..Len(struct_blk(data)) : struct_blk(data)[k] = data[off + k]
    BY <2>2, BlocksOfCells
  <2>4. /\ Replaced(data, out) \in Seq(Nat) /\ Len(Replaced(data, out)) = Len(data)
        /\ \A k \in 1..Len(data) :
             Replaced(data, out)[k] =
               IF k > off /\ k <= off + Len(out) THEN out[k - off] ELSE data[k]
    BY <2>2, ReplacedCells
  <2>5. Len(out) = Len(struct_blk(data))
    BY <2>1 DEF NopsInv
  <2> HIDE DEF data, off
  <2>6. ASSUME NEW k \in 1..Len(data), Replaced(data, out)[k] # data[k]
        PROVE  Replaced(data, out)[k] = NOP /\ k > off /\ k <= off + data[SIZE_STRUCT]
    <3>1. k > off /\ k <= off + Len(out) /\ Replaced(data, out)[k] = out[k - off]
      BY <2>4, <2>6
    <3>2. k - off \in 1..Len(out) /\ off + (k - off) = k
      BY <2>2, <2>3, <3>1
    <3>3. out[k - off] = data[k] \/ out[k - off] = NOP
      BY <2>1, <2>3, <2>5, <3>2 DEF NopsInv, data
    <3>4. k <= off + data[SIZE_STRUCT]
      BY <2>2, <2>3, <2>5, <3>1, SMTT(60)
    <3>5. QED
      BY <2>6, <3>1, <3>3, <3>4
  <2>7. DOMAIN Replaced(data, out) = 1..Len(data)
    BY <2>4
  <2>8. QED
    BY <2>1, <2>5, <2>6, <2>7 DEF OnlyNops, data, off
<1>3. Spec => []NopsInv
  BY <1>1, TypeInvariant, NopsStep, PTL DEF Spec
<1>4. QED
  BY <1>2, <1>3, TypeInvariant, PTL

-------------------------------------------------------------------------------
(* The names of the files                                                      *)

\* p.replace('.dtb', '.periph.dtb') gives a longer name, with that part in it, when
\* there is a '.dtb' in the name, and the same name when there is none.
LEMMA PeriphLonger ==
  ASSUME NEW R, NEW name \in Seq(R)
  PROVE  /\ Periph(name) \in Seq(R \cup {"periph"})
         /\ HasDtb(name) => Periph(name) # name
         /\ HasDtb(name) => \E k \in 2..Len(Periph(name)) : Periph(name)[k] = "periph"
         /\ ~HasDtb(name) => Periph(name) = name
<1> DEFINE n == Len(name)
           piece(k) == IF k > 1 /\ name[k] \in DtbLike THEN <<"periph", name[k]>> ELSE <<name[k]>>
           g == [k \in 1..n |-> piece(k)]
           body(f) == [k \in 0..n |->
                         IF k = 0 THEN << >>
                         ELSE f[k - 1] \o (IF k > 1 /\ name[k] \in DtbLike
                                           THEN <<"periph", name[k]>> ELSE <<name[k]>>)]
           renamed == CHOOSE f : f = body(f)
           Q == R \cup {"periph"}
<1>1. Periph(name) = renamed[n]
  BY DEF Periph
<1>2. n \in Nat /\ \A k \in 1..n : name[k] \in R
  <2>1. n \in Nat
    OBVIOUS
  <2>2. QED
    BY <2>1, ElementsOf, Zenon
<1>3. ASSUME NEW k \in 1..n PROVE piece(k) \in Seq(Q) /\ Len(piece(k)) \in 1..2
  <2>1. name[k] \in Q /\ "periph" \in Q
    BY <1>2
  <2>2. <<"periph", name[k]>> \in Seq(Q) /\ <<name[k]>> \in Seq(Q)
    BY <2>1
  <2>3. Len(<<"periph", name[k]>>) \in 1..2 /\ Len(<<name[k]>>) \in 1..2
    OBVIOUS
  <2>4. piece(k) = <<"periph", name[k]>> \/ piece(k) = <<name[k]>>
    OBVIOUS
  <2> HIDE DEF piece, Q
  <2>5. CASE piece(k) = <<name[k]>>
    BY <2>2, <2>3, <2>5, Zenon
  <2>6. CASE piece(k) = <<"periph", name[k]>>
    BY <2>2, <2>3, <2>6, Zenon
  <2>7. QED
    BY <2>4, <2>5, <2>6
<1>4. ASSUME NEW f PROVE body(f) = Joined(g, n, f)
  <2>1. ASSUME NEW k \in 0..n, k # 0 PROVE g[k] = piece(k)
    <3>1. k \in 1..n
      BY <1>2, <2>1
    <3>2. QED
      BY <3>1
  <2>2. ASSUME NEW k \in 0..n PROVE body(f)[k] = Joined(g, n, f)[k]
    BY <2>1 DEF Joined
  <2>3. QED
    BY <2>2 DEF Joined
<1> HIDE DEF body, g, piece
<1>5. \E f : f = body(f)
  BY <1>2, <1>4, JoinedExists
<1>6. renamed = Joined(g, n, renamed)
  BY <1>4, <1>5
<1> HIDE DEF renamed
<1>7. /\ g \in [1..n -> Seq(Q)] /\ renamed = Joined(g, n, renamed)
      /\ \A k \in 1..n : Len(g[k]) \in 1..2
  BY <1>3, <1>6 DEF g
<1>8. /\ renamed[0] = << >>
      /\ \A k \in 0..n : renamed[k] \in Seq(Q)
      /\ \A k \in 1..n : /\ renamed[k] = renamed[k - 1] \o g[k]
                          /\ Len(renamed[k]) = Len(renamed[k - 1]) + Len(g[k])
  <2>1. n \in Nat
    BY <1>2
  <2> HIDE DEF n, Q
  <2>2. g \in [1..n -> Seq(Q)] /\ renamed = Joined(g, n, renamed)
    BY <1>7
  <2>3. /\ renamed[0] = << >>
        /\ \A k \in 0..n : renamed[k] \in Seq(Q)
        /\ \A k \in 1..n : /\ renamed[k] = renamed[k - 1] \o g[k]
                            /\ Len(renamed[k]) = Len(renamed[k - 1]) + Len(g[k])
    <3>1. JoinedWell(Q, n, g, renamed)
      BY <2>1, <2>2, Joining, Zenon
    <3>2. QED
      BY <3>1 DEF JoinedWell
  <2>4. QED
    BY <2>3
<1>9. renamed[n] \in Seq(Q)
  BY <1>2, <1>8
<1>10. ASSUME HasDtb(name)
       PROVE  /\ Len(renamed[n]) > n
              /\ \E i \in 2..Len(renamed[n]) : renamed[n][i] = "periph"
  <2>1. PICK d \in 2..n : name[d] \in DtbLike
    BY <1>10 DEF HasDtb
  <2>2. Len(g[d]) = 2
    <3>1. d \in 1..n /\ d > 1
      BY <1>2, <2>1
    <3>2. g[d] = <<"periph", name[d]>>
      BY <2>1, <3>1 DEF g, piece
    <3>3. QED
      BY <3>2
  <2> DEFINE S == {m \in Nat : m <= n => Len(renamed[m]) >= m /\ (m >= d => Len(renamed[m]) > m)}
  <2>3. 0 \in S
    BY <1>8, <2>1
  <2>4. ASSUME NEW m \in S PROVE m + 1 \in S
    <3>1. SUFFICES ASSUME m + 1 <= n
                   PROVE  /\ Len(renamed[m + 1]) >= m + 1
                          /\ m + 1 >= d => Len(renamed[m + 1]) > m + 1
      OBVIOUS
    <3>2. m \in Nat /\ m + 1 \in 1..n /\ (m + 1) - 1 = m /\ m <= n /\ m \in 0..n
      BY <1>2, <3>1
    <3>3. Len(renamed[m]) >= m /\ (m >= d => Len(renamed[m]) > m) /\ Len(renamed[m]) \in Nat
      <4>1. renamed[m] \in Seq(Q)
        BY <1>8, <3>2
      <4>2. Len(renamed[m]) \in Nat
        BY <4>1
      <4>3. QED
        BY <3>2, <4>2 DEF S
    <3>4. Len(renamed[m + 1]) = Len(renamed[m]) + Len(g[m + 1]) /\ Len(g[m + 1]) \in 1..2
      BY <1>7, <1>8, <3>2
    <3>5. d \in Nat /\ (m + 1 = d => Len(g[m + 1]) = 2)
      BY <2>1, <2>2
    <3> DEFINE before == Len(renamed[m])
               new == Len(g[m + 1])
    <3>6. m + 1 >= d => m + 1 = d \/ m >= d
      BY <3>2, <3>5
    <3> HIDE DEF before, new
    <3>8. Len(renamed[m + 1]) = before + new /\ new \in 1..2 /\ before \in Nat /\ before >= m
          /\ (m >= d => before > m) /\ (m + 1 = d => new = 2)
      BY <3>3, <3>4, <3>5 DEF before, new
    <3>7. QED
      BY <3>2, <3>5, <3>6, <3>8
  <2> HIDE DEF S
  <2>5. S \in SUBSET Nat
    BY DEF S
  <2>6. S = Nat
    BY <2>3, <2>4, <2>5, Induction
  <2>7. Len(renamed[n]) > n
    BY <1>2, <2>1, <2>6 DEF S
  <2> DEFINE T == {m \in Nat : m <= n /\ m >= d =>
                                 \E i \in 2..Len(renamed[m]) : renamed[m][i] = "periph"}
  <2>8. 0 \in T
    BY <2>1
  <2>9. ASSUME NEW m \in T PROVE m + 1 \in T
    <3>1. SUFFICES ASSUME m + 1 <= n, m + 1 >= d
                   PROVE  \E i \in 2..Len(renamed[m + 1]) : renamed[m + 1][i] = "periph"
      OBVIOUS
    <3>2. m \in Nat /\ m + 1 \in 1..n /\ (m + 1) - 1 = m /\ m <= n /\ m \in 0..n
      BY <1>2, <3>1
    <3> DEFINE before == renamed[m]
               new == g[m + 1]
    <3>3. /\ before \in Seq(Q) /\ new \in Seq(Q) /\ renamed[m + 1] = before \o new
          /\ Len(new) \in 1..2
      BY <1>7, <1>8, <3>2
    <3>4. d \in Nat /\ d >= 2
      BY <2>1
    <3>5. CASE m >= d
      <4>1. PICK i \in 2..Len(before) : before[i] = "periph"
        BY <3>2, <3>5
      <4> HIDE DEF before, new, Q
      <4>2. i \in 2..Len(before \o new) /\ (before \o new)[i] = before[i]
        BY <3>3
      <4>3. QED
        BY <3>3, <4>1, <4>2
    <3>6. CASE m + 1 = d
      <4>1. Len(before) >= m
        BY <2>6, <3>2 DEF S
      <4>2. new = <<"periph", name[d]>>
        BY <1>2, <2>1, <3>6 DEF g, piece
      <4> HIDE DEF before, new, Q
      <4>3. Len(before) \in Nat
        BY <3>3
      <4>4. Len(before) + 1 \in 2..Len(before \o new) /\ (before \o new)[Len(before) + 1] = new[1]
        BY <3>2, <3>3, <3>4, <3>6, <4>1, <4>3, SMTT(60)
      <4>5. new[1] = "periph"
        BY <4>2
      <4>6. QED
        BY <3>3, <4>4, <4>5
    <3>7. QED
      BY <3>1, <3>2, <3>4, <3>5, <3>6
  <2> HIDE DEF T
  <2>10. T \in SUBSET Nat
    BY DEF T
  <2>11. n \in T
    BY <1>2, <2>8, <2>9, <2>10, Induction
  <2>12. QED
    BY <1>2, <2>1, <2>7, <2>11 DEF T
<1>11. ASSUME ~HasDtb(name) PROVE renamed[n] = name
  <2> DEFINE S == {m \in Nat : m <= n => renamed[m] = SubSeq(name, 1, m)}
  <2>1. 0 \in S
    BY <1>8
  <2>2. ASSUME NEW m \in S PROVE m + 1 \in S
    <3>1. SUFFICES ASSUME m + 1 <= n PROVE renamed[m + 1] = SubSeq(name, 1, m + 1)
      OBVIOUS
    <3>2. m \in Nat /\ m + 1 \in 1..n /\ (m + 1) - 1 = m /\ m <= n
      BY <1>2, <3>1
    <3>3. g[m + 1] = <<name[m + 1]>>
      BY <1>2, <1>11, <3>2 DEF g, piece, HasDtb
    <3>4. renamed[m + 1] = SubSeq(name, 1, m) \o <<name[m + 1]>>
      BY <1>8, <3>2, <3>3
    <3>5. QED
      BY <3>2, <3>4
  <2> HIDE DEF S
  <2>3. S \in SUBSET Nat
    BY DEF S
  <2>4. n \in S
    BY <1>2, <2>1, <2>2, <2>3, Induction
  <2>5. QED
    BY <1>2, <2>4 DEF S
<1>12. QED
  <2>1. HasDtb(name) => renamed[n] # name
    BY <1>2, <1>9, <1>10
  <2>2. QED
    BY <1>1, <1>9, <1>10, <1>11, <2>1

\* p.rsplit('.', 1)[0] + '.noextcon.dtb' is never the name it is made from.
LEMMA NoextconDiffers ==
  ASSUME NEW R, NEW name \in Seq(R)
  PROVE  /\ Noextcon(name) \in Seq(R \cup {"noextcon", "dtb"})
         /\ Noextcon(name) # name
<1>1. Len(Noextcon(name)) # Len(name)
  <2>1. CASE name = << >>
    BY <2>1 DEF Noextcon, Stem
  <2>2. CASE name # << >>
    <3>1. Len(name) \in Nat /\ Len(name) - 1 \in Nat
      BY <2>2
    <3>2. Stem(name) \in Seq(R) /\ Len(Stem(name)) = Len(name) - 1
      <4>1. ASSUME NEW m \in Nat, m <= Len(name)
            PROVE  SubSeq(name, 1, m) \in Seq(R) /\ Len(SubSeq(name, 1, m)) = m
        BY <4>1
      <4>2. Len(name) - 1 <= Len(name)
        BY <3>1
      <4>3. QED
        BY <3>1, <4>1, <4>2, Zenon DEF Stem
    <3>3. Len(Stem(name) \o <<"noextcon", "dtb">>) = (Len(name) - 1) + 2
      <4>1. Stem(name) \in Seq(R \cup {"noextcon", "dtb"})
        BY <3>2, SeqMonotone
      <4>2. QED
        BY <3>2, <4>1
    <3>4. QED
      BY <3>1, <3>3 DEF Noextcon
  <2>3. QED
    BY <2>1, <2>2
<1>2. Noextcon(name) \in Seq(R \cup {"noextcon", "dtb"})
  <2>1. Stem(name) \in Seq(R)
    BY DEF Stem
  <2>2. Stem(name) \in Seq(R \cup {"noextcon", "dtb"})
    BY <2>1, SeqMonotone
  <2>3. QED
    BY <2>2 DEF Noextcon
<1>3. QED
  BY <1>1, <1>2

\* While a patch script runs, it knows its output by the name made from its input.
NamesInv ==
    /\ \A f \in DOMAIN dir : \E R : f \in Seq(R)
    /\ pc \in {"drmode_open", "drmode", "drmode_write"} =>
         file.to = Periph(file.name)
    /\ pc \in {"extcon_open", "extcon", "extcon_write"} =>
         file.to = Noextcon(file.name)
    /\ pc \in {"drmode_open", "drmode", "drmode_write", "extcon_open", "extcon", "extcon_write"} =>
         \E R : file.name \in Seq(R)

\* At the start no script runs, and the files have names.
LEMMA NamesInit == Init => NamesInv
<1>1. SUFFICES ASSUME Init PROVE NamesInv
  OBVIOUS
<1>2. PICK s \in Setups : dir = s.dir
  BY <1>1 DEF Init
<1>3. \A f \in DOMAIN dir : f \in Seq(STRING)
  BY <1>2, SetupsAssumption
<1>4. QED
  BY <1>1, <1>3 DEF Init, NamesInv

\* Every step keeps that: a new file has a name as well.
LEMMA NamesStep ==
  ASSUME NamesInv, [Next]_vars
  PROVE  NamesInv'
<1>1. ASSUME NEW name, NEW value, dir' = Put(dir, name, value), pc' \in {"idle", "write"},
             \E R : name \in Seq(R)
      PROVE  NamesInv'
  <2>1. \A f \in DOMAIN dir' : f \in DOMAIN dir \/ f = name
    BY <1>1 DEF Put
  <2>2. QED
    BY <1>1, <2>1 DEF NamesInv
<1>2. ASSUME NEW R, NEW name \in Seq(R)
      PROVE  (\E U : Periph(name) \in Seq(U)) /\ (\E U : Noextcon(name) \in Seq(U))
  BY <1>2, PeriphLonger, NoextconDiffers, Zenon
<1>3. CASE Carve
  BY <1>3 DEF Carve, Start, walk, NamesInv
<1>4. CASE RunDrmode
  <2>1. PICK f \in DOMAIN dir : Read(f, Periph(f), << >>, "drmode_open")
    BY <1>4 DEF RunDrmode
  <2>2. QED
    BY <2>1 DEF Read, NamesInv
<1>5. CASE RunExtcon
  <2>1. PICK f \in DOMAIN dir, p \in PropNames : Read(f, Noextcon(f), p, "extcon_open")
    BY <1>5 DEF RunExtcon
  <2>2. QED
    BY <2>1 DEF Read, NamesInv
<1>6. CASE RunDump
  <2>1. PICK f \in DOMAIN dir : Read(f, Dts(f), << >>, "dump_open")
    BY <1>6 DEF RunDump
  <2>2. QED
    BY <2>1 DEF Read, NamesInv
<1>7. CASE CarveStep
  <2>1. CASE WriteBlob
    <3>1. PICK t, v, k : dir' = Put(dir, BlobName(t, k), v) /\ pc' = "write"
      BY <2>1 DEF WriteBlob
    <3>2. \E R : BlobName(t, k) \in Seq(R)
      <4> DEFINE x == TreeNames[k + 1]
      <4> HIDE DEF x
      <4>1. <<t, "img", x, "dtb">> \in Seq({t, "img", x, "dtb"})
        OBVIOUS
      <4>2. QED
        BY <4>1 DEF BlobName, x
    <3>3. QED
      BY <1>1, <3>1, <3>2
  <2>2. QED
    BY <1>7, <2>1
       DEF CarveStep, NextTarget, WriteIndex, TakeBlob, SkipWord, Scanning, Dedupe, CarveDone,
           CarveUnchanged, Exit, walk, NamesInv
<1>8. CASE DrmodeStep
  <2>1. CASE DrmodeWrite
    BY <1>1, <1>2, <2>1 DEF DrmodeWrite, Exit, NamesInv
  <2>2. QED
    BY <1>8, <2>1
       DEF DrmodeStep, OpenDrmode, DrmodeBeginNode, DrmodeCopyToken, DrmodeProp,
           DrmodeUnknownToken, DrmodeEnd, DrmodeUnchanged, Exit, NamesInv
<1>9. CASE ExtconStep
  <2>1. CASE ExtconWrite
    BY <1>1, <1>2, <2>1 DEF ExtconWrite, Exit, NamesInv
  <2>2. QED
    BY <1>9, <2>1
       DEF ExtconStep, OpenExtcon, ExtconBeginNode, ExtconSkipToken, ExtconProp,
           ExtconUnknownToken, ExtconEnd, ExtconUnchanged, Exit, NamesInv
<1>10. CASE DumpStep
  BY <1>10 DEF DumpStep, OpenDump, DumpBeginNode, DumpEndNode, DumpProp, DumpNop,
               DumpPastEnd, DumpEnd, More, Dumping, DumpUnchanged, Exit, NamesInv
<1>11. CASE UNCHANGED vars
  BY <1>11 DEF vars, walk, NamesInv
<1>12. QED
  BY <1>3, <1>4, <1>5, <1>6, <1>7, <1>8, <1>9, <1>10, <1>11 DEF Next, Step

\* The patch scripts never write to the file they read when its name has a '.dtb'
\* in it, whatever else it is made of.
THEOREM NeverInPlace == Spec => SourceKept
<1> DEFINE A == \A f \in DOMAIN dir :
                  pc \in {"drmode_write", "extcon_write"} /\ f = file.name /\ HasDtb(f)
                      => dir'[f] = dir[f]
<1>1. NamesInv /\ [Next]_vars => [A]_vars
  <2>1. SUFFICES ASSUME NamesInv, Next, NEW f \in DOMAIN dir,
                        pc \in {"drmode_write", "extcon_write"}, f = file.name, HasDtb(f)
                 PROVE  dir'[f] = dir[f]
    OBVIOUS
  <2>2. PICK R : f \in Seq(R)
    BY <2>1 DEF NamesInv
  <2>3. Periph(f) # f /\ Noextcon(f) # f
    BY <2>1, <2>2, PeriphLonger, NoextconDiffers
  <2>4. file.to # f
    BY <2>1, <2>3 DEF NamesInv
  <2>5. DrmodeWrite \/ ExtconWrite
    <3>1. ~(Carve \/ RunDrmode \/ RunExtcon \/ RunDump)
      BY <2>1 DEF Carve, RunDrmode, RunExtcon, RunDump, Read, Start
    <3>2. ~CarveStep
      BY <2>1 DEF CarveStep, NextTarget, WriteIndex, TakeBlob, SkipWord, Scanning, Dedupe,
                  WriteBlob, CarveDone
    <3>3. DrmodeStep => DrmodeWrite
      BY <2>1 DEF DrmodeStep, OpenDrmode, DrmodeBeginNode, DrmodeCopyToken, DrmodeProp,
                  DrmodeUnknownToken, DrmodeEnd
    <3>4. ExtconStep => ExtconWrite
      BY <2>1 DEF ExtconStep, OpenExtcon, ExtconBeginNode, ExtconSkipToken, ExtconProp,
                  ExtconUnknownToken, ExtconEnd
    <3>5. ~DumpStep
      BY <2>1 DEF DumpStep, OpenDump, DumpBeginNode, DumpEndNode, DumpProp, DumpNop,
                  DumpPastEnd, DumpEnd, More, Dumping
    <3>6. QED
      BY <2>1, <3>1, <3>2, <3>3, <3>4, <3>5 DEF Next, Step
  <2>6. PICK v : dir' = Put(dir, file.to, v)
    BY <2>5 DEF DrmodeWrite, ExtconWrite
  <2>7. QED
    BY <2>4, <2>6 DEF Put
<1>2. Spec => []NamesInv
  BY NamesInit, NamesStep, PTL DEF Spec
<1>3. QED
  BY <1>1, <1>2, PTL DEF Spec, SourceKept

-------------------------------------------------------------------------------
(* The index                                                                   *)

\* Where the scan goes on behind the k-th of the trees it has found
Behind(found, k) == IF k = 0 THEN 0 ELSE found[k].offset + found[k].totalsize

\* From a, the scan comes to b word by word, and takes no tree on the way.
Comes(p, a, b) ==
    \E j \in Nat : b = a + 4 * j /\ \A i \in Nat : i < j => ~Plausible(p, a + 4 * i)

\* Trees that the scan takes one after the other
Taken(p, found) ==
    \A k \in 1..Len(found) :
        /\ Plausible(p, found[k].offset)
        /\ found[k].totalsize = p.magic[found[k].offset].totalsize
        /\ Comes(p, Behind(found, k - 1), found[k].offset)

\* A tree that is taken lies at a number, and so does its end.
LEMMA TakenPlaces ==
  ASSUME NEW p, IsDump(p), NEW found, Len(found) \in Nat, Taken(p, found)
  PROVE  /\ \A k \in 1..Len(found) : /\ found[k].offset \in Nat /\ found[k].totalsize \in Nat
                                     /\ found[k].totalsize >= MinBlob
                                     /\ found[k].offset + found[k].totalsize <= p.n
         /\ \A k \in 0..Len(found) : Behind(found, k) \in Nat
<1>1. ASSUME NEW k \in 1..Len(found)
      PROVE  /\ found[k].offset \in Nat /\ found[k].totalsize \in Nat
             /\ found[k].totalsize >= MinBlob
             /\ found[k].offset + found[k].totalsize <= p.n
  <2>1. Plausible(p, found[k].offset) /\ found[k].totalsize = p.magic[found[k].offset].totalsize
    BY DEF Taken
  <2>2. found[k].offset \in DOMAIN p.magic /\ DOMAIN p.magic \subseteq Nat
    BY <2>1 DEF Plausible, IsDump
  <2>3. p.magic[found[k].offset].totalsize \in Nat
    BY <2>2 DEF IsDump
  <2>4. QED
    BY <2>1, <2>2, <2>3, SizesAssumption DEF Plausible
<1>2. ASSUME NEW k \in 0..Len(found) PROVE Behind(found, k) \in Nat
  <2>1. k = 0 \/ k \in 1..Len(found)
    OBVIOUS
  <2>2. QED
    BY <1>1, <2>1 DEF Behind
<1>3. QED
  BY <1>1, <1>2

\* A scan has come to where it is.
LEMMA HereAtOnce == ASSUME NEW p, NEW a \in Nat PROVE Comes(p, a, a)
<1>1. SUFFICES \E j \in Nat : a = a + 4 * j /\ \A i \in Nat : i < j => ~Plausible(p, a + 4 * i)
  BY Zenon DEF Comes
<1>2. 0 \in Nat
  OBVIOUS
<1> WITNESS 0 \in Nat
<1>3. a = a + 4 * 0
  OBVIOUS
<1>4. ASSUME NEW i \in Nat, i < 0 PROVE FALSE
  BY <1>4
<1>5. QED
  BY <1>3, <1>4, Zenon

\* From one place the scan comes to one tree only.
LEMMA OneNext ==
  ASSUME NEW p, NEW a \in Nat, NEW b, NEW c,
         Comes(p, a, b), Plausible(p, b), Comes(p, a, c), Plausible(p, c)
  PROVE  b = c
<1>1. PICK i \in Nat : b = a + 4 * i /\ \A x \in Nat : x < i => ~Plausible(p, a + 4 * x)
  BY DEF Comes
<1>2. PICK j \in Nat : c = a + 4 * j /\ \A x \in Nat : x < j => ~Plausible(p, a + 4 * x)
  BY DEF Comes
<1>3. ~(i < j) /\ ~(j < i)
  BY <1>1, <1>2
<1>4. QED
  BY <1>1, <1>2, <1>3

\* Two scans of one dump agree as far as both have come.
LEMMA SamePrefix ==
  ASSUME NEW p, IsDump(p), NEW g, Len(g) \in Nat, Taken(p, g),
         NEW h, Len(h) \in Nat, Taken(p, h)
  PROVE  \A k \in 1..Len(g) : k <= Len(h) => /\ g[k].offset = h[k].offset
                                            /\ g[k].totalsize = h[k].totalsize
<1> DEFINE S == {m \in Nat : m <= Len(g) /\ m <= Len(h) =>
                               \A k \in 1..m : /\ g[k].offset = h[k].offset
                                               /\ g[k].totalsize = h[k].totalsize}
<1>1. 0 \in S
  OBVIOUS
<1>2. ASSUME NEW m \in S PROVE m + 1 \in S
  <2>1. SUFFICES ASSUME m + 1 <= Len(g), m + 1 <= Len(h)
                 PROVE  \A k \in 1..m + 1 : /\ g[k].offset = h[k].offset
                                            /\ g[k].totalsize = h[k].totalsize
    OBVIOUS
  <2>2. /\ m \in Nat /\ (m + 1) - 1 = m /\ m + 1 \in 1..Len(g) /\ m + 1 \in 1..Len(h)
        /\ m \in 0..Len(g) /\ m <= Len(g) /\ m <= Len(h) /\ (m = 0 \/ m \in 1..m)
    BY <2>1
  <2>3. \A k \in 1..m : g[k].offset = h[k].offset /\ g[k].totalsize = h[k].totalsize
    BY <2>2
  <2>4. Behind(g, m) = Behind(h, m) /\ Behind(g, m) \in Nat
    BY <2>2, <2>3, TakenPlaces DEF Behind
  <2>5. g[m + 1].offset = h[m + 1].offset
    BY <2>2, <2>4, OneNext DEF Taken
  <2>6. g[m + 1].totalsize = h[m + 1].totalsize
    BY <2>2, <2>5, ZenonT(60) DEF Taken
  <2>7. \A k \in 1..m + 1 : k \in 1..m \/ k = m + 1
    BY <2>2
  <2>8. QED
    BY <2>3, <2>5, <2>6, <2>7
<1> HIDE DEF S
<1>3. S \in SUBSET Nat
  BY DEF S
<1>4. S = Nat
  BY <1>1, <1>2, <1>3, Induction
<1>5. ASSUME NEW k \in 1..Len(g), k <= Len(h)
      PROVE  g[k].offset = h[k].offset /\ g[k].totalsize = h[k].totalsize
  <2>1. k \in S /\ k \in 1..k /\ k <= Len(g)
    BY <1>4
  <2>2. QED
    BY <1>5, <2>1 DEF S
<1>6. QED
  BY <1>5

\* No dump has more trees than there are numbers for: each takes up MinBlob.
LEMMA EnoughNames ==
  ASSUME NEW p, IsDump(p), p.n <= MinBlob * Len(TreeNames),
         NEW found, Len(found) \in Nat, Taken(p, found),
         \A j, k \in 1..Len(found) :
            j < k => found[j].offset + found[j].totalsize <= found[k].offset
  PROVE  Len(found) <= Len(TreeNames)
<1>1. MinBlob \in Nat /\ MinBlob >= 4 /\ Len(TreeNames) \in Nat /\ p.n \in Nat
  BY SizesAssumption, NamesAssumption DEF IsDump
<1> DEFINE S == {m \in Nat : m < Len(found) => MinBlob * m <= found[m + 1].offset}
<1>2. 0 \in S
  <2>1. 0 < Len(found) => found[0 + 1].offset \in Nat
    BY TakenPlaces
  <2>2. MinBlob * 0 = 0
    BY <1>1
  <2>3. QED
    BY <2>1, <2>2
<1>3. ASSUME NEW m \in S PROVE m + 1 \in S
  <2>1. SUFFICES ASSUME m + 1 < Len(found) PROVE MinBlob * (m + 1) <= found[(m + 1) + 1].offset
    OBVIOUS
  <2>2. m \in Nat /\ m + 1 \in 1..Len(found) /\ (m + 1) + 1 \in 1..Len(found) /\ m < Len(found)
        /\ m + 1 < (m + 1) + 1
    BY <2>1
  <2>3. MinBlob * m <= found[m + 1].offset
    BY <2>2
  <2>4. found[m + 1].offset + found[m + 1].totalsize <= found[(m + 1) + 1].offset
    BY <2>2
  <2>5. /\ found[m + 1].offset \in Nat /\ found[m + 1].totalsize \in Nat
        /\ found[m + 1].totalsize >= MinBlob /\ found[(m + 1) + 1].offset \in Nat
    BY <2>2, TakenPlaces
  <2>6. MinBlob * (m + 1) = MinBlob * m + MinBlob /\ MinBlob * m \in Nat
    BY <1>1, <2>2
  <2>7. \A x, y, z, u \in Nat : u <= x /\ x + y <= z /\ y >= MinBlob => u + MinBlob <= z
    BY <1>1
  <2>8. MinBlob * m + MinBlob <= found[(m + 1) + 1].offset
    BY <2>3, <2>4, <2>5, <2>6, <2>7, Zenon
  <2>9. QED
    BY <2>6, <2>8, Zenon
<1> HIDE DEF S
<1>4. S = Nat
  <2>1. S \in SUBSET Nat
    BY DEF S
  <2>2. QED
    BY <1>2, <1>3, <2>1, Induction
<1>5. SUFFICES ASSUME Len(TreeNames) < Len(found) PROVE FALSE
  BY <1>1
<1> DEFINE n == Len(TreeNames)
<1>6. n \in S /\ n \in Nat /\ n + 1 \in 1..Len(found)
  BY <1>1, <1>4, <1>5
<1>7. MinBlob * n <= found[n + 1].offset
  BY <1>5, <1>6 DEF S
<1>8. /\ found[n + 1].offset \in Nat /\ found[n + 1].totalsize >= MinBlob
      /\ found[n + 1].totalsize \in Nat
      /\ found[n + 1].offset + found[n + 1].totalsize <= p.n
  BY <1>6, TakenPlaces
<1>9. MinBlob * n \in Nat /\ p.n <= MinBlob * n
  BY <1>1, <1>6
<1>10. QED
  BY <1>1, <1>7, <1>8, <1>9

\* The name of a carved tree tells its partition and its number,
LEMMA NamesApart ==
  ASSUME NEW t, NEW u, NEW j \in 1..Len(TreeNames), NEW k \in 1..Len(TreeNames),
         BlobName(t, j - 1) = BlobName(u, k - 1)
  PROVE  t = u /\ j = k
<1>1. (j - 1) + 1 = j /\ (k - 1) + 1 = k /\ DOMAIN TreeNames = 1..Len(TreeNames)
  BY NamesAssumption
<1>2. t = u /\ TreeNames[j] = TreeNames[k]
  BY <1>1 DEF BlobName
<1>3. QED
  BY <1>1, <1>2, NamesAssumption

\* and the patch scripts never write to it.
LEMMA NamesOfPatched ==
  ASSUME NEW R, NEW name \in Seq(R), NEW t, NEW k \in 1..Len(TreeNames)
  PROVE  Periph(name) # BlobName(t, k - 1) /\ Noextcon(name) # BlobName(t, k - 1)
<1> DEFINE b == BlobName(t, k - 1)
           x == TreeNames[k]
<1>1. b = <<t, "img", x, "dtb">> /\ x \in DtbLike
  <2>1. (k - 1) + 1 = k
    OBVIOUS
  <2>2. x \in DtbLike
    BY NamesAssumption, ElementsOf
  <2>3. QED
    BY <2>1, <2>2 DEF BlobName
<1> HIDE DEF b, x
<1>2. Len(b) = 4 /\ b[2] = "img" /\ b[3] = x /\ b[4] = "dtb"
  BY <1>1
<1>3. x # "periph" /\ x # "noextcon" /\ "dtb" \in DtbLike
  BY <1>1, NamesAssumption
<1>4. HasDtb(b)
  BY <1>2, <1>3 DEF HasDtb
<1>5. Periph(name) # b
  <2>1. CASE HasDtb(name)
    <3>1. PICK i \in 2..Len(Periph(name)) : Periph(name)[i] = "periph"
      BY <2>1, PeriphLonger
    <3>2. \A n \in 2..4 : n = 2 \/ n = 3 \/ n = 4
      OBVIOUS
    <3>3. QED
      BY <1>2, <1>3, <3>1, <3>2
  <2>2. CASE ~HasDtb(name)
    BY <1>4, <2>2, PeriphLonger
  <2>3. QED
    BY <2>1, <2>2
<1>6. Noextcon(name) # b
  <2>1. Stem(name) \in Seq(R)
    BY DEF Stem
  <2> DEFINE s == Stem(name)
             U == R \cup {"noextcon", "dtb"}
  <2>2. s \in Seq(U) /\ <<"noextcon", "dtb">> \in Seq(U)
    BY <2>1, SeqMonotone
  <2> HIDE DEF s, U
  <2>3. SUFFICES ASSUME s \o <<"noextcon", "dtb">> = b PROVE FALSE
    BY DEF Noextcon, s
  <2>4. Len(s) \in Nat /\ Len(s) + 2 = 4
    <3>1. Len(s \o <<"noextcon", "dtb">>) = Len(s) + 2 /\ Len(s) \in Nat
      BY <2>2
    <3>2. QED
      BY <1>2, <2>3, <3>1
  <2>5. (s \o <<"noextcon", "dtb">>)[Len(s) + 1] = "noextcon"
    BY <2>2
  <2>6. Len(s) + 1 = 3
    BY <2>4
  <2>7. QED
    BY <1>2, <1>3, <2>3, <2>5, <2>6
<1>7. QED
  BY <1>5, <1>6 DEF b

\* Every entry has the name of its number, and the file of that name is the tree
\* that lies where the entry says.
Listed(t, entries) ==
    \A k \in 1..Len(entries) :
        /\ entries[k].file = BlobName(t, k - 1)
        /\ entries[k].file \in DOMAIN dir
        /\ dir[entries[k].file] = part[t].magic[entries[k].offset].file

\* The entries of a partition that has been carved: what the scan takes, in its order.
Carved(t, entries) ==
    /\ \E k \in DOMAIN Targets : t = Targets[k]
    /\ part[t] # None
    /\ Len(entries) \in Nat /\ DOMAIN entries = 1..Len(entries)
    /\ Taken(part[t], entries)
    /\ \A j, k \in 1..Len(entries) :
         j < k => entries[j].offset + entries[j].totalsize <= entries[k].offset
    /\ Listed(t, entries)

\* The index, and the summary it will be, hold such entries.  They stay true when a
\* partition is carved again only because a scan that starts over takes the same
\* trees, gives them the same numbers and so writes what was there.
IndexInv ==
    /\ \A k \in DOMAIN Targets :
         \/ part[Targets[k]] = None
         \/ IsDump(part[Targets[k]]) /\ part[Targets[k]].n <= MinBlob * Len(TreeNames)
    /\ \A t \in DOMAIN index : Carved(t, index[t])
    /\ pc \in {"target", "scan", "write"} =>
         \A t \in DOMAIN summary :
             Carved(t, summary[t]) \/ (pc = "write" /\ t = Targets[target])
    /\ pc \in {"scan", "write"} => Dump # None /\ Taken(Dump, hits)
    /\ pc = "scan" => Comes(Dump, Behind(hits, Len(hits)), pos)
    /\ pc = "write" =>
         /\ Listed(Targets[target], summary[Targets[target]])
         /\ \A k \in 1..Written : LET e == summary[Targets[target]][k]
                                  IN  e.offset = hits[k].offset /\ e.totalsize = hits[k].totalsize

\* At the start there is no index.
LEMMA IndexInit == Init => IndexInv
<1>1. SUFFICES ASSUME Init PROVE IndexInv
  OBVIOUS
<1>2. PICK s \in Setups : part = s.part
  BY <1>1 DEF Init
<1>3. QED
  BY <1>1, <1>2, SetupsAssumption DEF Init, IndexInv

\* Entries stay true when no file of theirs is written, or only what it held.
LEMMA CarvedKept ==
  ASSUME NEW t, NEW entries, Carved(t, entries), part' = part,
         NEW name, NEW value, dir' = dir \/ dir' = Put(dir, name, value),
         \A k \in 1..Len(entries) :
            entries[k].file = name => value = part[t].magic[entries[k].offset].file
  PROVE  Carved(t, entries)'
<1>1. ASSUME NEW k \in 1..Len(entries)
      PROVE  /\ entries[k].file \in DOMAIN dir'
             /\ dir'[entries[k].file] = part[t].magic[entries[k].offset].file
  <2>1. /\ entries[k].file \in DOMAIN dir
        /\ dir[entries[k].file] = part[t].magic[entries[k].offset].file
    BY DEF Carved, Listed
  <2>2. QED
    BY <2>1 DEF Put
<1>2. QED
  BY <1>1 DEF Carved, Listed

\* When the directory does not change, neither does what is said of entries.
LEMMA CarvedSame ==
  ASSUME UNCHANGED <<part, dir>>, NEW t, NEW entries, Carved(t, entries)
  PROVE  Carved(t, entries)'
BY DEF Carved, Listed

\* The scripts that patch and dump leave the index and its files alone.
LEMMA IndexOthers ==
  ASSUME TypeInv, NamesInv, IndexInv, Next, ~CarveStep, ~Carve
  PROVE  IndexInv'
<1>1. pc' \notin {"target", "scan", "write"} /\ UNCHANGED <<part, index>>
  <2>1. CASE RunDrmode \/ RunExtcon \/ RunDump
    BY <2>1 DEF RunDrmode, RunExtcon, RunDump, Read
  <2>2. CASE DrmodeStep
    BY <2>2 DEF DrmodeStep, OpenDrmode, DrmodeBeginNode, DrmodeCopyToken, DrmodeProp,
                DrmodeUnknownToken, DrmodeEnd, DrmodeWrite, Exit, DrmodeUnchanged
  <2>3. CASE ExtconStep
    BY <2>3 DEF ExtconStep, OpenExtcon, ExtconBeginNode, ExtconSkipToken, ExtconProp,
                ExtconUnknownToken, ExtconEnd, ExtconWrite, Exit, ExtconUnchanged
  <2>4. CASE DumpStep
    BY <2>4 DEF DumpStep, OpenDump, DumpBeginNode, DumpEndNode, DumpProp, DumpNop,
                DumpPastEnd, DumpEnd, More, Dumping, Exit, DumpUnchanged
  <2>5. QED
    BY <2>1, <2>2, <2>3, <2>4 DEF Next, Step
<1>2. \/ dir' = dir
      \/ /\ \E v : dir' = Put(dir, file.to, v)
         /\ \E R : file.name \in Seq(R)
         /\ file.to = Periph(file.name) \/ file.to = Noextcon(file.name)
  <2>1. CASE RunDrmode \/ RunExtcon \/ RunDump
    BY <2>1 DEF RunDrmode, RunExtcon, RunDump, Read
  <2>2. CASE DrmodeStep
    BY <2>2 DEF DrmodeStep, OpenDrmode, DrmodeBeginNode, DrmodeCopyToken, DrmodeProp,
                DrmodeUnknownToken, DrmodeEnd, DrmodeWrite, DrmodeUnchanged, NamesInv
  <2>3. CASE ExtconStep
    BY <2>3 DEF ExtconStep, OpenExtcon, ExtconBeginNode, ExtconSkipToken, ExtconProp,
                ExtconUnknownToken, ExtconEnd, ExtconWrite, ExtconUnchanged, NamesInv
  <2>4. CASE DumpStep
    BY <2>4 DEF DumpStep, OpenDump, DumpBeginNode, DumpEndNode, DumpProp, DumpNop,
                DumpPastEnd, DumpEnd, More, Dumping, DumpUnchanged
  <2>5. QED
    BY <1>1, <2>1, <2>2, <2>3, <2>4 DEF Next, Step
<1>3. ASSUME NEW t \in DOMAIN index PROVE Carved(t, index[t])'
  <2>1. Carved(t, index[t]) /\ index' = index /\ part' = part
    BY <1>1 DEF IndexInv
  <2>2. PICK e : e = index[t] /\ e = index'[t] /\ Carved(t, e)
    BY <2>1
  <2>3. Carved(t, e)'
    <3>1. CASE dir' = dir
      BY <2>1, <2>2, <3>1, CarvedSame
    <3>2. CASE dir' # dir
      <4>1. PICK v : dir' = Put(dir, file.to, v)
        BY <1>2, <3>2
      <4>2. Len(e) <= Len(TreeNames)
        BY <2>2, EnoughNames DEF Carved, IndexInv
      <4>3. ASSUME NEW k \in 1..Len(e) PROVE e[k].file # file.to
        <5>1. e[k].file = BlobName(t, k - 1) /\ k \in 1..Len(TreeNames)
          BY <2>2, <4>2, NamesAssumption DEF Carved, Listed
        <5>2. QED
          BY <1>2, <3>2, <5>1, NamesOfPatched
      <4>4. QED
        BY <2>1, <2>2, <4>1, <4>3, CarvedKept
    <3>3. QED
      BY <3>1, <3>2
  <2>4. QED
    BY <2>2, <2>3 DEF Carved, Listed
<1>4. QED
  BY <1>1, <1>3 DEF IndexInv

\* A step of carve-dtb.py keeps the index true: what it writes over a file of an
\* earlier run is that file.
LEMMA IndexCarve ==
  ASSUME TypeInv, IndexInv, CarveStep
  PROVE  IndexInv'
<1>1. UNCHANGED part
  BY DEF CarveStep, NextTarget, WriteIndex, TakeBlob, SkipWord, Dedupe, WriteBlob, CarveDone,
         CarveUnchanged
<1>2. pc \in {"scan", "write"} =>
        /\ IsDump(Dump) /\ Dump.n <= MinBlob * Len(TreeNames) /\ target \in DOMAIN Targets
        /\ \A j, k \in 1..Len(hits) :
             j < k => hits[j].offset + hits[j].totalsize <= hits[k].offset
  BY DEF TypeInv, CarveInv, IndexInv, Dump
<1>3. Len(hits) \in Nat /\ pos \in Nat /\ DOMAIN hits = 1..Len(hits)
      /\ hits \in Seq([offset : Nat, totalsize : Nat])
  BY DEF TypeInv, TypeOK
<1>4. ASSUME UNCHANGED <<dir, index>>
      PROVE  \A t \in DOMAIN index' : Carved(t, index[t])'
  <2>1. SUFFICES ASSUME NEW t \in DOMAIN index PROVE Carved(t, index[t])'
    BY <1>4
  <2>2. PICK e : e = index[t] /\ e = index'[t] /\ Carved(t, e)
    BY <1>4, <2>1 DEF IndexInv
  <2>3. Carved(t, e)'
    BY <1>1, <1>4, <2>2, CarvedSame
  <2>4. QED
    BY <2>2, <2>3 DEF Carved, Listed
<1>5. ASSUME UNCHANGED dir, NEW t \in DOMAIN summary, summary'[t] = summary[t],
             Carved(t, summary[t])
      PROVE  Carved(t, summary[t])'
  <2>1. PICK e : e = summary[t] /\ e = summary'[t] /\ Carved(t, e)
    BY <1>5
  <2>2. Carved(t, e)'
    BY <1>1, <1>5, <2>1, CarvedSame
  <2>3. QED
    BY <2>1, <2>2 DEF Carved, Listed
<1>6. CASE NextTarget
  <2>1. UNCHANGED <<dir, index, summary>> /\ pc' \in {"target", "scan"} /\ pc = "target"
    BY <1>6 DEF NextTarget
  <2>2. \A t \in DOMAIN summary' : Carved(t, summary[t])'
    BY <1>5, <2>1 DEF IndexInv
  <2>3. pc' = "scan" => /\ Dump' # None /\ Taken(Dump', hits')
                        /\ Comes(Dump', Behind(hits', Len(hits')), pos')
    <3>1. SUFFICES ASSUME pc' = "scan"
                   PROVE  /\ Dump' # None /\ Taken(Dump', hits')
                          /\ Comes(Dump', Behind(hits', Len(hits')), pos')
      OBVIOUS
    <3>2. Dump' = Dump /\ Dump # None /\ hits' = << >> /\ pos' = 0
      BY <1>1, <1>6, <2>1, <3>1 DEF NextTarget, Dump
    <3>3. Len(<< >>) = 0
      OBVIOUS
    <3>4. Taken(Dump, << >>) /\ Behind(<< >>, 0) = 0 /\ Comes(Dump, 0, 0)
      BY <3>3, HereAtOnce DEF Taken, Behind
    <3>5. QED
      BY <3>2, <3>3, <3>4
  <2>4. QED
    BY <1>1, <1>4, <2>1, <2>2, <2>3 DEF IndexInv
<1>7. CASE WriteIndex
  <2>1. index' = summary /\ UNCHANGED <<dir, summary>> /\ pc = "target" /\ pc' = "idle"
    BY <1>7 DEF WriteIndex, Exit, carving
  <2>2. \A t \in DOMAIN index' : Carved(t, index[t])'
    <3>1. SUFFICES ASSUME NEW t \in DOMAIN summary PROVE Carved(t, index[t])'
      BY <2>1
    <3>2. Carved(t, summary[t])'
      BY <1>5, <2>1 DEF IndexInv
    <3>3. QED
      BY <2>1, <3>2 DEF Carved, Listed
  <2>3. QED
    BY <1>1, <2>1, <2>2 DEF IndexInv
<1>8. CASE TakeBlob
  <2>1. /\ pc = "scan" /\ pc' = "scan" /\ UNCHANGED <<dir, index, summary, target>>
        /\ Plausible(Dump, pos) /\ hits' = Append(hits, Blob(Dump, pos))
        /\ pos' = pos + Dump.magic[pos].totalsize
    BY <1>8 DEF TakeBlob, Scanning, CarveUnchanged
  <2>2. Dump' = Dump
    BY <1>1, <2>1 DEF Dump
  <2> DEFINE blob == Blob(Dump, pos)
             n == Len(hits)
  <2>3. blob.offset = pos /\ blob.totalsize = Dump.magic[pos].totalsize
    BY DEF Blob
  <2>4. Dump.magic[pos].totalsize \in Nat
    BY <1>2, <2>1 DEF Plausible, IsDump
  <2>5. blob \in [offset : Nat, totalsize : Nat]
    BY <1>3, <2>4 DEF Blob
  <2> HIDE DEF blob
  <2>6. /\ Len(hits') = n + 1 /\ hits'[n + 1] = blob /\ n + 1 # 0
        /\ \A k \in 1..n : hits'[k] = hits[k]
        /\ \A k \in 1..n + 1 : k \in 1..n \/ k = n + 1
        /\ \A k \in 1..n + 1 : k - 1 = 0 \/ k - 1 \in 1..n
        /\ (n + 1) - 1 = n /\ (n = 0 \/ n \in 1..n)
    <3>1. hits' = Append(hits, blob)
      BY <2>1 DEF blob
    <3>2. QED
      BY <1>3, <2>5, <3>1
  <2>7. Taken(Dump, hits) /\ Comes(Dump, Behind(hits, n), pos)
    BY <2>1 DEF IndexInv
  <2>8. \A k \in 1..n + 1 : Behind(hits', k - 1) = Behind(hits, k - 1)
    BY <2>6 DEF Behind
  <2>9. Taken(Dump, hits')
    <3>1. ASSUME NEW k \in 1..n + 1
          PROVE  /\ Plausible(Dump, hits'[k].offset)
                 /\ hits'[k].totalsize = Dump.magic[hits'[k].offset].totalsize
                 /\ Comes(Dump, Behind(hits', k - 1), hits'[k].offset)
      <4>1. CASE k \in 1..n
        BY <2>6, <2>7, <2>8, <4>1 DEF Taken
      <4>2. CASE k = n + 1
        BY <2>1, <2>3, <2>6, <2>7, <2>8, <4>2
      <4>3. QED
        BY <2>6, <4>1, <4>2
    <3>2. QED
      BY <2>6, <3>1 DEF Taken
  <2>10. Comes(Dump, Behind(hits', Len(hits')), pos')
    <3>1. Behind(hits', n + 1) = pos'
      BY <2>1, <2>3, <2>6 DEF Behind
    <3>2. pos' \in Nat
      BY <1>3, <2>1, <2>4
    <3>3. QED
      BY <2>6, <3>1, <3>2, HereAtOnce
  <2>11. \A t \in DOMAIN summary' : Carved(t, summary[t])'
    BY <1>5, <2>1 DEF IndexInv
  <2>12. Dump' # None
    BY <2>1, <2>2 DEF IndexInv
  <2>13. QED
    BY <1>1, <1>4, <2>1, <2>2, <2>9, <2>10, <2>11, <2>12 DEF IndexInv
<1>9. CASE SkipWord
  <2>1. /\ pc = "scan" /\ pc' = "scan" /\ UNCHANGED <<dir, index, summary, target, hits>>
        /\ ~Plausible(Dump, pos) /\ pos' = pos + 4
    BY <1>9 DEF SkipWord, Scanning, CarveUnchanged
  <2>2. Dump' = Dump
    BY <1>1, <2>1 DEF Dump
  <2>3. Taken(Dump, hits) /\ Comes(Dump, Behind(hits, Len(hits)), pos) /\ Dump # None
    BY <2>1 DEF IndexInv
  <2>4. Comes(Dump, Behind(hits, Len(hits)), pos')
    <3> DEFINE a == Behind(hits, Len(hits))
    <3>1. PICK j \in Nat : pos = a + 4 * j /\ \A i \in Nat : i < j => ~Plausible(Dump, a + 4 * i)
      BY <2>3 DEF Comes
    <3>2. a \in Nat
      BY <1>2, <1>3, <2>1, <2>3, TakenPlaces
    <3> HIDE DEF a
    <3>3. j + 1 \in Nat /\ pos' = a + 4 * (j + 1)
      BY <2>1, <3>1, <3>2
    <3>4. ASSUME NEW i \in Nat, i < j + 1 PROVE ~Plausible(Dump, a + 4 * i)
      <4>1. i < j \/ i = j
        BY <3>4
      <4>2. QED
        BY <2>1, <3>1, <4>1
    <3>5. QED
      BY <3>3, <3>4 DEF Comes, a
  <2>5. \A t \in DOMAIN summary' : Carved(t, summary[t])'
    BY <1>5, <2>1 DEF IndexInv
  <2>6. QED
    BY <1>1, <1>4, <2>1, <2>2, <2>3, <2>4, <2>5 DEF IndexInv
<1>10. CASE Dedupe
  <2>1. /\ pc = "scan" /\ pc' = "write" /\ UNCHANGED <<dir, index, target>> /\ pos + 8 > Dump.n
        /\ hits' = Deduped(hits) /\ summary' = Put(summary, Targets[target], << >>)
    BY <1>10 DEF Dedupe, CarveUnchanged
  <2>2. Dump' = Dump /\ Targets[target'] = Targets[target]
    BY <1>1, <2>1 DEF Dump
  <2>3. hits' = hits
    BY <1>2, <1>3, <2>1, DedupedKeeps
  <2>4. Taken(Dump, hits) /\ Comes(Dump, Behind(hits, Len(hits)), pos) /\ Dump # None
    BY <2>1 DEF IndexInv
  <2>6. summary'[Targets[target]] = << >> /\ Len(<< >>) = 0
    BY <2>1 DEF Put
  <2>7. Written' = 0 /\ Listed(Targets[target], << >>)'
    BY <2>2, <2>6 DEF Written, Listed
  <2>8. ASSUME NEW t \in DOMAIN summary', t # Targets[target] PROVE Carved(t, summary[t])'
    <3>1. t \in DOMAIN summary /\ summary'[t] = summary[t]
      BY <2>1, <2>8 DEF Put
    <3>2. Carved(t, summary[t])
      BY <2>1, <3>1 DEF IndexInv
    <3>3. QED
      BY <1>5, <2>1, <3>1, <3>2
  <2>9. Listed(Targets[target], summary[Targets[target]])'
    BY <2>2, <2>6 DEF Listed
  <2>10. \A k \in 1..Written' : FALSE
    BY <2>7
  <2>11. QED
    BY <1>1, <1>4, <2>1, <2>2, <2>3, <2>4, <2>8, <2>9, <2>10 DEF IndexInv
<1>11. CASE WriteBlob
  <2> DEFINE T == Targets[target]
             w == Written
  <2>1. PICK o : o = summary[T]
    OBVIOUS
  <2>2. PICK h : h = hits[w + 1]
    OBVIOUS
  <2>3. PICK name : name = BlobName(T, w)
    OBVIOUS
  <2>4. PICK value : value = Dump.magic[h.offset].file
    OBVIOUS
  <2>5. PICK e : e = [file |-> name, offset |-> h.offset, totalsize |-> h.totalsize]
    OBVIOUS
  <2>6. /\ pc = "write" /\ pc' = "write" /\ UNCHANGED <<index, target, hits>>
        /\ w < Len(hits) /\ dir' = Put(dir, name, value)
        /\ summary' = [summary EXCEPT ![T] = Append(@, e)]
    BY <1>11, <2>2, <2>3, <2>4, <2>5 DEF WriteBlob, CarveUnchanged
  <2>7. /\ T \in DOMAIN summary /\ \E S : o \in Seq(S)
        /\ w = Len(o) /\ w \in Nat
    BY <2>1, <2>6 DEF TypeInv, CarveInv, Written
  <2>8. Dump' = Dump /\ Targets[target'] = T /\ Dump = part[T]
    BY <1>1, <2>6 DEF Dump
  <2>9. /\ Taken(Dump, hits) /\ Dump # None /\ Listed(T, o)
        /\ \A k \in 1..w : o[k].offset = hits[k].offset /\ o[k].totalsize = hits[k].totalsize
    BY <2>1, <2>6 DEF IndexInv
  <2>10. Len(hits) <= Len(TreeNames) /\ Len(TreeNames) \in Nat
    <3>1. PICK q : q = Dump
      OBVIOUS
    <3>2. PICK found : found = hits
      OBVIOUS
    <3>3. /\ IsDump(q) /\ q.n <= MinBlob * Len(TreeNames) /\ Len(found) \in Nat /\ Taken(q, found)
          /\ \A j, k \in 1..Len(found) :
               j < k => found[j].offset + found[j].totalsize <= found[k].offset
      BY <1>2, <1>3, <2>6, <2>9, <3>1, <3>2, Zenon
    <3>4. Len(found) <= Len(TreeNames)
      BY <3>3, EnoughNames
    <3>5. QED
      BY <3>2, <3>4, NamesAssumption
  <2>11. /\ w + 1 \in 1..Len(hits) /\ w + 1 \in 1..Len(TreeNames) /\ (w + 1) - 1 = w
         /\ \A k \in 1..w + 1 : k \in 1..w \/ k = w + 1
    BY <1>3, <2>6, <2>7, <2>10, SMTT(60)
  <2>12. PICK new : new = Append(o, e)
    OBVIOUS
  <2>13. /\ Len(new) = w + 1 /\ new[w + 1] = e /\ \A k \in 1..w : new[k] = o[k]
         /\ summary'[T] = new /\ DOMAIN summary' = DOMAIN summary
         /\ \A t \in DOMAIN summary : t # T => summary'[t] = summary[t]
    <3>1. PICK S : o \in Seq(S)
      BY <2>7
    <3>2. o \in Seq(S \cup {e})
      BY <3>1, SeqMonotone
    <3>3. Len(new) = w + 1 /\ new[w + 1] = e /\ \A k \in 1..w : new[k] = o[k]
      BY <2>7, <2>12, <3>2
    <3>4. QED
      BY <2>1, <2>6, <2>7, <2>12, <3>3
  <2>14. ASSUME NEW t, NEW entries, Carved(t, entries)
         PROVE  Carved(t, entries)'
    <3>1. ASSUME NEW k \in 1..Len(entries), entries[k].file = name
          PROVE  value = part[t].magic[entries[k].offset].file
      <4>1. /\ IsDump(part[t]) /\ part[t].n <= MinBlob * Len(TreeNames)
            /\ Len(entries) \in Nat
        BY <2>14 DEF Carved, IndexInv
      <4>2. Len(entries) <= Len(TreeNames)
        BY <2>14, <4>1, EnoughNames DEF Carved
      <4>3. k \in 1..Len(TreeNames) /\ BlobName(t, k - 1) = BlobName(T, (w + 1) - 1)
        BY <2>3, <2>10, <2>11, <2>14, <3>1, <4>1, <4>2 DEF Carved, Listed
      <4>4. t = T /\ k = w + 1
        BY <2>11, <4>3, NamesApart
      <4>5. entries[k].offset = hits[k].offset
        <5>1. PICK found : found = hits
          OBVIOUS
        <5>2. IsDump(part[T]) /\ Taken(part[T], found) /\ Len(found) \in Nat
          BY <1>2, <1>3, <2>6, <2>8, <2>9, <5>1
        <5>3. Taken(part[T], entries) /\ Len(entries) \in Nat
          BY <2>14, <4>1, <4>4 DEF Carved
        <5>4. k \in 1..Len(entries) /\ k <= Len(found)
          BY <1>3, <2>11, <3>1, <4>4, <5>1
        <5>5. QED
          BY <5>1, <5>2, <5>3, <5>4, SamePrefix
      <4>6. QED
        BY <2>2, <2>4, <2>8, <4>4, <4>5
    <3>2. QED
      BY <1>1, <2>6, <2>14, <3>1, CarvedKept
  <2>15. Listed(T, new)'
    <3>1. ASSUME NEW k \in 1..w + 1
          PROVE  /\ new[k].file = BlobName(T, k - 1) /\ new[k].file \in DOMAIN dir'
                 /\ dir'[new[k].file] = part[T].magic[new[k].offset].file
      <4>1. CASE k = w + 1
        BY <2>3, <2>4, <2>5, <2>6, <2>8, <2>11, <2>13, <4>1 DEF Put
      <4>2. CASE k \in 1..w
        <5>1. new[k] = o[k] /\ o[k].file = BlobName(T, k - 1) /\ o[k].file \in DOMAIN dir
              /\ dir[o[k].file] = part[T].magic[o[k].offset].file
          BY <2>7, <2>9, <2>13, <4>2 DEF Listed
        <5>2. k \in 1..Len(TreeNames) /\ k # w + 1
          BY <2>7, <2>11, <2>10, <4>2
        <5>3. o[k].file # name
          BY <2>3, <2>11, <5>1, <5>2, NamesApart
        <5>4. QED
          BY <2>6, <5>1, <5>3 DEF Put
      <4>3. QED
        BY <2>11, <4>1, <4>2
    <3>2. QED
      BY <1>1, <2>6, <2>13, <3>1 DEF Listed
  <2>16. \A t \in DOMAIN index' : Carved(t, index[t])'
    <3>1. SUFFICES ASSUME NEW t \in DOMAIN index PROVE Carved(t, index[t])'
      BY <2>6
    <3>2. PICK entries : entries = index[t] /\ entries = index'[t] /\ Carved(t, entries)
      BY <2>6, <3>1 DEF IndexInv
    <3>3. Carved(t, entries)'
      BY <2>14, <3>2
    <3>4. QED
      BY <3>2, <3>3 DEF Carved, Listed
  <2>17. ASSUME NEW t \in DOMAIN summary', t # T PROVE Carved(t, summary[t])'
    <3>1. PICK entries : entries = summary[t] /\ entries = summary'[t] /\ Carved(t, entries)
      BY <2>6, <2>13, <2>17 DEF IndexInv
    <3>2. Carved(t, entries)'
      BY <2>14, <3>1
    <3>3. QED
      BY <3>1, <3>2 DEF Carved, Listed
  <2>18. Listed(Targets[target], summary[Targets[target]])'
    BY <2>8, <2>13, <2>15 DEF Listed
  <2>19. Written' = w + 1
    BY <2>8, <2>13 DEF Written
  <2>20. \A k \in 1..Written' :
           /\ summary'[T][k].offset = hits[k].offset
           /\ summary'[T][k].totalsize = hits[k].totalsize
    <3>1. e.offset = hits[w + 1].offset /\ e.totalsize = hits[w + 1].totalsize
      BY <2>2, <2>5
    <3>2. ASSUME NEW k \in 1..w + 1
          PROVE  new[k].offset = hits[k].offset /\ new[k].totalsize = hits[k].totalsize
      <4>1. CASE k \in 1..w
        BY <2>9, <2>13, <4>1
      <4>2. CASE k = w + 1
        BY <2>13, <3>1, <4>2
      <4>3. QED
        BY <2>11, <4>1, <4>2
    <3>3. QED
      BY <2>13, <2>19, <3>2
  <2>21. QED
    BY <1>1, <2>6, <2>8, <2>9, <2>16, <2>17, <2>18, <2>20 DEF IndexInv
<1>12. CASE CarveDone
  <2> DEFINE T == Targets[target]
  <2>1. /\ pc = "write" /\ pc' = "target" /\ UNCHANGED <<dir, index, summary>>
        /\ Written = Len(hits)
    BY <1>12 DEF CarveDone, CarveUnchanged
  <2>2. PICK o : o = summary[T] /\ \E S : o \in Seq(S)
    BY <2>1 DEF TypeInv, CarveInv
  <2>3. Len(o) = Len(hits) /\ Len(o) \in Nat /\ DOMAIN o = 1..Len(o)
    BY <2>1, <2>2 DEF Written
  <2>4. /\ Taken(Dump, hits) /\ Dump # None /\ Listed(T, o)
        /\ \A k \in 1..Len(o) : o[k].offset = hits[k].offset /\ o[k].totalsize = hits[k].totalsize
    BY <2>1, <2>2, <2>3 DEF IndexInv
  <2>5. \A k \in 0..Len(o) : Behind(o, k) = Behind(hits, k)
    BY <2>3, <2>4 DEF Behind
  <2>6. Taken(Dump, o)
    <3>1. \A k \in 1..Len(o) : k - 1 \in 0..Len(o)
      BY <2>3
    <3>2. QED
      BY <2>3, <2>4, <2>5, <3>1 DEF Taken
  <2>7. Carved(T, o)
    <3>1. part[T] = Dump /\ target \in DOMAIN Targets
      BY <1>2, <2>1 DEF Dump
    <3>2. \A j, k \in 1..Len(o) : j < k => o[j].offset + o[j].totalsize <= o[k].offset
      BY <1>2, <2>1, <2>3, <2>4
    <3>3. QED
      BY <2>3, <2>4, <2>6, <3>1, <3>2 DEF Carved
  <2>8. \A t \in DOMAIN summary : Carved(t, summary[t])
    BY <2>1, <2>2, <2>7 DEF IndexInv
  <2>9. \A t \in DOMAIN summary' : Carved(t, summary[t])'
    BY <1>5, <2>1, <2>8
  <2>10. QED
    BY <1>1, <1>4, <2>1, <2>9 DEF IndexInv
<1>13. QED
  BY <1>6, <1>7, <1>8, <1>9, <1>10, <1>11, <1>12 DEF CarveStep

\* Every step keeps the index true.
LEMMA IndexStep ==
  ASSUME TypeInv, NamesInv, IndexInv, [Next]_vars
  PROVE  IndexInv'
<1>1. ASSUME UNCHANGED <<part, dir, index>>, NEW t \in DOMAIN index'
      PROVE  Carved(t, index[t])'
  <2>1. Carved(t, index[t])
    BY <1>1 DEF IndexInv
  <2>2. QED
    BY <1>1, <2>1 DEF Carved, Listed
<1>2. CASE Carve
  BY <1>1, <1>2 DEF Carve, IndexInv
<1>3. CASE UNCHANGED vars
  <2>1. UNCHANGED <<pc, part, dir, index, summary, hits, target, pos>>
    BY <1>3 DEF vars, walk, carving
  <2>2. ASSUME NEW t \in DOMAIN summary, Carved(t, summary[t]) PROVE Carved(t, summary[t])'
    BY <2>1, <2>2 DEF Carved, Listed
  <2>3. Dump' = Dump /\ Written' = Written
    BY <2>1 DEF Dump, Written
  <2>4. Listed(Targets[target], summary[Targets[target]]) =>
          Listed(Targets[target], summary[Targets[target]])'
    BY <2>1 DEF Listed
  <2>5. QED
    BY <1>1, <2>1, <2>2, <2>3, <2>4 DEF IndexInv
<1>4. QED
  BY <1>2, <1>3, IndexCarve, IndexOthers

\* What dtb-index.json says is true, whatever has been carved again or patched into
\* the same directory since, for dumps of any size and with any number of trees.
THEOREM IndexNeverLies == Spec => []IndexTrue
<1>1. IndexInv => IndexTrue
  BY DEF IndexInv, Carved, Listed, IndexTrue
<1>2. Spec => []NamesInv
  BY NamesInit, NamesStep, PTL DEF Spec
<1>3. Spec => []IndexInv
  BY <1>2, TypeInvariant, IndexInit, IndexStep, PTL DEF Spec
<1>4. QED
  BY <1>1, <1>3, PTL

-------------------------------------------------------------------------------
(* Trees, and the cells they are written as                                    *)

\* A block is the cells of the tokens, one behind the other.
LEMMA EncodeAsJoin ==
  ASSUME NEW S, NEW tree \in Seq(S)
  PROVE  Encode(tree) = JoinOf([k \in 1..Len(tree) |-> EncodeToken(tree[k])], Len(tree))
<1> DEFINE n == Len(tree)
           g == [k \in 1..n |-> EncodeToken(tree[k])]
           body(f) == [k \in 0..n |-> IF k = 0 THEN << >> ELSE f[k - 1] \o EncodeToken(tree[k])]
<1>1. Encode(tree) = (CHOOSE f : f = body(f))[n]
  BY DEF Encode
<1>2. n \in Nat
  OBVIOUS
<1>3. ASSUME NEW f PROVE body(f) = Joined(g, n, f)
  <2>1. ASSUME NEW k \in 0..n, k # 0 PROVE g[k] = EncodeToken(tree[k])
    <3>1. k \in 1..n
      BY <1>2, <2>1
    <3>2. QED
      BY <3>1
  <2>2. ASSUME NEW k \in 0..n PROVE body(f)[k] = Joined(g, n, f)[k]
    BY <2>1 DEF Joined
  <2>3. QED
    BY <2>2 DEF Joined
<1> HIDE DEF body, g, n
<1>4. (CHOOSE f : f = body(f)) = (CHOOSE f : f = Joined(g, n, f))
  BY <1>3
<1>5. QED
  BY <1>1, <1>4 DEF JoinOf, g, n

\* No token, no cells.
LEMMA EncodeNone == Encode(<< >>) = << >>
<1>1. << >> \in Seq({}) /\ Len(<< >>) = 0
  OBVIOUS
<1>2. QED
  BY <1>1, EncodeAsJoin, JoinOfNone, Zenon

\* One more token
LEMMA EncodeAppend ==
  ASSUME NEW S, NEW tree \in Seq(S), NEW t \in S
  PROVE  Encode(Append(tree, t)) = Encode(tree) \o EncodeToken(t)
<1> DEFINE n == Len(tree)
           longer == Append(tree, t)
           g == [k \in 1..n |-> EncodeToken(tree[k])]
           h == [k \in 1..n + 1 |-> EncodeToken(longer[k])]
<1>1. n \in Nat /\ longer \in Seq(S) /\ Len(longer) = n + 1
  OBVIOUS
<1>2. longer[n + 1] = t /\ \A k \in 1..n : longer[k] = tree[k]
  OBVIOUS
<1>3. n + 1 \in 1..n + 1 /\ \A k \in 1..n : k \in 1..n + 1
  BY <1>1
<1> HIDE DEF longer
<1>4. Encode(tree) = JoinOf(g, n)
  BY EncodeAsJoin
<1>5. Encode(longer) = JoinOf(h, n + 1)
  BY <1>1, EncodeAsJoin
<1>6. \A k \in 1..n : g[k] = h[k]
  BY <1>2, <1>3
<1>7. h[n + 1] = EncodeToken(t)
  BY <1>2, <1>3
<1> HIDE DEF g, h, n
<1>8. JoinOf(h, n + 1) = JoinOf(g, n) \o h[n + 1]
  BY <1>1, <1>6, JoinOfNext
<1>9. QED
  BY <1>4, <1>5, <1>7, <1>8 DEF longer

\* The first k tokens of a tree, and where the next one is
Front(tree, k) == SubSeq(tree, 1, k)
Place(tree, k) == Len(Encode(Front(tree, k)))

\* The cells w lie in the data d, from place p on.
Lies(d, p, w) == p + Len(w) <= Len(d) /\ \A i \in 1..Len(w) : d[p + i] = w[i]

\* One token after another
LEMMA Fronts ==
  ASSUME NEW S, NEW tree \in Seq(S)
  PROVE  /\ Front(tree, 0) = << >> /\ Front(tree, Len(tree)) = tree /\ Len(tree) \in Nat
         /\ \A k \in 0..Len(tree) : Front(tree, k) \in Seq(S) /\ Len(Front(tree, k)) = k
         /\ \A k \in 0..Len(tree) :
              k < Len(tree) => /\ k + 1 \in DOMAIN tree /\ tree[k + 1] \in S
                               /\ Front(tree, k + 1) = Append(Front(tree, k), tree[k + 1])
<1>1. Front(tree, 0) = << >> /\ Front(tree, Len(tree)) = tree /\ Len(tree) \in Nat
  BY DEF Front
<1>2. ASSUME NEW k \in 0..Len(tree)
      PROVE  Front(tree, k) \in Seq(S) /\ Len(Front(tree, k)) = k
  BY DEF Front
<1>3. ASSUME NEW k \in 0..Len(tree), k < Len(tree)
      PROVE  /\ k + 1 \in DOMAIN tree /\ tree[k + 1] \in S
             /\ Front(tree, k + 1) = Append(Front(tree, k), tree[k + 1])
  BY <1>3 DEF Front
<1>4. QED
  BY <1>1, <1>2, <1>3

\* A token is written as cells, at least one.
LEMMA TokenCells ==
  ASSUME NEW strings, NEW t, IsToken(strings, t)
  PROVE  EncodeToken(t) \in Seq(Nat) /\ Len(EncodeToken(t)) \in Nat /\ Len(EncodeToken(t)) >= 1
<1>1. CASE t.kind \in {"end", "nop", "stop"}
  BY <1>1 DEF EncodeToken, END_NODE, NOP, END
<1>2. CASE t.kind = "node" /\ t.name \in Seq(Nat)
  BY <1>2 DEF EncodeToken, BEGIN_NODE
<1>3. CASE t.kind = "prop" /\ t.off \in Nat /\ t.len \in Nat /\ t.val \in Seq(Nat)
  <2>1. <<PROP, t.len, t.off>> \in Seq(Nat) /\ Len(<<PROP, t.len, t.off>>) = 3
    BY <1>3 DEF PROP
  <2>2. EncodeToken(t) = <<PROP, t.len, t.off>> \o t.val
    BY <1>3 DEF EncodeToken
  <2>3. QED
    BY <1>3, <2>1, <2>2
<1>4. QED
  BY <1>1, <1>2, <1>3 DEF IsToken

\* Tokens that are written as cells, at least one each
Writable(S) == \A t \in S : EncodeToken(t) \in Seq(Nat) /\ Len(EncodeToken(t)) >= 1

\* The cells of the first tokens are those of the first but one, and its own.
LEMMA EncodeFront ==
  ASSUME NEW S, NEW tree \in Seq(S), Writable(S)
  PROVE  /\ Encode(Front(tree, 0)) = << >> /\ Place(tree, 0) = 0
         /\ \A k \in 0..Len(tree) : Encode(Front(tree, k)) \in Seq(Nat) /\ Place(tree, k) \in Nat
         /\ \A k \in 0..Len(tree) :
              k < Len(tree) =>
                /\ EncodeToken(tree[k + 1]) \in Seq(Nat)
                /\ Len(EncodeToken(tree[k + 1])) \in Nat /\ Len(EncodeToken(tree[k + 1])) >= 1
                /\ Encode(Front(tree, k + 1)) = Encode(Front(tree, k)) \o EncodeToken(tree[k + 1])
                /\ Place(tree, k + 1) = Place(tree, k) + Len(EncodeToken(tree[k + 1]))
<1>1. Encode(Front(tree, 0)) = << >>
  BY Fronts, EncodeNone
<1>2. ASSUME NEW k \in 0..Len(tree), k < Len(tree)
      PROVE  /\ EncodeToken(tree[k + 1]) \in Seq(Nat) /\ Len(EncodeToken(tree[k + 1])) >= 1
             /\ Encode(Front(tree, k + 1)) = Encode(Front(tree, k)) \o EncodeToken(tree[k + 1])
  <2>1. /\ tree[k + 1] \in S /\ Front(tree, k) \in Seq(S)
        /\ Front(tree, k + 1) = Append(Front(tree, k), tree[k + 1])
    BY <1>2, Fronts
  <2>2. Encode(Append(Front(tree, k), tree[k + 1])) = Encode(Front(tree, k)) \o EncodeToken(tree[k + 1])
    BY <2>1, EncodeAppend
  <2>3. QED
    BY <2>1, <2>2, Zenon DEF Writable
<1> DEFINE G == {k \in Nat : k <= Len(tree) => Encode(Front(tree, k)) \in Seq(Nat)}
<1>3. 0 \in G
  <2>1. << >> \in Seq(Nat)
    OBVIOUS
  <2>2. Encode(Front(tree, 0)) \in Seq(Nat) /\ 0 \in Nat
    BY <1>1, <2>1, Zenon
  <2>3. QED
    BY <2>2, Zenon
<1>4. ASSUME NEW k \in G PROVE k + 1 \in G
  <2>1. k + 1 \in Nat /\ k \in Nat /\ Len(tree) \in Nat
    BY Fronts
  <2>2. ASSUME k + 1 <= Len(tree) PROVE Encode(Front(tree, k + 1)) \in Seq(Nat)
    <3>1. k \in 0..Len(tree) /\ k < Len(tree) /\ k <= Len(tree)
      BY <2>1, <2>2
    <3>2. /\ EncodeToken(tree[k + 1]) \in Seq(Nat)
          /\ Encode(Front(tree, k + 1)) = Encode(Front(tree, k)) \o EncodeToken(tree[k + 1])
      BY <1>2, <3>1, Zenon
    <3>3. Encode(Front(tree, k)) \in Seq(Nat)
      BY <3>1
    <3>4. QED
      BY <3>2, <3>3, Concats, ZenonT(60)
  <2>3. QED
    BY <2>1, <2>2, Zenon
<1> HIDE DEF G
<1>5. G \in SUBSET Nat
  BY DEF G
<1>6. G = Nat
  BY <1>3, <1>4, <1>5, Induction
<1>7. \A k \in 0..Len(tree) : Encode(Front(tree, k)) \in Seq(Nat)
  BY <1>6 DEF G
<1>8. \A k \in 0..Len(tree) : Place(tree, k) \in Nat
  BY <1>7 DEF Place
<1>9. Place(tree, 0) = 0
  BY <1>1 DEF Place
<1>10. ASSUME NEW k \in 0..Len(tree), k < Len(tree)
       PROVE  /\ Place(tree, k + 1) = Place(tree, k) + Len(EncodeToken(tree[k + 1]))
              /\ Len(EncodeToken(tree[k + 1])) \in Nat
  <2>1. PICK w \in Seq(Nat) : w = EncodeToken(tree[k + 1])
                              /\ Encode(Front(tree, k + 1)) = Encode(Front(tree, k)) \o w
    BY <1>2, <1>10
  <2>2. PICK s \in Seq(Nat) : s = Encode(Front(tree, k))
    BY <1>7
  <2>3. Len(s \o w) = Len(s) + Len(w) /\ Len(w) \in Nat
    OBVIOUS
  <2>4. QED
    BY <2>1, <2>2, <2>3 DEF Place
<1>11. QED
  BY <1>1, <1>2, <1>7, <1>8, <1>9, <1>10, Zenon

\* A block starts with the cells of its first tokens.
LEMMA EncodeStarts ==
  ASSUME NEW S, NEW tree \in Seq(S), Writable(S), NEW k \in 0..Len(tree)
  PROVE  \E rest \in Seq(Nat) : Encode(tree) = Encode(Front(tree, k)) \o rest
<1> DEFINE G == {m \in Nat : k + m <= Len(tree) =>
                   \E rest \in Seq(Nat) : Encode(Front(tree, k + m)) = Encode(Front(tree, k)) \o rest}
<1>1. Encode(Front(tree, k)) \in Seq(Nat) /\ k \in Nat /\ Len(tree) \in Nat
  <2>1. Encode(Front(tree, k)) \in Seq(Nat)
    BY EncodeFront, Zenon
  <2>2. QED
    BY <2>1, Fronts
<1>2. 0 \in G
  <2>1. Encode(Front(tree, k)) = Encode(Front(tree, k)) \o << >> /\ << >> \in Seq(Nat)
    BY <1>1, Concats3, Zenon
  <2>2. k + 0 = k /\ 0 \in Nat
    BY <1>1
  <2>3. QED
    BY <2>1, <2>2, Zenon
<1>3. ASSUME NEW m \in G PROVE m + 1 \in G
  <2>1. m \in Nat /\ m + 1 \in Nat
    OBVIOUS
  <2>2. ASSUME k + (m + 1) <= Len(tree)
        PROVE  \E rest \in Seq(Nat) :
                 Encode(Front(tree, k + (m + 1))) = Encode(Front(tree, k)) \o rest
    <3>1. k + m \in 0..Len(tree) /\ k + m < Len(tree) /\ k + m <= Len(tree) /\ k + (m + 1) = (k + m) + 1
      BY <1>1, <2>1, <2>2
    <3>2. PICK w \in Seq(Nat) : Encode(Front(tree, (k + m) + 1)) = Encode(Front(tree, k + m)) \o w
      BY <3>1, EncodeFront, Zenon
    <3>3. PICK rest \in Seq(Nat) : Encode(Front(tree, k + m)) = Encode(Front(tree, k)) \o rest
      BY <3>1
    <3>4. /\ (Encode(Front(tree, k)) \o rest) \o w = Encode(Front(tree, k)) \o (rest \o w)
          /\ rest \o w \in Seq(Nat)
      <4>1. PICK s \in Seq(Nat) : s = Encode(Front(tree, k))
        BY <1>1
      <4>2. (s \o rest) \o w = s \o (rest \o w)
        BY NatConcats, ZenonT(60)
      <4>3. rest \o w \in Seq(Nat)
        BY Concats, Zenon
      <4>4. QED
        BY <4>1, <4>2, <4>3, Zenon
    <3>5. QED
      BY <3>1, <3>2, <3>3, <3>4, Zenon
  <2>3. QED
    BY <2>1, <2>2, Zenon
<1> HIDE DEF G
<1>4. G \in SUBSET Nat
  BY DEF G
<1>5. G = Nat
  BY <1>2, <1>3, <1>4, Induction
<1>6. PICK m \in Nat : k + m = Len(tree)
  <2>1. Len(tree) - k \in Nat /\ k + (Len(tree) - k) = Len(tree)
    BY <1>1
  <2>2. QED
    BY <2>1
<1>7. k + m <= Len(tree)
  BY <1>1, <1>6
<1>8. \E rest \in Seq(Nat) : Encode(Front(tree, k + m)) = Encode(Front(tree, k)) \o rest
  BY <1>5, <1>7, Zenon DEF G
<1>9. Encode(Front(tree, k + m)) = Encode(tree)
  BY <1>6, Fronts
<1>10. QED
  BY <1>8, <1>9, Zenon

\* Every token lies at its place.
LEMMA Laid ==
  ASSUME NEW S, NEW tree \in Seq(S), Writable(S), NEW k \in 0..Len(tree)
  PROVE  /\ Place(tree, k) <= Len(Encode(tree)) /\ Encode(tree) \in Seq(Nat)
         /\ k = Len(tree) => Place(tree, k) = Len(Encode(tree))
         /\ k < Len(tree) => /\ Place(tree, k) < Len(Encode(tree))
                             /\ Lies(Encode(tree), Place(tree, k), EncodeToken(tree[k + 1]))
<1>1. Encode(tree) \in Seq(Nat)
  <2>1. Len(tree) \in 0..Len(tree) /\ Front(tree, Len(tree)) = tree
    BY Fronts
  <2>2. Encode(Front(tree, Len(tree))) \in Seq(Nat)
    BY <2>1, EncodeFront, Zenon
  <2>3. QED
    BY <2>1, <2>2, Zenon
<1>2. k = Len(tree) => Place(tree, k) = Len(Encode(tree))
  BY Fronts, Zenon DEF Place
<1>3. Place(tree, k) <= Len(Encode(tree))
  <2>1. PICK rest \in Seq(Nat) : Encode(tree) = Encode(Front(tree, k)) \o rest
    BY EncodeStarts, Zenon
  <2>2. PICK s \in Seq(Nat) : s = Encode(Front(tree, k))
    BY EncodeFront, Zenon
  <2>3. Len(s) <= Len(s \o rest)
    OBVIOUS
  <2>4. QED
    BY <2>1, <2>2, <2>3, Zenon DEF Place
<1>4. ASSUME k < Len(tree)
      PROVE  /\ Place(tree, k) < Len(Encode(tree))
             /\ Lies(Encode(tree), Place(tree, k), EncodeToken(tree[k + 1]))
  <2>1. k + 1 \in 0..Len(tree)
    BY <1>4, Fronts
  <2>2. PICK rest \in Seq(Nat) : Encode(tree) = Encode(Front(tree, k + 1)) \o rest
    BY <2>1, EncodeStarts, Zenon
  <2>3. PICK w \in Seq(Nat) : /\ w = EncodeToken(tree[k + 1]) /\ Len(w) >= 1
                              /\ Encode(Front(tree, k + 1)) = Encode(Front(tree, k)) \o w
    BY <1>4, EncodeFront, Zenon
  <2>4. PICK s \in Seq(Nat) : s = Encode(Front(tree, k))
    BY EncodeFront, Zenon
  <2>5. Encode(tree) = (s \o w) \o rest
    BY <2>2, <2>3, <2>4
  <2>6. /\ Len(s) + Len(w) <= Len((s \o w) \o rest) /\ Len(s) < Len((s \o w) \o rest)
        /\ \A i \in 1..Len(w) : ((s \o w) \o rest)[Len(s) + i] = w[i]
    BY <2>3
  <2>7. QED
    BY <2>3, <2>4, <2>5, <2>6, Zenon DEF Place, Lies
<1>5. QED
  BY <1>1, <1>2, <1>3, <1>4

-------------------------------------------------------------------------------
(* What the scripts read where a token lies                                    *)

\* The first cell tells the tokens apart.
LEMMA FirstCell ==
  ASSUME NEW strings, NEW t, IsToken(strings, t)
  PROVE  /\ Len(EncodeToken(t)) >= 1 /\ EncodeToken(t) \in Seq(Nat)
         /\ t.kind \in {"node", "end", "prop", "nop", "stop"}
         /\ EncodeToken(t)[1] = CASE t.kind = "node" -> BEGIN_NODE
                                  [] t.kind = "end"  -> END_NODE
                                  [] t.kind = "prop" -> PROP
                                  [] t.kind = "nop"  -> NOP
                                  [] OTHER           -> END
         /\ t.kind \in {"end", "nop", "stop"} => Len(EncodeToken(t)) = 1
<1>1. CASE t.kind \in {"end", "nop", "stop"}
  BY <1>1 DEF EncodeToken, END_NODE, NOP, END
<1>2. CASE t.kind = "node" /\ t.name \in Seq(Nat)
  <2>1. EncodeToken(t) = <<BEGIN_NODE>> \o t.name
    BY <1>2 DEF EncodeToken
  <2>2. <<BEGIN_NODE>> \in Seq(Nat) /\ Len(<<BEGIN_NODE>>) = 1
    BY DEF BEGIN_NODE
  <2>3. QED
    BY <1>2, <2>1, <2>2
<1>3. CASE t.kind = "prop" /\ t.off \in Nat /\ t.len \in Nat /\ t.val \in Seq(Nat)
  <2>1. <<PROP, t.len, t.off>> \in Seq(Nat) /\ Len(<<PROP, t.len, t.off>>) = 3
    BY <1>3 DEF PROP
  <2>2. EncodeToken(t) = <<PROP, t.len, t.off>> \o t.val
    BY <1>3 DEF EncodeToken
  <2>3. QED
    BY <1>3, <2>1, <2>2
<1>4. QED
  BY <1>1, <1>2, <1>3 DEF IsToken

\* A slice from where cells lie to behind them
LEMMA SliceLies ==
  ASSUME NEW d \in Seq(Nat), NEW p \in Nat, NEW w \in Seq(Nat), Lies(d, p, w)
  PROVE  Slice(d, p, p + Len(w)) = w
<1>1. Len(w) \in Nat /\ Len(d) \in Nat /\ p + Len(w) <= Len(d) /\ p + Len(w) \in Nat
  BY DEF Lies
<1>2. Slice(d, p, p + Len(w)) = SubSeq(d, p + 1, p + Len(w))
  <2>1. PICK e \in Nat : e = p + Len(w)
    BY <1>1
  <2>2. e < Len(d) \/ e = Len(d)
    BY <1>1, <2>1
  <2>3. Slice(d, p, e) = SubSeq(d, p + 1, e)
    BY <2>2 DEF Slice
  <2>4. QED
    BY <2>1, <2>3
<1> DEFINE s == SubSeq(d, p + 1, p + Len(w))
<1>3. s \in Seq(Nat) /\ Len(s) = Len(w) /\ \A i \in 1..Len(w) : s[i] = d[p + i]
  BY <1>1
<1> HIDE DEF s
<1>4. \A i \in 1..Len(w) : s[i] = w[i]
  BY <1>3 DEF Lies
<1>5. s = w
  BY <1>3, <1>4, SameElements, Zenon
<1>6. QED
  BY <1>2, <1>5 DEF s

\* The name of a node ends where the token ends.
LEMMA NodeLies ==
  ASSUME NEW strings, NEW t, IsToken(strings, t), t.kind = "node",
         NEW d \in Seq(Nat), NEW p \in Nat, Lies(d, p, EncodeToken(t))
  PROVE  /\ NulsFrom(d, p + 1) # {}
         /\ NulIndex(d, p + 1) = p + Len(EncodeToken(t))
         /\ SubSeq(d, p + 2, NulIndex(d, p + 1)) = t.name
<1>1. PICK name \in Seq(Nat) : /\ name = t.name /\ Len(name) >= 1
                               /\ \A k \in 1..Len(name) : HasNul(name[k]) <=> k = Len(name)
  <2>1. t.name \in Seq(Nat) /\ t.name # << >>
        /\ \A k \in DOMAIN t.name : HasNul(t.name[k]) <=> k = Len(t.name)
    BY DEF IsToken
  <2>2. PICK name \in Seq(Nat) : name = t.name
    BY <2>1
  <2>3. DOMAIN name = 1..Len(name) /\ (name # << >> => Len(name) >= 1)
    OBVIOUS
  <2>4. Len(name) >= 1 /\ \A k \in 1..Len(name) : HasNul(name[k]) <=> k = Len(name)
    BY <2>1, <2>2, <2>3, Zenon
  <2>5. QED
    BY <2>2, <2>4
<1>2. PICK w \in Seq(Nat) : /\ w = EncodeToken(t) /\ Len(w) = 1 + Len(name)
                            /\ \A k \in 1..Len(name) : w[1 + k] = name[k]
  <2>1. EncodeToken(t) = <<BEGIN_NODE>> \o name
    BY <1>1 DEF EncodeToken
  <2>2. <<BEGIN_NODE>> \in Seq(Nat) /\ Len(<<BEGIN_NODE>>) = 1
    BY DEF BEGIN_NODE
  <2>3. PICK w \in Seq(Nat) : w = <<BEGIN_NODE>> \o name
    BY <2>2, Concats, Zenon
  <2>4. Len(w) = 1 + Len(name) /\ \A k \in 1..Len(name) : w[1 + k] = name[k]
    <3>1. PICK a \in Seq(Nat) : a = <<BEGIN_NODE>> /\ Len(a) = 1
      BY <2>2
    <3>2. Len(a \o name) = Len(a) + Len(name) /\ \A k \in 1..Len(name) : (a \o name)[Len(a) + k] = name[k]
      BY Concats, SMTT(60)
    <3>3. QED
      BY <2>3, <3>1, <3>2, Zenon
  <2>5. QED
    BY <2>1, <2>3, <2>4, Zenon
<1>3. Len(d) \in Nat /\ Len(name) \in Nat /\ p + 1 + Len(name) <= Len(d)
      /\ \A k \in 1..Len(name) : d[p + 1 + k] = name[k]
  <2>1. p + Len(w) <= Len(d) /\ \A i \in 1..Len(w) : d[p + i] = w[i]
    BY <1>2 DEF Lies
  <2>2. Len(d) \in Nat /\ Len(name) \in Nat /\ p + 1 + Len(name) <= Len(d)
    BY <1>2, <2>1, SMTT(60)
  <2>3. ASSUME NEW k \in 1..Len(name) PROVE d[p + 1 + k] = name[k]
    <3>1. 1 + k \in 1..Len(w) /\ p + (1 + k) = p + 1 + k
      BY <1>2, <2>2
    <3>2. QED
      BY <1>2, <2>1, <3>1
  <2>4. QED
    BY <2>2, <2>3
<1>4. p + 1 + Len(name) \in (p + 1) + 1 .. Len(d) /\ HasNul(d[p + 1 + Len(name)])
  <2>1. Len(name) \in 1..Len(name)
    BY <1>1
  <2>2. d[p + 1 + Len(name)] = name[Len(name)]
    BY <1>3, <2>1
  <2>3. HasNul(d[p + 1 + Len(name)])
    BY <1>1, <2>1, <2>2, Zenon
  <2>4. p + 1 + Len(name) \in (p + 1) + 1 .. Len(d)
    <3>1. Len(name) >= 1 /\ Len(name) \in Nat /\ Len(d) \in Nat /\ p + 1 + Len(name) <= Len(d)
      BY <1>1, <1>3, Zenon
    <3>2. QED
      BY <3>1
  <2>5. QED
    BY <2>3, <2>4
<1>5. NulsFrom(d, p + 1) # {}
  BY <1>4 DEF NulsFrom
<1>6. NulIndex(d, p + 1) = p + 1 + Len(name)
  <2>1. PICK m : m = NulIndex(d, p + 1)
    OBVIOUS
  <2>2. /\ m \in (p + 1) + 1 .. Len(d) /\ HasNul(d[m])
        /\ \A k \in (p + 1) + 1 .. Len(d) : HasNul(d[k]) => m <= k
    <3>1. p + 1 \in Nat
      OBVIOUS
    <3>2. QED
      BY <1>5, <2>1, <3>1, NulIndexInBlock
  <2>3. m <= p + 1 + Len(name)
    BY <1>4, <2>2
  <2>4. m - (p + 1) \in 1..Len(name) /\ p + 1 + (m - (p + 1)) = m
    BY <1>3, <2>2, <2>3
  <2>5. HasNul(name[m - (p + 1)])
    BY <1>3, <2>2, <2>4
  <2>6. m - (p + 1) = Len(name)
    BY <1>1, <2>4, <2>5
  <2>7. m = p + 1 + Len(name)
    BY <1>3, <2>4, <2>6
  <2>8. QED
    BY <2>1, <2>7
<1>7. SubSeq(d, p + 2, p + 1 + Len(name)) = name
  <2> DEFINE s == SubSeq(d, p + 2, p + 1 + Len(name))
  <2>1. s \in Seq(Nat) /\ Len(s) = Len(name) /\ \A i \in 1..Len(name) : s[i] = d[p + 1 + i]
    BY <1>3
  <2> HIDE DEF s
  <2>2. \A i \in 1..Len(name) : s[i] = name[i]
    BY <1>3, <2>1
  <2>3. s = name
    BY <2>1, <2>2, SameElements, Zenon
  <2>4. QED
    BY <2>3 DEF s
<1>8. p + 1 + Len(name) = p + Len(w)
  BY <1>2, <1>3
<1>9. QED
  BY <1>1, <1>2, <1>5, <1>6, <1>7, <1>8

\* The cells of a property tell its length and where its name is; then its value
\* comes, and ends where the token ends.
LEMMA PropLies ==
  ASSUME NEW strings, NEW t, IsToken(strings, t), t.kind = "prop",
         NEW d \in Seq(Nat), NEW p \in Nat, Lies(d, p, EncodeToken(t))
  PROVE  /\ p + 3 <= Len(d) /\ d[p + 2] = t.len /\ d[p + 3] = t.off
         /\ p + 3 + Words(t.len) = p + Len(EncodeToken(t))
         /\ Slice(d, p + 3, p + 3 + Words(t.len)) = t.val
<1>1. PICK len \in Nat, off \in Nat, val \in Seq(Nat) :
        len = t.len /\ off = t.off /\ val = t.val /\ Len(val) = Words(len)
  BY DEF IsToken
<1> DEFINE head == <<PROP, len, off>>
<1>2. head \in Seq(Nat) /\ Len(head) = 3 /\ head[2] = len /\ head[3] = off
  BY <1>1 DEF PROP
<1> HIDE DEF head
<1>3. PICK w \in Seq(Nat) : /\ w = EncodeToken(t) /\ Len(w) = 3 + Len(val)
                            /\ w[2] = len /\ w[3] = off
                            /\ \A k \in 1..Len(val) : w[3 + k] = val[k]
  <2>1. EncodeToken(t) = head \o val
    BY <1>1 DEF EncodeToken, head
  <2>2. PICK w \in Seq(Nat) : w = head \o val
    BY <1>2, Concats, Zenon
  <2>3. Len(w) = 3 + Len(val) /\ w[2] = head[2] /\ w[3] = head[3]
        /\ \A k \in 1..Len(val) : w[3 + k] = val[k]
    <3>1. /\ Len(head \o val) = Len(head) + Len(val)
          /\ \A i \in 1..Len(head) : (head \o val)[i] = head[i]
          /\ \A i \in 1..Len(val) : (head \o val)[Len(head) + i] = val[i]
      <4>1. head \in Seq(Nat)
        BY <1>2
      <4>2. QED
        BY <4>1, Concats, SMTT(60)
    <3>2. 2 \in 1..Len(head) /\ 3 \in 1..Len(head)
      BY <1>2
    <3>3. QED
      BY <1>2, <2>2, <3>1, <3>2, Zenon
  <2>4. QED
    BY <1>2, <2>1, <2>2, <2>3, Zenon
<1>4. p + Len(w) <= Len(d) /\ \A i \in 1..Len(w) : d[p + i] = w[i]
  BY <1>3 DEF Lies
<1>5. Len(val) \in Nat /\ Len(d) \in Nat /\ 2 \in 1..Len(w) /\ 3 \in 1..Len(w) /\ p + 3 <= Len(d)
  <2>1. Len(val) \in Nat /\ Len(d) \in Nat /\ Len(w) \in Nat
    OBVIOUS
  <2>2. Len(w) = 3 + Len(val) /\ p + Len(w) <= Len(d)
    BY <1>3, <1>4
  <2>3. QED
    BY <2>1, <2>2, SMTT(60)
<1>6. d[p + 2] = len /\ d[p + 3] = off
  BY <1>3, <1>4, <1>5
<1>7. Lies(d, p + 3, val)
  <2>1. p + 3 + Len(val) <= Len(d)
    BY <1>3, <1>4, <1>5
  <2>2. ASSUME NEW k \in 1..Len(val) PROVE d[p + 3 + k] = val[k]
    <3>1. 3 + k \in 1..Len(w) /\ p + (3 + k) = p + 3 + k
      BY <1>3, <1>5
    <3>2. QED
      BY <1>3, <1>4, <3>1
  <2>3. QED
    BY <2>1, <2>2 DEF Lies
<1>8. Slice(d, p + 3, p + 3 + Len(val)) = val
  <2>1. p + 3 \in Nat
    OBVIOUS
  <2>2. QED
    BY <1>7, <2>1, SliceLies
<1>9. p + 3 + Len(val) = p + Len(w)
  BY <1>3, <1>5
<1>10. QED
  BY <1>1, <1>3, <1>5, <1>6, <1>8, <1>9

-------------------------------------------------------------------------------
(* What patch-drmode.py makes of a tree                                        *)

\* The tokens of a tree, as the lemmas about tokens want them
Tokens(tree) == {tree[k] : k \in DOMAIN tree}

LEMMA TokensOf ==
  ASSUME NEW strings, NEW tree, HasTokens(strings, tree)
  PROVE  /\ tree \in Seq(Tokens(tree)) /\ Writable(Tokens(tree))
         /\ \A t \in Tokens(tree) : IsToken(strings, t)
         /\ \A k \in 0..Len(tree) :
              k < Len(tree) => /\ IsToken(strings, tree[k + 1])
                               /\ tree[k + 1].kind = "stop" => k + 1 = Len(tree)
<1>1. tree \in Seq(Tokens(tree)) /\ \A t \in Tokens(tree) : IsToken(strings, t)
  BY DEF HasTokens, Tokens
<1>2. Writable(Tokens(tree))
  BY <1>1, TokenCells, Zenon DEF Writable
<1>3. \A k \in 0..Len(tree) :
        k < Len(tree) => /\ IsToken(strings, tree[k + 1])
                         /\ tree[k + 1].kind = "stop" => k + 1 = Len(tree)
  BY <1>1, Fronts DEF HasTokens
<1>4. QED
  BY <1>1, <1>2, <1>3

Drmoded(tree) == [k \in DOMAIN tree |-> DrmodeToken(tree[k])]

\* A token that is edited is a token, of the same kind; its cells are those that
\* patch-drmode.py writes for it.
LEMMA DrmodeTokenCells ==
  ASSUME NEW strings, NEW t, IsToken(strings, t)
  PROVE  /\ IsToken(strings, DrmodeToken(t)) /\ DrmodeToken(t).kind = t.kind
         /\ t.kind # "prop" => DrmodeToken(t) = t
         /\ t.kind = "prop" =>
              IF t.name = dr_mode /\ t.len = 4 /\ t.val = otg
              THEN EncodeToken(DrmodeToken(t)) = <<PROP, 11, t.off>> \o peripheral
              ELSE DrmodeToken(t) = t
<1>1. CASE ~(t.kind = "prop" /\ t.name = dr_mode /\ t.len = 4 /\ t.val = otg)
  BY <1>1 DEF DrmodeToken
<1>2. CASE t.kind = "prop" /\ t.name = dr_mode /\ t.len = 4 /\ t.val = otg
  <2>1. /\ t \in [kind : {"prop"}, off : Nat, name : Seq(Nat), len : Nat, val : Seq(Nat)]
        /\ NulsFrom(strings, t.off) # {} /\ NameAt(strings, t.off) = t.name
    BY <1>2 DEF IsToken
  <2>2. peripheral \in Seq(Nat) /\ Len(peripheral) = 3 /\ Words(11) = 3
    BY DEF peripheral, Words
  <2>3. PICK u : u = [t EXCEPT !.len = 11, !.val = peripheral]
    OBVIOUS
  <2>4. DrmodeToken(t) = u
    BY <1>2, <2>3 DEF DrmodeToken
  <2>5. /\ u \in [kind : {"prop"}, off : Nat, name : Seq(Nat), len : Nat, val : Seq(Nat)]
        /\ u.kind = "prop" /\ u.off = t.off /\ u.name = t.name /\ u.len = 11 /\ u.val = peripheral
    BY <2>1, <2>2, <2>3
  <2>6. IsToken(strings, u)
    BY <2>1, <2>2, <2>5 DEF IsToken
  <2>7. EncodeToken(u) = <<PROP, 11, t.off>> \o peripheral
    BY <2>5 DEF EncodeToken
  <2>8. QED
    BY <1>2, <2>4, <2>5, <2>6, <2>7
<1>3. QED
  BY <1>1, <1>2

\* The edited tree has the same tokens but for the edits.
LEMMA DrmodedTokens ==
  ASSUME NEW strings, NEW tree, HasTokens(strings, tree)
  PROVE  /\ HasTokens(strings, Drmoded(tree)) /\ Len(Drmoded(tree)) = Len(tree)
         /\ \A k \in 0..Len(tree) :
              k < Len(tree) => Drmoded(tree)[k + 1] = DrmodeToken(tree[k + 1])
<1> DEFINE new == Drmoded(tree)
           n == Len(tree)
<1>1. n \in Nat /\ DOMAIN tree = 1..n
  <2>1. tree \in Seq(Tokens(tree))
    BY TokensOf
  <2>2. QED
    BY <2>1
<1>2. \A k \in 1..n : new[k] = DrmodeToken(tree[k])
  BY <1>1 DEF Drmoded
<1>3. DOMAIN new = 1..n /\ new \in [1..n -> Tokens(new)]
  BY <1>1 DEF Drmoded, Tokens
<1> HIDE DEF new
<1>4. new \in Seq(Tokens(new)) /\ Len(new) = n
  BY <1>1, <1>3, FunctionIsSeq, Zenon
<1>5. ASSUME NEW k \in DOMAIN new
      PROVE  IsToken(strings, new[k]) /\ (new[k].kind = "stop" => k = Len(new))
  <2>1. k \in DOMAIN tree /\ new[k] = DrmodeToken(tree[k])
    BY <1>1, <1>2, <1>3
  <2>2. IsToken(strings, tree[k]) /\ (tree[k].kind = "stop" => k = n)
    BY <2>1 DEF HasTokens
  <2>3. IsToken(strings, new[k]) /\ new[k].kind = tree[k].kind
    BY <2>1, <2>2, DrmodeTokenCells
  <2>4. QED
    BY <1>4, <2>2, <2>3
<1>6. HasTokens(strings, new)
  BY <1>4, <1>5 DEF HasTokens, Tokens
<1>7. ASSUME NEW k \in 0..n, k < n PROVE new[k + 1] = DrmodeToken(tree[k + 1])
  <2>1. k + 1 \in 1..n
    BY <1>1, <1>7
  <2>2. QED
    BY <1>2, <2>1
<1>8. QED
  BY <1>4, <1>6, <1>7 DEF new

\* With its blocks apart a file has the cells that its header tells of, and the
\* structure block has the size it gives.
LEMMA Described1 ==
  ASSUME NEW c \in Seq(Nat), MapBefore(c), BlocksApart(c)
  PROVE  /\ Len(c) \in Nat /\ Len(c) >= 10
         /\ c[OFF_STRUCT] \in Nat /\ c[OFF_STRINGS] \in Nat /\ c[OFF_RSVMAP] \in Nat
         /\ c[SIZE_STRUCT] \in Nat /\ c[SIZE_STRINGS] \in Nat
         /\ c[OFF_STRUCT] >= 14
         /\ c[OFF_STRUCT] + c[SIZE_STRUCT] <= Len(c)
         /\ c[OFF_STRINGS] + c[SIZE_STRINGS] <= Len(c)
         /\ Len(struct_blk(c)) = c[SIZE_STRUCT] /\ struct_blk(c) \in Seq(Nat)
         /\ Lies(c, c[OFF_STRUCT], struct_blk(c))
         /\ Len(strings_blk(c)) = c[SIZE_STRINGS] /\ strings_blk(c) \in Seq(Nat)
         /\ Lies(c, c[OFF_STRINGS], strings_blk(c))
<1>1. Len(c) \in Nat /\ Len(c) >= 10
  BY DEF MapBefore
<1>2. /\ c[OFF_STRUCT] \in Nat /\ c[OFF_STRINGS] \in Nat /\ c[OFF_RSVMAP] \in Nat
      /\ c[SIZE_STRUCT] \in Nat /\ c[SIZE_STRINGS] \in Nat /\ c[TOTALSIZE] \in Nat
  <2>1. \A k \in 1..Len(c) : c[k] \in Nat
    BY ElementsOf, Zenon
  <2>2. \A k \in {2, 3, 4, 5, 9, 10} : k \in 1..Len(c)
    BY <1>1
  <2>3. \A k \in {2, 3, 4, 5, 9, 10} : c[k] \in Nat
    BY <2>1, <2>2, Zenon
  <2>4. QED
    BY <2>3 DEF OFF_STRUCT, OFF_STRINGS, OFF_RSVMAP, SIZE_STRUCT, SIZE_STRINGS, TOTALSIZE
<1>3. c[OFF_STRUCT] >= 14
  <2>1. PICK k \in Nat : c[OFF_RSVMAP] + 4 * k + 4 <= c[OFF_STRUCT] /\ c[OFF_RSVMAP] >= 10
    BY <1>1 DEF MapBefore
  <2>2. QED
    BY <1>2, <2>1, SMTT(60)
<1>4. /\ c[OFF_STRUCT] + c[SIZE_STRUCT] <= Len(c)
      /\ c[OFF_STRINGS] + c[SIZE_STRINGS] <= Len(c)
  <2>1. PICK so \in Nat, ss \in Nat, st \in Nat, sz \in Nat, total \in Nat :
          /\ so = c[OFF_STRUCT] /\ ss = c[SIZE_STRUCT] /\ st = c[OFF_STRINGS]
          /\ sz = c[SIZE_STRINGS] /\ total = c[TOTALSIZE]
    BY <1>2
  <2>2. so + ss <= total /\ st + sz <= total /\ total <= Len(c)
    BY <2>1, Zenon DEF BlocksApart
  <2>3. so + ss <= Len(c) /\ st + sz <= Len(c)
    BY <1>1, <2>2
  <2>4. QED
    BY <2>1, <2>3, Zenon
<1>5. ASSUME NEW from \in Nat, NEW size \in Nat, from + size <= Len(c)
      PROVE  LET s == Slice(c, from, from + size)
             IN  Len(s) = size /\ s \in Seq(Nat) /\ Lies(c, from, s)
  <2>1. PICK to \in Nat : to = from + size /\ to <= Len(c)
    BY <1>5
  <2>2. Slice(c, from, to) = SubSeq(c, from + 1, to)
    <3>1. to < Len(c) \/ to = Len(c)
      BY <1>1, <2>1
    <3>2. QED
      BY <3>1 DEF Slice
  <2>3. PICK s : s = SubSeq(c, from + 1, to)
    OBVIOUS
  <2>4. Len(s) = size /\ s \in Seq(Nat) /\ \A i \in 1..Len(s) : c[from + i] = s[i]
    BY <1>1, <2>1, <2>3
  <2>5. Lies(c, from, s)
    BY <1>5, <2>4 DEF Lies
  <2>6. QED
    BY <2>1, <2>2, <2>3, <2>4, <2>5
<1>6. /\ Len(struct_blk(c)) = c[SIZE_STRUCT] /\ struct_blk(c) \in Seq(Nat)
      /\ Lies(c, c[OFF_STRUCT], struct_blk(c))
  BY <1>2, <1>4, <1>5, Zenon DEF struct_blk
<1>7. /\ Len(strings_blk(c)) = c[SIZE_STRINGS] /\ strings_blk(c) \in Seq(Nat)
      /\ Lies(c, c[OFF_STRINGS], strings_blk(c))
  BY <1>2, <1>4, <1>5, Zenon DEF strings_blk
<1>8. QED
  BY <1>1, <1>2, <1>3, <1>4, <1>6, <1>7

\* The cells of a file that has been put together again: what was before the
\* structure block, but for three cells of the header, the new block, and what was
\* from the strings on.
LEMMA NewDataLayout ==
  ASSUME NEW c \in Seq(Nat), MapBefore(c), BlocksApart(c), NEW block \in Seq(Nat)
  PROVE  LET new == NewData(c, block)
             so == c[OFF_STRUCT]
             st == c[OFF_STRINGS]
             n == Len(block)
         IN  /\ new \in Seq(Nat) /\ Len(new) = so + n + (Len(c) - st)
             /\ new[TOTALSIZE] = Len(new) /\ new[OFF_STRINGS] = so + n /\ new[SIZE_STRUCT] = n
             /\ \A i \in 1..so : i \notin {TOTALSIZE, OFF_STRINGS, SIZE_STRUCT} => new[i] = c[i]
             /\ \A i \in 1..n : new[so + i] = block[i]
             /\ \A i \in 1..Len(c) - st : new[so + n + i] = c[st + i]
<1>0. PICK so \in Nat, st \in Nat, n \in Nat, new \in {NewData(c, block)}, m \in {Moved(c, block)} :
        /\ so = c[OFF_STRUCT] /\ st = c[OFF_STRINGS] /\ n = Len(block)
        /\ new = NewData(c, block) /\ m = Moved(c, block)
  <2>1. c[OFF_STRUCT] \in Nat /\ c[OFF_STRINGS] \in Nat /\ Len(block) \in Nat
    BY Described1
  <2>2. QED
    BY <2>1
<1>1. Len(c) \in Nat /\ so >= 14 /\ so <= Len(c) /\ st <= Len(c)
  <2>1. PICK ss \in Nat, sz \in Nat : ss = c[SIZE_STRUCT] /\ sz = c[SIZE_STRINGS]
    BY Described1
  <2>2. Len(c) \in Nat /\ so >= 14 /\ so + ss <= Len(c) /\ st + sz <= Len(c)
    BY <1>0, <2>1, Described1
  <2>3. QED
    BY <2>2
<1>2. PICK a \in Seq(Nat) : /\ a = Slice(c, 0, so) /\ Len(a) = so
                            /\ \A i \in 1..so : a[i] = c[i]
  <2>1. Slice(c, 0, so) = SubSeq(c, 1, so)
    <3>1. so < Len(c) \/ so = Len(c)
      BY <1>1
    <3>2. QED
      BY <3>1 DEF Slice
  <2>2. SubSeq(c, 1, so) \in Seq(Nat) /\ Len(SubSeq(c, 1, so)) = so
        /\ \A i \in 1..so : SubSeq(c, 1, so)[i] = c[i]
    BY <1>1
  <2>3. QED
    BY <2>1, <2>2
<1>3. PICK b \in Seq(Nat) : /\ b = Slice(c, st, Len(c)) /\ Len(b) = Len(c) - st
                            /\ \A i \in 1..Len(c) - st : b[i] = c[st + i]
  <2>1. Slice(c, st, Len(c)) = SubSeq(c, st + 1, Len(c))
    BY DEF Slice
  <2>2. SubSeq(c, st + 1, Len(c)) \in Seq(Nat) /\ Len(SubSeq(c, st + 1, Len(c))) = Len(c) - st
        /\ \A i \in 1..Len(c) - st : SubSeq(c, st + 1, Len(c))[i] = c[st + i]
    BY <1>1
  <2>3. QED
    BY <2>1, <2>2
<1>4. /\ m \in Seq(Nat) /\ Len(m) = so + n + (Len(c) - st)
      /\ \A i \in 1..so : m[i] = c[i]
      /\ \A i \in 1..n : m[so + i] = block[i]
      /\ \A i \in 1..Len(c) - st : m[so + n + i] = c[st + i]
  <2>1. m = (a \o block) \o b
    BY <1>0, <1>2, <1>3 DEF Moved
  <2>2. PICK ab \in Seq(Nat) : /\ ab = a \o block /\ Len(ab) = so + n
                               /\ \A i \in 1..so : ab[i] = c[i]
                               /\ \A i \in 1..n : ab[so + i] = block[i]
    <3>1. /\ a \o block \in Seq(Nat) /\ Len(a \o block) = Len(a) + Len(block)
          /\ \A i \in 1..Len(a) : (a \o block)[i] = a[i]
          /\ \A i \in 1..Len(block) : (a \o block)[Len(a) + i] = block[i]
      BY Concats, SMTT(60)
    <3>2. Len(a) = so /\ Len(block) = n
      BY <1>0, <1>2
    <3>3. /\ Len(a \o block) = so + n
          /\ \A i \in 1..so : (a \o block)[i] = a[i]
          /\ \A i \in 1..n : (a \o block)[so + i] = block[i]
      BY <3>1, <3>2, Zenon
    <3>4. \A i \in 1..so : (a \o block)[i] = c[i]
      BY <1>2, <3>3
    <3>5. QED
      BY <3>1, <3>3, <3>4, Zenon
  <2>3. /\ ab \o b \in Seq(Nat) /\ Len(ab \o b) = Len(ab) + Len(b)
        /\ \A i \in 1..Len(ab) : (ab \o b)[i] = ab[i]
        /\ \A i \in 1..Len(b) : (ab \o b)[Len(ab) + i] = b[i]
    BY Concats, SMTT(60)
  <2>4. m = ab \o b
    BY <2>1, <2>2
  <2>5. \A i \in 1..so : i \in 1..Len(ab)
    BY <1>1, <2>2
  <2>6. \A i \in 1..n : so + i \in 1..Len(ab)
    BY <1>1, <2>2
  <2>7. m \in Seq(Nat) /\ Len(m) = so + n + (Len(c) - st)
    BY <1>3, <2>2, <2>3, <2>4
  <2>8. \A i \in 1..so : m[i] = c[i]
    BY <2>2, <2>3, <2>4, <2>5
  <2>9. \A i \in 1..n : m[so + i] = block[i]
    BY <2>2, <2>3, <2>4, <2>6
  <2>10. \A i \in 1..Len(c) - st : m[so + n + i] = c[st + i]
    BY <1>3, <2>2, <2>3, <2>4, ZenonT(60)
  <2>11. QED
    BY <2>7, <2>8, <2>9, <2>10
<1>5. Len(m) \in Nat /\ so + n \in Nat /\ Len(m) >= 14
  <2>1. Len(m) = so + n + (Len(c) - st)
    BY <1>4, Zenon
  <2>2. QED
    BY <1>1, <2>1, SMTT(60)
<1>19. PICK v \in Nat : v = so + n
  BY <1>5
<1> DEFINE one == [m EXCEPT ![TOTALSIZE] = Len(m)]
           two == [one EXCEPT ![OFF_STRINGS] = v]
<1>6. new = [two EXCEPT ![SIZE_STRUCT] = n]
  <2>1. m = Moved(c, block) /\ n = Len(block) /\ v = c[OFF_STRUCT] + Len(block)
    BY <1>0, <1>19, Zenon
  <2>2. NewData(c, block) = [[[Moved(c, block) EXCEPT ![TOTALSIZE] = Len(Moved(c, block))]
                                EXCEPT ![OFF_STRINGS] = c[OFF_STRUCT] + Len(block)]
                                EXCEPT ![SIZE_STRUCT] = Len(block)]
    BY SMTT(60) DEF NewData
  <2>3. QED
    BY <1>0, <2>1, <2>2, Zenon
<1>7. /\ one \in Seq(Nat) /\ Len(one) = Len(m)
      /\ \A i \in 1..Len(m) : one[i] = IF i = TOTALSIZE THEN Len(m) ELSE m[i]
  BY <1>4, <1>5, SeqExcept, SMTT(60)
<1> HIDE DEF one
<1>8. /\ two \in Seq(Nat) /\ Len(two) = Len(one)
      /\ \A i \in 1..Len(one) : two[i] = IF i = OFF_STRINGS THEN v ELSE one[i]
  BY <1>7, SeqExcept
<1> HIDE DEF two
<1>9. /\ new \in Seq(Nat) /\ Len(new) = Len(two)
      /\ \A i \in 1..Len(two) : new[i] = IF i = SIZE_STRUCT THEN n ELSE two[i]
  BY <1>1, <1>6, <1>8, SeqExcept, SMTT(60)
<1>10. /\ new \in Seq(Nat) /\ Len(new) = Len(m)
       /\ \A i \in 1..Len(m) : new[i] = IF i = SIZE_STRUCT THEN n
                                        ELSE IF i = OFF_STRINGS THEN so + n
                                        ELSE IF i = TOTALSIZE THEN Len(m) ELSE m[i]
  BY <1>7, <1>8, <1>9, <1>19
<1>11. TOTALSIZE = 2 /\ OFF_STRINGS = 4 /\ SIZE_STRUCT = 10
  BY DEF TOTALSIZE, OFF_STRINGS, SIZE_STRUCT
<1>12. new[TOTALSIZE] = Len(new) /\ new[OFF_STRINGS] = so + n /\ new[SIZE_STRUCT] = n
  <2>1. 2 \in 1..Len(m) /\ 4 \in 1..Len(m) /\ 10 \in 1..Len(m)
    BY <1>5
  <2>2. QED
    BY <1>10, <1>11, <2>1, SMTT(60)
<1>13. \A i \in 1..so : i \in 1..Len(m)
  BY <1>1, <1>4
<1>14. \A i \in 1..n : so + i \in 1..Len(m) /\ so + i \notin {2, 4, 10}
  BY <1>1, <1>4
<1>15. \A i \in 1..Len(c) - st : so + n + i \in 1..Len(m) /\ so + n + i \notin {2, 4, 10}
  BY <1>1, <1>4, SMTT(60)
<1>16. \A i \in 1..so : i \notin {TOTALSIZE, OFF_STRINGS, SIZE_STRUCT} => new[i] = c[i]
  BY <1>4, <1>10, <1>13
<1>17. \A i \in 1..n : new[so + i] = block[i]
  BY <1>4, <1>10, <1>11, <1>14
<1>18. \A i \in 1..Len(c) - st : new[so + n + i] = c[st + i]
  BY <1>4, <1>10, <1>11, <1>15
<1>20. QED
  BY <1>0, <1>4, <1>10, <1>12, <1>16, <1>17, <1>18, Zenon

\* The map of reserved memory ends before the structure block of a file that has the
\* cells of another up to there.
LEMMA MapMoves ==
  ASSUME NEW c \in Seq(Nat), MapBefore(c), NEW new \in Seq(Nat),
         c[OFF_RSVMAP] \in Nat, c[OFF_STRUCT] \in Nat, c[OFF_STRUCT] <= Len(new),
         new[OFF_STRUCT] = c[OFF_STRUCT], new[OFF_RSVMAP] = c[OFF_RSVMAP],
         \A i \in 11..c[OFF_STRUCT] : new[i] = c[i]
  PROVE  MapBefore(new)
<1>1. PICK so \in Nat, rsv \in Nat : so = c[OFF_STRUCT] /\ rsv = c[OFF_RSVMAP]
  OBVIOUS
<1>2. PICK k \in 0..Len(c) : rsv + 4 * k + 4 <= so /\ \A z \in 1..4 : c[rsv + 4 * k + z] = 0
  BY <1>1, Zenon DEF MapBefore
<1>3. rsv >= 10 /\ k \in Nat /\ Len(new) \in Nat /\ so <= Len(new)
  BY <1>1 DEF MapBefore
<1>4. k \in 0..Len(new) /\ Len(new) >= 10 /\ \A z \in 1..4 : rsv + 4 * k + z \in 11..so
  <2>1. PICK k4 \in Nat : k4 = 4 * k /\ k <= k4
    BY <1>3
  <2>2. rsv + k4 + 4 <= so
    BY <1>2, <2>1
  <2>3. k \in 0..Len(new) /\ Len(new) >= 10 /\ \A z \in 1..4 : rsv + k4 + z \in 11..so
    BY <1>3, <2>1, <2>2, SMTT(60)
  <2>4. QED
    BY <2>1, <2>3, Zenon
<1>5. ASSUME NEW z \in 1..4 PROVE new[rsv + 4 * k + z] = 0
  <2>1. rsv + 4 * k + z \in 11..so
    BY <1>4
  <2>2. QED
    BY <1>1, <1>2, <2>1
<1>6. QED
  BY <1>1, <1>2, <1>3, <1>4, <1>5, Zenon DEF MapBefore

\* What patch-drmode.py puts together is the tree with its edits.
LEMMA NewDataTree ==
  ASSUME NEW f, IsTree(f)
  PROVE  IsTree([cells |-> NewData(f.cells, Encode(Drmoded(f.tree))), tree |-> Drmoded(f.tree)])
<1>1. PICK c \in Seq(Nat) : c = f.cells
  BY DEF IsTree
<1>2. MapBefore(c) /\ BlocksApart(c) /\ HasTokens(strings_blk(c), f.tree)
  BY <1>1 DEF IsTree
<1>3. HasTokens(strings_blk(c), Drmoded(f.tree))
  BY <1>2, DrmodedTokens
<1>4. PICK block \in Seq(Nat) : block = Encode(Drmoded(f.tree))
  <2>1. Drmoded(f.tree) \in Seq(Tokens(Drmoded(f.tree))) /\ Writable(Tokens(Drmoded(f.tree)))
    BY <1>3, TokensOf
  <2>2. 0 \in 0..Len(Drmoded(f.tree))
    BY <2>1, Fronts
  <2>3. Encode(Drmoded(f.tree)) \in Seq(Nat)
    BY <2>1, <2>2, Laid
  <2>4. QED
    BY <2>3
<1>5. PICK new : new = NewData(c, block)
  OBVIOUS
<1>6. PICK so \in Nat, st \in Nat, sz \in Nat, n \in Nat :
        /\ so = c[OFF_STRUCT] /\ st = c[OFF_STRINGS] /\ sz = c[SIZE_STRINGS] /\ n = Len(block)
  <2>1. c[OFF_STRUCT] \in Nat /\ c[OFF_STRINGS] \in Nat /\ c[SIZE_STRINGS] \in Nat
    BY <1>2, Described1, Zenon
  <2>2. Len(block) \in Nat
    OBVIOUS
  <2>3. QED
    BY <2>1, <2>2
<1>7. Len(c) \in Nat /\ so >= 14 /\ st + sz <= Len(c) /\ Len(strings_blk(c)) = sz
      /\ strings_blk(c) \in Seq(Nat) /\ Lies(c, st, strings_blk(c)) /\ c[OFF_RSVMAP] \in Nat
  BY <1>2, <1>6, Described1
<1>8. /\ new \in Seq(Nat) /\ Len(new) = so + n + (Len(c) - st)
      /\ new[TOTALSIZE] = Len(new) /\ new[OFF_STRINGS] = so + n /\ new[SIZE_STRUCT] = n
      /\ \A i \in 1..so : i \notin {TOTALSIZE, OFF_STRINGS, SIZE_STRUCT} => new[i] = c[i]
      /\ \A i \in 1..n : new[so + i] = block[i]
      /\ \A i \in 1..Len(c) - st : new[so + n + i] = c[st + i]
  BY <1>2, <1>5, <1>6, NewDataLayout, ZenonT(60)
<1>9. new[OFF_STRUCT] = so /\ new[OFF_RSVMAP] = c[OFF_RSVMAP] /\ new[SIZE_STRINGS] = sz
  <2>1. \A i \in {3, 5, 9} : i \in 1..so /\ i \notin {2, 4, 10}
    BY <1>7
  <2>2. \A i \in {3, 5, 9} : new[i] = c[i]
    BY <1>8, <2>1 DEF TOTALSIZE, OFF_STRINGS, SIZE_STRUCT
  <2>3. QED
    BY <1>6, <2>2 DEF OFF_STRUCT, OFF_RSVMAP, SIZE_STRINGS
<1>10. Len(new) \in Nat /\ so <= Len(new) /\ so + n <= Len(new) /\ so + n + sz <= Len(new)
  <2>1. Len(new) = so + n + (Len(c) - st) /\ Len(c) \in Nat /\ st + sz <= Len(c)
    BY <1>7, <1>8, Zenon
  <2>2. Len(new) \in Nat
    BY <1>8
  <2>3. QED
    BY <2>1, <2>2
<1>11. MapBefore(new)
  <2>1. \A i \in 11..so : i \in 1..so /\ i \notin {TOTALSIZE, OFF_STRINGS, SIZE_STRUCT}
    BY DEF TOTALSIZE, OFF_STRINGS, SIZE_STRUCT
  <2>2. \A i \in 11..so : new[i] = c[i]
    BY <1>8, <2>1
  <2>3. QED
    BY <1>2, <1>6, <1>7, <1>8, <1>9, <1>10, <2>2, MapMoves
<1>12. BlocksApart(new)
  <2>1. \A x, y, z, w \in Nat : x + y <= w /\ x + y + z <= w => (x + y) + z <= w
    OBVIOUS
  <2>2. QED
    BY <1>8, <1>9, <1>10, <2>1 DEF BlocksApart
<1>13. struct_blk(new) = block
  <2>1. Lies(new, so, block)
    BY <1>6, <1>8, <1>10 DEF Lies
  <2>2. Slice(new, so, so + Len(block)) = block
    BY <1>8, <2>1, SliceLies
  <2>3. QED
    BY <1>6, <1>8, <1>9, <2>2 DEF struct_blk
<1>14. strings_blk(new) = strings_blk(c)
  <2>1. PICK s \in Seq(Nat) : s = strings_blk(c) /\ Len(s) = sz
    BY <1>7
  <2>2. \A i \in 1..sz : s[i] = c[st + i]
    BY <1>7, <2>1 DEF Lies
  <2>3. \A i \in 1..sz : i \in 1..Len(c) - st
    BY <1>7
  <2>4. Lies(new, so + n, s)
    BY <1>8, <1>10, <2>1, <2>2, <2>3 DEF Lies
  <2>5. so + n \in Nat
    OBVIOUS
  <2>6. Slice(new, so + n, (so + n) + Len(s)) = s
    BY <1>8, <2>4, <2>5, SliceLies, Zenon
  <2>7. QED
    BY <1>8, <1>9, <2>1, <2>6 DEF strings_blk
<1>15. PICK g : g = [cells |-> new, tree |-> Drmoded(f.tree)]
  OBVIOUS
<1>16. g.cells = new /\ g.tree = Drmoded(f.tree)
  BY <1>15
<1>17. IsTree(g)
  BY <1>3, <1>4, <1>8, <1>11, <1>12, <1>13, <1>14, <1>16 DEF IsTree
<1>18. QED
  BY <1>1, <1>4, <1>5, <1>15, <1>17

-------------------------------------------------------------------------------
(* The walks over a tree                                                       *)

\* The file that is being worked on, as it is in the directory
Walked == dir[file.name]
Walks == {"drmode_open", "drmode", "drmode_write", "extcon_open", "extcon", "extcon_write",
          "dump_open", "dump"}

\* What is said to be a tree is one, in the directory and in the dumps; a script
\* works on what is in the directory; and there is a dump where one is scanned.
TreesInv ==
    /\ \A f \in Trees : IsTree(dir[f])
    /\ \A k \in DOMAIN Targets : part[Targets[k]] # None =>
         \A off \in DOMAIN part[Targets[k]].magic :
            LET f == part[Targets[k]].magic[off].file
            IN  f.tree # None => IsTree(f)
    /\ pc \in Walks => file.name \in DOMAIN dir /\ file.data = Walked.cells
    /\ pc \in {"scan", "write"} => Dump # None

\* patch-drmode.py stands before a token, and has written those before it, edited.
DrmodeAt(tree) ==
    \E k \in 0..Len(tree) : pos = Place(tree, k) /\ out = Encode(Front(Drmoded(tree), k))
DrmodeWalk ==
    Walked.tree # None =>
        /\ pc = "drmode" => DrmodeAt(Walked.tree)
        /\ pc = "drmode_write" => out = Encode(Drmoded(Walked.tree))

\* What is known of the tree that a script works on
LEMMA WalkedTree ==
  ASSUME TreesInv, pc \in Walks, Walked.tree # None
  PROVE  /\ IsTree(Walked)
         /\ file.data \in Seq(Nat) /\ MapBefore(file.data) /\ BlocksApart(file.data)
         /\ HasTokens(strings_blk(file.data), Walked.tree)
         /\ struct_blk(file.data) = Encode(Walked.tree)
         /\ strings_blk(file.data) \in Seq(Nat)
<1>1. file.name \in Trees /\ file.data = Walked.cells
  BY DEF TreesInv, Trees, Walked
<1>2. IsTree(Walked)
  BY <1>1 DEF TreesInv, Walked
<1>3. /\ file.data \in Seq(Nat) /\ MapBefore(file.data) /\ BlocksApart(file.data)
      /\ HasTokens(strings_blk(file.data), Walked.tree)
      /\ struct_blk(file.data) = Encode(Walked.tree)
  BY <1>1, <1>2, Zenon DEF IsTree
<1>4. QED
  BY <1>2, <1>3, Described1

\* The codes of the tokens are apart.
LEMMA CodesApart ==
  /\ BEGIN_NODE = 1 /\ END_NODE = 2 /\ PROP = 3 /\ NOP = 4 /\ END = 9
BY DEF BEGIN_NODE, END_NODE, PROP, NOP, END

\* While it copies a tree, patch-drmode.py goes from token to token, and it writes
\* the tree when it has come to its end.
LEMMA DrmodeWalks ==
  ASSUME TypeInv, TreesInv, DrmodeWalk, pc = "drmode", DrmodeStep
  PROVE  DrmodeWalk'
<1>1. /\ UNCHANGED <<dir, file>> /\ DrmodeUnchanged /\ pc' \in {"drmode", "drmode_write", "idle"}
      /\ \/ DrmodeBeginNode \/ DrmodeCopyToken \/ DrmodeProp
         \/ DrmodeUnknownToken \/ DrmodeEnd
  BY DEF DrmodeStep, OpenDrmode, DrmodeWrite, DrmodeBeginNode, DrmodeCopyToken, DrmodeProp,
         DrmodeUnknownToken, DrmodeEnd, DrmodeUnchanged, Exit
<1>2. Walked' = Walked
  BY <1>1 DEF Walked
<1>3. CASE Walked.tree = None
  BY <1>2, <1>3 DEF DrmodeWalk
<1>4. CASE Walked.tree # None
  <2>8. PICK T : T = Walked.tree
    OBVIOUS
  <2>9. PICK D : D = Drmoded(T)
    OBVIOUS
  <2>1. PICK strings \in Seq(Nat), blk \in Seq(Nat) :
          /\ T = Walked.tree /\ strings = Strings /\ blk = Block /\ D = Drmoded(T)
          /\ HasTokens(strings, T) /\ blk = Encode(T) /\ strings \in Seq(Nat)
    <3>1. pc \in Walks
      BY DEF Walks
    <3>2. /\ HasTokens(Strings, Walked.tree) /\ Block = Encode(Walked.tree)
          /\ Strings \in Seq(Nat) /\ Block \in Seq(Nat)
      BY <1>4, <3>1, WalkedTree, Described1 DEF Strings, Block
    <3>3. QED
      BY <2>8, <2>9, <3>2
  <2>2. /\ T \in Seq(Tokens(T)) /\ Writable(Tokens(T)) /\ Len(T) \in Nat
        /\ D \in Seq(Tokens(D)) /\ Writable(Tokens(D)) /\ Len(D) = Len(T)
        /\ \A k \in 0..Len(T) : k < Len(T) => D[k + 1] = DrmodeToken(T[k + 1])
    <3>1. HasTokens(strings, D) /\ Len(D) = Len(T)
          /\ \A k \in 0..Len(T) : k < Len(T) => D[k + 1] = DrmodeToken(T[k + 1])
      BY <2>1, DrmodedTokens, Zenon
    <3>2. T \in Seq(Tokens(T)) /\ Writable(Tokens(T)) /\ D \in Seq(Tokens(D)) /\ Writable(Tokens(D))
      BY <2>1, <3>1, TokensOf, Zenon
    <3>3. Len(T) \in Nat
      BY <3>2, Fronts, Zenon
    <3>4. QED
      BY <3>1, <3>2, <3>3, Zenon
  <2>3. PICK k \in 0..Len(T) : pos = Place(T, k) /\ out = Encode(Front(D, k))
    BY <1>4, <2>1 DEF DrmodeWalk, DrmodeAt
  <2>4. pos \in Nat /\ Len(blk) \in Nat /\ out \in Seq(Nat)
    <3>1. pos \in Nat
      BY <2>2, <2>3, EncodeFront, Zenon
    <3>2. out \in Seq(Nat)
      BY <2>2, <2>3, EncodeFront, Zenon
    <3>3. QED
      BY <3>1, <3>2
  <2>5. CASE k = Len(T)
    <3>1. pos = Len(blk)
      BY <2>1, <2>2, <2>3, <2>5, Laid, Zenon
    <3>2. ~(pos < Len(blk))
      BY <2>4, <3>1
    <3>3. DrmodeEnd /\ UNCHANGED out
      BY <1>1, <2>1, <3>2
         DEF DrmodeBeginNode, DrmodeCopyToken, DrmodeProp, DrmodeUnknownToken, DrmodeEnd, Walking
    <3>4. out = Encode(D)
      BY <2>2, <2>3, <2>5, Fronts
    <3>5. QED
      BY <1>2, <2>1, <3>3, <3>4 DEF DrmodeEnd, DrmodeWalk
  <2>6. CASE k < Len(T)
    <3>15. PICK t : t = T[k + 1]
      OBVIOUS
    <3>1. PICK w \in Seq(Nat) : t = T[k + 1] /\ w = EncodeToken(t) /\ IsToken(strings, t)
      <4>1. EncodeToken(T[k + 1]) \in Seq(Nat)
        BY <2>2, <2>6, EncodeFront, Zenon
      <4>2. IsToken(strings, T[k + 1])
        BY <2>1, <2>6, TokensOf, Zenon
      <4>3. QED
        BY <3>15, <4>1, <4>2
    <3>2. /\ pos < Len(blk) /\ Lies(blk, pos, w) /\ Len(w) \in Nat /\ Len(w) >= 1
          /\ t.kind = "stop" => k + 1 = Len(T)
      <4>1. pos < Len(blk) /\ Lies(blk, pos, w)
        BY <2>1, <2>2, <2>3, <2>6, <3>1, Laid, Zenon
      <4>2. Len(w) \in Nat /\ Len(w) >= 1
        BY <2>2, <2>6, <3>1, EncodeFront, Zenon
      <4>3. t.kind = "stop" => k + 1 = Len(T)
        BY <2>1, <2>6, <3>1, TokensOf, Zenon
      <4>4. QED
        BY <4>1, <4>2, <4>3
    <3>3. blk[pos + 1] = w[1]
      <4>1. 1 \in 1..Len(w)
        BY <3>2
      <4>2. QED
        BY <3>2, <4>1, Zenon DEF Lies
    <3>4. ASSUME pos' = pos + Len(w), out' = out \o EncodeToken(DrmodeToken(t))
          PROVE  k + 1 \in 0..Len(T) /\ pos' = Place(T, k + 1) /\ out' = Encode(Front(D, k + 1))
      <4>1. k + 1 \in 0..Len(T)
        BY <2>2, <2>6
      <4>2. Place(T, k + 1) = Place(T, k) + Len(w)
        BY <2>2, <2>6, <3>1, EncodeFront, Zenon
      <4>3. Encode(Front(D, k + 1)) = Encode(Front(D, k)) \o EncodeToken(D[k + 1])
        BY <2>2, <2>6, EncodeFront, Zenon
      <4>4. D[k + 1] = DrmodeToken(t)
        BY <2>2, <2>6, <3>1, Zenon
      <4>5. QED
        BY <2>3, <3>4, <4>1, <4>2, <4>3, <4>4, Zenon
    <3>5. ASSUME pc' \in {"drmode", "idle"}, pos' = pos + Len(w), out' = out \o EncodeToken(DrmodeToken(t))
          PROVE  DrmodeWalk'
      BY <1>2, <2>1, <3>4, <3>5 DEF DrmodeWalk, DrmodeAt
    <3>6. Slice(blk, pos, pos + Len(w)) = w
      BY <2>4, <3>2, SliceLies, Zenon
    <3>7. /\ t.kind \in {"node", "end", "prop", "nop", "stop"}
          /\ t.kind = "node" => w[1] = 1
          /\ t.kind = "end"  => w[1] = 2
          /\ t.kind = "prop" => w[1] = 3
          /\ t.kind = "nop"  => w[1] = 4
          /\ t.kind = "stop" => w[1] = 9
          /\ t.kind \in {"end", "nop", "stop"} => Len(w) = 1
      BY <3>1, FirstCell, CodesApart
    <3>8. t.kind # "prop" => EncodeToken(DrmodeToken(t)) = w
      BY <3>1, DrmodeTokenCells, Zenon
    <3>9. CASE DrmodeBeginNode
      <4>1. t.kind = "node"
        BY <2>1, <3>3, <3>7, <3>9, CodesApart, SMTT(60) DEF DrmodeBeginNode, Walking
      <4>2. NulsFrom(blk, pos + 1) # {} /\ NulIndex(blk, pos + 1) = pos + Len(w)
        BY <2>4, <3>1, <3>2, <4>1, NodeLies, ZenonT(60)
      <4>3. pos' = pos + Len(w) /\ out' = out \o w /\ pc' = "drmode"
        BY <2>1, <3>6, <3>9, <4>2, Zenon DEF DrmodeBeginNode, Copy
      <4>4. QED
        BY <3>5, <3>8, <4>1, <4>3
    <3>10. CASE DrmodeCopyToken
      <4>1. t.kind \in {"end", "nop"}
        BY <2>1, <3>3, <3>7, <3>10, CodesApart DEF DrmodeCopyToken, Walking
      <4>2. Len(w) = 1
        BY <3>7, <4>1
      <4>3. pos' = pos + Len(w) /\ out' = out \o w /\ pc' = "drmode"
        BY <2>1, <3>6, <3>10, <4>2 DEF DrmodeCopyToken, Copy
      <4>4. QED
        BY <3>5, <3>8, <4>1, <4>3
    <3>11. CASE DrmodeProp
      <4>1. t.kind = "prop"
        BY <2>1, <3>3, <3>7, <3>11, CodesApart, SMTT(60) DEF DrmodeProp, Walking
      <4>2. /\ pos + 3 <= Len(blk) /\ blk[pos + 2] = t.len /\ blk[pos + 3] = t.off
            /\ pos + 3 + Words(t.len) = pos + Len(w)
            /\ Slice(blk, pos + 3, pos + 3 + Words(t.len)) = t.val
        <5>1. Lies(blk, pos, EncodeToken(t))
          BY <3>1, <3>2
        <5>2. QED
          BY <2>4, <3>1, <4>1, <5>1, PropLies, ZenonT(60)
      <4>3. NulsFrom(strings, t.off) # {} /\ NameAt(strings, t.off) = t.name
        BY <3>1, <4>1 DEF IsToken
      <4>4. ValueEnd = pos + Len(w) /\ ~PropCut
        <5>1. ValueEnd = pos + Len(w)
          BY <2>1, <4>2, Zenon DEF ValueEnd
        <5>2. ~PropCut
          BY <2>1, <2>4, <4>2 DEF PropCut
        <5>3. QED
          BY <5>1, <5>2
      <4>5. IsOtg <=> (t.name = dr_mode /\ t.len = 4 /\ t.val = otg)
        BY <2>1, <4>2, <4>3, Zenon DEF IsOtg, ValueEnd
      <4>6. /\ pos' = pos + Len(w) /\ pc' = "drmode"
            /\ IF IsOtg THEN out' = out \o NewProp ELSE out' = out \o w
        BY <2>1, <3>6, <3>11, <4>2, <4>3, <4>4 DEF DrmodeProp
      <4>7. NewProp = <<PROP, 11, t.off>> \o peripheral
        BY <2>1, <4>2 DEF NewProp
      <4>8. EncodeToken(DrmodeToken(t)) = IF IsOtg THEN NewProp ELSE w
        BY <3>1, <4>1, <4>5, <4>7, DrmodeTokenCells
      <4>9. QED
        BY <3>5, <4>6, <4>8
    <3>12. CASE DrmodeUnknownToken
      <4>1. FALSE
        BY <2>1, <3>3, <3>7, <3>12, CodesApart DEF DrmodeUnknownToken
      <4>2. QED
        BY <4>1
    <3>13. CASE DrmodeEnd
      <4>1. blk[pos + 1] = END /\ pos' = pos + 1 /\ out' = out \o Slice(blk, pos, pos + 1)
            /\ pc' = "drmode_write"
        BY <2>1, <2>4, <3>2, <3>13, SMTT(60) DEF DrmodeEnd, Walking, Copy
      <4>2. t.kind = "stop"
        BY <3>3, <3>7, <4>1, CodesApart
      <4>3. Len(w) = 1 /\ k + 1 = Len(T)
        BY <3>2, <3>7, <4>2
      <4>4. out' = out \o w /\ pos' = pos + Len(w)
        BY <3>6, <4>1, <4>3
      <4>5. out' = Encode(Front(D, k + 1))
        BY <3>4, <3>8, <4>2, <4>4
      <4>6. out' = Encode(D)
        BY <2>2, <4>3, <4>5, Fronts
      <4>7. QED
        BY <1>2, <2>1, <4>1, <4>6 DEF DrmodeWalk
    <3>14. QED
      BY <1>1, <3>9, <3>10, <3>11, <3>12, <3>13
  <2>7. QED
    BY <2>2, <2>5, <2>6
<1>5. QED
  BY <1>3, <1>4

-------------------------------------------------------------------------------
(* What patch-extcon.py makes of a tree                                        *)

Nop == [kind |-> "nop"]
Blank(n) == [k \in 1..n |-> Nop]
\* The tokens that take the place of one, and all of them
Piece(t, prop) == IF t.kind = "prop" /\ t.name = prop THEN Blank(3 + Words(t.len)) ELSE <<t>>
Blanked(tree, prop) == JoinOf([k \in 1..Len(tree) |-> Piece(tree[k], prop)], Len(tree))

\* The tree that is meant is put together from these.
LEMMA ExtconTreeBlanked ==
  ASSUME NEW S, NEW tree \in Seq(S), tree # None, NEW prop
  PROVE  ExtconTree(tree, prop) = Blanked(tree, prop)
<1> DEFINE n == Len(tree)
           g == [k \in 1..n |-> Piece(tree[k], prop)]
           Nops(t) == [k \in 1..3 + Words(t.len) |-> [kind |-> "nop"]]
           body(f) == [k \in 0..n |-> IF k = 0 THEN << >>
                        ELSE f[k - 1] \o (IF tree[k].kind = "prop" /\ tree[k].name = prop
                                          THEN Nops(tree[k]) ELSE <<tree[k]>>)]
<1>1. ExtconTree(tree, prop) = (CHOOSE f : f = body(f))[n]
  BY DEF ExtconTree
<1>2. n \in Nat
  OBVIOUS
<1>3. ASSUME NEW f PROVE body(f) = Joined(g, n, f)
  <2>1. ASSUME NEW k \in 0..n, k # 0
        PROVE  g[k] = IF tree[k].kind = "prop" /\ tree[k].name = prop
                      THEN Nops(tree[k]) ELSE <<tree[k]>>
    <3>1. k \in 1..n
      BY <1>2, <2>1
    <3>2. g[k] = Piece(tree[k], prop)
      BY <3>1
    <3>3. QED
      BY <3>2 DEF Piece, Blank, Nop
  <2> HIDE DEF g, Nops
  <2>2. ASSUME NEW k \in 0..n PROVE body(f)[k] = Joined(g, n, f)[k]
    BY <2>1 DEF Joined
  <2>3. QED
    BY <2>2 DEF Joined
<1> HIDE DEF body, g, n
<1>4. (CHOOSE f : f = body(f)) = (CHOOSE f : f = Joined(g, n, f))
  BY <1>3
<1>5. QED
  BY <1>1, <1>4 DEF Blanked, JoinOf, g, n

\* One more token
LEMMA BlankedNext ==
  ASSUME NEW S, NEW tree \in Seq(S), NEW prop
  PROVE  /\ Blanked(Front(tree, 0), prop) = << >>
         /\ \A k \in 0..Len(tree) : k < Len(tree) =>
              Blanked(Front(tree, k + 1), prop) =
                Blanked(Front(tree, k), prop) \o Piece(tree[k + 1], prop)
<1>1. Blanked(Front(tree, 0), prop) = << >>
  <2>1. Front(tree, 0) = << >> /\ Len(<< >>) = 0
    BY Fronts
  <2>2. QED
    BY <2>1, JoinOfNone, Zenon DEF Blanked
<1>2. ASSUME NEW k \in 0..Len(tree), k < Len(tree)
      PROVE  Blanked(Front(tree, k + 1), prop) =
               Blanked(Front(tree, k), prop) \o Piece(tree[k + 1], prop)
  <2>1. PICK s \in Seq(S) : s = Front(tree, k) /\ Len(s) = k
    BY Fronts
  <2>2. PICK t \in S : t = tree[k + 1]
    BY <1>2, Fronts
  <2>3. PICK r \in Seq(S) : r = Front(tree, k + 1) /\ r = Append(s, t)
    <3>1. Front(tree, k + 1) = Append(s, t)
      BY <1>2, <2>1, <2>2, Fronts
    <3>2. Append(s, t) \in Seq(S)
      OBVIOUS
    <3>3. QED
      BY <3>1, <3>2
  <2>4. k \in Nat /\ Len(r) = k + 1 /\ r[k + 1] = t /\ \A i \in 1..k : r[i] = s[i]
    BY <2>1, <2>3
  <2> DEFINE g == [i \in 1..k |-> Piece(s[i], prop)]
             h == [i \in 1..k + 1 |-> Piece(r[i], prop)]
  <2>5. h[k + 1] = Piece(t, prop) /\ \A i \in 1..k : g[i] = h[i]
    <3>1. k + 1 \in 1..k + 1 /\ \A i \in 1..k : i \in 1..k + 1
      BY <2>4
    <3>2. QED
      BY <2>4, <3>1
  <2>6. Blanked(s, prop) = JoinOf(g, k) /\ Blanked(r, prop) = JoinOf(h, k + 1)
    BY <2>1, <2>4 DEF Blanked
  <2> HIDE DEF g, h
  <2>7. JoinOf(h, k + 1) = JoinOf(g, k) \o h[k + 1]
    BY <2>4, <2>5, JoinOfNext
  <2>8. QED
    BY <2>1, <2>2, <2>3, <2>5, <2>6, <2>7
<1>3. QED
  BY <1>1, <1>2

\* n cells of FDT_NOP
NopCells(n) == [k \in 1..n |-> NOP]

\* Behind other tokens, n blanks are written as n cells.
LEMMA EncodeBlank ==
  ASSUME NEW R, Nop \in R, Writable(R), NEW s \in Seq(R), Encode(s) \in Seq(Nat), NEW n \in Nat
  PROVE  /\ s \o Blank(n) \in Seq(R)
         /\ Encode(s \o Blank(n)) = Encode(s) \o NopCells(n)
         /\ NopCells(n) \in Seq(Nat) /\ Len(NopCells(n)) = n
<1>1. ASSUME NEW m \in Nat
      PROVE  /\ Blank(m) \in Seq(R) /\ Len(Blank(m)) = m /\ s \o Blank(m) \in Seq(R)
             /\ NopCells(m) \in Seq(Nat) /\ Len(NopCells(m)) = m
             /\ Blank(m + 1) = Append(Blank(m), Nop)
             /\ NopCells(m + 1) = Append(NopCells(m), NOP)
  <2>1. Blank(m) \in [1..m -> R]
    BY DEF Blank
  <2>2. Blank(m) \in Seq(R) /\ Len(Blank(m)) = m
    BY <2>1, FunctionIsSeq
  <2>3. s \o Blank(m) \in Seq(R)
    BY <2>2, Concats, Zenon
  <2>4. NopCells(m) \in [1..m -> Nat]
    BY DEF NopCells, NOP
  <2>5. NopCells(m) \in Seq(Nat) /\ Len(NopCells(m)) = m
    BY <2>4, FunctionIsSeq
  <2>6. Blank(m + 1) = Append(Blank(m), Nop)
    <3>1. PICK b \in Seq(R) : b = Blank(m) /\ Len(b) = m /\ \A i \in 1..m : b[i] = Nop
      BY <2>2 DEF Blank
    <3>2. PICK a \in Seq(R) : a = Append(b, Nop) /\ Len(a) = m + 1 /\ \A i \in 1..m + 1 : a[i] = Nop
      <4>1. Append(b, Nop) \in Seq(R) /\ Len(Append(b, Nop)) = m + 1
        BY <3>1
      <4>2. \A i \in 1..m + 1 : Append(b, Nop)[i] = Nop
        BY <3>1
      <4>3. QED
        BY <4>1, <4>2
    <3>3. PICK c \in Seq(R) : c = Blank(m + 1) /\ Len(c) = m + 1 /\ \A i \in 1..m + 1 : c[i] = Nop
      <4>1. Blank(m + 1) \in [1..m + 1 -> R] /\ m + 1 \in Nat
        BY DEF Blank
      <4>2. Blank(m + 1) \in Seq(R) /\ Len(Blank(m + 1)) = m + 1
        BY <4>1, FunctionIsSeq, Zenon
      <4>3. QED
        BY <4>2 DEF Blank
    <3>4. a = c
      BY <3>2, <3>3, SameElements
    <3>5. QED
      BY <3>1, <3>2, <3>3, <3>4
  <2>7. NopCells(m + 1) = Append(NopCells(m), NOP)
    <3>1. PICK b \in Seq(Nat) : b = NopCells(m) /\ Len(b) = m /\ \A i \in 1..m : b[i] = NOP
      BY <2>5 DEF NopCells
    <3>2. PICK a \in Seq(Nat) : a = Append(b, NOP) /\ Len(a) = m + 1 /\ \A i \in 1..m + 1 : a[i] = NOP
      <4>1. Append(b, NOP) \in Seq(Nat) /\ Len(Append(b, NOP)) = m + 1
        BY <3>1 DEF NOP
      <4>2. \A i \in 1..m + 1 : Append(b, NOP)[i] = NOP
        BY <3>1
      <4>3. QED
        BY <4>1, <4>2
    <3>3. PICK c \in Seq(Nat) : c = NopCells(m + 1) /\ Len(c) = m + 1 /\ \A i \in 1..m + 1 : c[i] = NOP
      <4>1. NopCells(m + 1) \in [1..m + 1 -> Nat] /\ m + 1 \in Nat
        BY DEF NopCells, NOP
      <4>2. NopCells(m + 1) \in Seq(Nat) /\ Len(NopCells(m + 1)) = m + 1
        BY <4>1, FunctionIsSeq, Zenon
      <4>3. QED
        BY <4>2 DEF NopCells
    <3>4. a = c
      BY <3>2, <3>3, SameElements
    <3>5. QED
      BY <3>1, <3>2, <3>3, <3>4
  <2>8. QED
    BY <2>2, <2>3, <2>5, <2>6, <2>7
<1> DEFINE G == {m \in Nat : Encode(s \o Blank(m)) = Encode(s) \o NopCells(m)}
<1>2. 0 \in G
  <2>1. Blank(0) = << >> /\ NopCells(0) = << >>
    BY <1>1 DEF Blank, NopCells
  <2>2. s \o << >> = s /\ Encode(s) \o << >> = Encode(s)
    BY Concats3, Zenon
  <2>3. QED
    BY <2>1, <2>2
<1>3. ASSUME NEW m \in G PROVE m + 1 \in G
  <2>1. m \in Nat /\ m + 1 \in Nat /\ Encode(s \o Blank(m)) = Encode(s) \o NopCells(m)
    OBVIOUS
  <2>2. s \o Blank(m + 1) = Append(s \o Blank(m), Nop)
    <3>1. PICK b \in Seq(R) : b = Blank(m) /\ Blank(m + 1) = Append(b, Nop)
      BY <1>1, <2>1
    <3>2. s \o Append(b, Nop) = Append(s \o b, Nop)
      BY <3>1, SMTT(60)
    <3>3. QED
      BY <3>1, <3>2
  <2>3. Encode(Append(s \o Blank(m), Nop)) = Encode(s \o Blank(m)) \o EncodeToken(Nop)
    BY <1>1, <2>1, EncodeAppend
  <2>4. EncodeToken(Nop) = <<NOP>>
    BY DEF EncodeToken, Nop
  <2>5. (Encode(s) \o NopCells(m)) \o <<NOP>> = Encode(s) \o NopCells(m + 1)
    <3>1. PICK e \in Seq(Nat), b \in Seq(Nat) : e = Encode(s) /\ b = NopCells(m)
      BY <1>1, <2>1
    <3>2. (e \o b) \o <<NOP>> = e \o Append(b, NOP)
      <4>1. NOP \in Nat
        BY DEF NOP
      <4>2. QED
        BY <4>1, OneBehind, Zenon
    <3>3. NopCells(m + 1) = Append(b, NOP)
      BY <1>1, <2>1, <3>1
    <3>4. QED
      BY <3>1, <3>2, <3>3
  <2>6. Encode(s \o Blank(m + 1)) = Encode(s) \o NopCells(m + 1)
    BY <2>1, <2>2, <2>3, <2>4, <2>5
  <2>7. QED
    BY <2>1, <2>6
<1> HIDE DEF G
<1>4. G \in SUBSET Nat
  BY DEF G
<1>5. G = Nat
  BY <1>2, <1>3, <1>4, Induction
<1>6. Encode(s \o Blank(n)) = Encode(s) \o NopCells(n)
  BY <1>5 DEF G
<1>7. QED
  BY <1>1, <1>6

\* The cells that patch-extcon.py leaves where a token was
Cells(t, prop) ==
    IF t.kind = "prop" /\ t.name = prop THEN NopCells(Len(EncodeToken(t))) ELSE EncodeToken(t)

\* The tree with the blanks is written as those cells, place for place; its tokens
\* are tokens, and none of them follows FDT_END.
LEMMA BlankedCells ==
  ASSUME NEW strings, NEW tree, HasTokens(strings, tree), NEW prop
  PROVE  /\ \A k \in 0..Len(tree) :
              /\ Encode(Blanked(Front(tree, k), prop)) \in Seq(Nat)
              /\ Len(Encode(Blanked(Front(tree, k), prop))) = Place(tree, k)
         /\ \A k \in 0..Len(tree) : k < Len(tree) =>
              /\ Cells(tree[k + 1], prop) \in Seq(Nat)
              /\ Len(Cells(tree[k + 1], prop)) = Len(EncodeToken(tree[k + 1]))
              /\ Encode(Blanked(Front(tree, k + 1), prop)) =
                   Encode(Blanked(Front(tree, k), prop)) \o Cells(tree[k + 1], prop)
         /\ HasTokens(strings, Blanked(tree, prop))
<1> DEFINE S == Tokens(tree)
           R == S \cup {Nop}
           L == {t \in R : t.kind # "stop"}
<1>1. /\ tree \in Seq(S) /\ Writable(S) /\ \A t \in S : IsToken(strings, t)
      /\ \A k \in 0..Len(tree) :
           k < Len(tree) => /\ IsToken(strings, tree[k + 1]) /\ tree[k + 1] \in S
                            /\ tree[k + 1].kind = "stop" => k + 1 = Len(tree)
  BY TokensOf, Fronts
<1>2. IsToken(strings, Nop) /\ Nop.kind = "nop"
  BY DEF IsToken, Nop
<1>3. \A t \in R : IsToken(strings, t)
  BY <1>1, <1>2
<1>4. Writable(R) /\ Nop \in R /\ S \subseteq R /\ Nop \in L
  BY <1>2, <1>3, TokenCells, Zenon DEF Writable
<1> HIDE DEF S, R, L
<1>5. ASSUME NEW k \in 0..Len(tree), k < Len(tree),
             NEW s \in Seq(R), Encode(s) \in Seq(Nat)
      PROVE  /\ s \o Piece(tree[k + 1], prop) \in Seq(R)
             /\ Encode(s \o Piece(tree[k + 1], prop)) = Encode(s) \o Cells(tree[k + 1], prop)
             /\ Cells(tree[k + 1], prop) \in Seq(Nat)
             /\ Len(Cells(tree[k + 1], prop)) = Len(EncodeToken(tree[k + 1]))
  <2>1. PICK t \in R : t = tree[k + 1] /\ IsToken(strings, t)
    BY <1>1, <1>4, <1>5
  <2>2. EncodeToken(t) \in Seq(Nat) /\ Len(EncodeToken(t)) \in Nat
    BY <2>1, TokenCells
  <2>3. CASE t.kind = "prop" /\ t.name = prop
    <3>1. PICK n \in Nat : n = 3 + Words(t.len) /\ Len(EncodeToken(t)) = n
      <4>1. t.len \in Nat /\ t.off \in Nat /\ t.val \in Seq(Nat) /\ Len(t.val) = Words(t.len)
        BY <2>1, <2>3 DEF IsToken
      <4>6. PICK len \in Nat, off \in Nat : len = t.len /\ off = t.off
        BY <4>1
      <4>7. <<PROP, len, off>> \in Seq(Nat) /\ Len(<<PROP, len, off>>) = 3
        BY DEF PROP
      <4>2. PICK v \in Seq(Nat), h \in Seq(Nat) :
              v = t.val /\ h = <<PROP, t.len, t.off>> /\ Len(h) = 3
        BY <4>1, <4>6, <4>7
      <4>3. EncodeToken(t) = h \o v
        BY <2>3, <4>2 DEF EncodeToken
      <4>4. Len(h \o v) = 3 + Len(v) /\ Len(v) \in Nat
        BY <4>2
      <4>5. QED
        BY <2>2, <4>1, <4>2, <4>3, <4>4
    <3>2. Piece(t, prop) = Blank(n) /\ Cells(t, prop) = NopCells(n)
      BY <2>3, <3>1 DEF Piece, Cells
    <3>3. /\ s \o Blank(n) \in Seq(R) /\ Encode(s \o Blank(n)) = Encode(s) \o NopCells(n)
          /\ NopCells(n) \in Seq(Nat) /\ Len(NopCells(n)) = n
      BY <1>4, <1>5, EncodeBlank
    <3>4. QED
      BY <2>1, <3>1, <3>2, <3>3
  <2>4. CASE ~(t.kind = "prop" /\ t.name = prop)
    <3>1. Piece(t, prop) = <<t>> /\ Cells(t, prop) = EncodeToken(t)
      BY <2>4 DEF Piece, Cells
    <3>2. s \o <<t>> = Append(s, t) /\ s \o <<t>> \in Seq(R)
      OBVIOUS
    <3>3. Encode(Append(s, t)) = Encode(s) \o EncodeToken(t)
      BY EncodeAppend
    <3>4. QED
      BY <2>1, <2>2, <3>1, <3>2, <3>3
  <2>5. QED
    BY <2>3, <2>4
<1> DEFINE B(k) == Blanked(Front(tree, k), prop)
<1>6. /\ B(0) = << >> /\ Len(tree) \in Nat
      /\ \A k \in 0..Len(tree) : k < Len(tree) => B(k + 1) = B(k) \o Piece(tree[k + 1], prop)
  <2>1. Len(tree) \in Nat
    BY <1>1, Fronts
  <2>2. QED
    BY <1>1, <2>1, BlankedNext, Zenon
<1> HIDE DEF B
<1> DEFINE G == {k \in Nat : k <= Len(tree) =>
                   /\ B(k) \in Seq(R) /\ Encode(B(k)) \in Seq(Nat)
                   /\ Len(Encode(B(k))) = Place(tree, k)}
<1>7. 0 \in G
  <2>1. << >> \in Seq(R) /\ << >> \in Seq(Nat) /\ Len(<< >>) = 0
    OBVIOUS
  <2>2. Encode(B(0)) = << >>
    BY <1>6, EncodeNone
  <2>3. Place(tree, 0) = 0
    BY <1>1, EncodeFront
  <2>4. QED
    BY <1>6, <2>1, <2>2, <2>3
<1>8. ASSUME NEW k \in G PROVE k + 1 \in G
  <2>1. k \in Nat /\ k + 1 \in Nat
    OBVIOUS
  <2>2. ASSUME k + 1 <= Len(tree)
        PROVE  /\ B(k + 1) \in Seq(R) /\ Encode(B(k + 1)) \in Seq(Nat)
               /\ Len(Encode(B(k + 1))) = Place(tree, k + 1)
    <3>1. k \in 0..Len(tree) /\ k < Len(tree) /\ k <= Len(tree)
      BY <1>6, <2>1, <2>2
    <3>2. PICK s \in Seq(R) : s = B(k) /\ Encode(s) \in Seq(Nat) /\ Len(Encode(s)) = Place(tree, k)
      BY <3>1
    <3>3. PICK c \in Seq(Nat) : /\ c = Cells(tree[k + 1], prop)
                                /\ Len(c) = Len(EncodeToken(tree[k + 1]))
                                /\ s \o Piece(tree[k + 1], prop) \in Seq(R)
                                /\ Encode(s \o Piece(tree[k + 1], prop)) = Encode(s) \o c
      BY <1>5, <3>1, <3>2
    <3>4. B(k + 1) = s \o Piece(tree[k + 1], prop)
      BY <1>6, <3>1, <3>2
    <3>5. PICK e \in Seq(Nat) : e = Encode(s)
      BY <3>2
    <3>6. e \o c \in Seq(Nat) /\ Len(e \o c) = Len(e) + Len(c)
      BY Concats, Zenon
    <3>7. Place(tree, k + 1) = Place(tree, k) + Len(EncodeToken(tree[k + 1]))
      BY <1>1, <3>1, EncodeFront, Zenon
    <3>8. QED
      BY <3>2, <3>3, <3>4, <3>5, <3>6, <3>7, Zenon
  <2>3. QED
    BY <2>1, <2>2
<1>9. G \in SUBSET Nat
  OBVIOUS
<1> HIDE DEF G
<1>10. G = Nat
  BY <1>7, <1>8, <1>9, Induction
<1>11. \A k \in 0..Len(tree) : /\ B(k) \in Seq(R) /\ Encode(B(k)) \in Seq(Nat)
                               /\ Len(Encode(B(k))) = Place(tree, k)
  BY <1>10 DEF G
<1>12. \A k \in 0..Len(tree) : k < Len(tree) =>
         /\ Cells(tree[k + 1], prop) \in Seq(Nat)
         /\ Len(Cells(tree[k + 1], prop)) = Len(EncodeToken(tree[k + 1]))
         /\ Encode(B(k + 1)) = Encode(B(k)) \o Cells(tree[k + 1], prop)
  BY <1>5, <1>6, <1>11
<1>13. ASSUME NEW k \in 0..Len(tree), k < Len(tree), tree[k + 1].kind # "stop"
       PROVE  Piece(tree[k + 1], prop) \in Seq(L)
  <2>1. PICK t \in L : t = tree[k + 1] /\ IsToken(strings, t)
    BY <1>1, <1>4, <1>13 DEF L
  <2>2. CASE t.kind = "prop" /\ t.name = prop
    <3>1. t.len \in Nat
      BY <2>1, <2>2 DEF IsToken
    <3>2. PICK n \in Nat : n = 3 + Words(t.len)
      <4>1. Words(t.len) \in Nat
        BY <3>1, WordsNat
      <4>2. QED
        BY <4>1
    <3>3. Blank(n) \in [1..n -> L]
      BY <1>4 DEF Blank
    <3>4. Blank(n) \in Seq(L)
      BY <3>3, FunctionIsSeq
    <3>5. QED
      BY <2>1, <2>2, <3>2, <3>4 DEF Piece
  <2>3. CASE ~(t.kind = "prop" /\ t.name = prop)
    <3>1. <<t>> \in Seq(L)
      OBVIOUS
    <3>2. QED
      BY <2>1, <2>3, <3>1 DEF Piece
  <2>4. QED
    BY <2>2, <2>3
<1> DEFINE H == {k \in Nat : k < Len(tree) => B(k) \in Seq(L)}
<1>14. 0 \in H
  <2>1. << >> \in Seq(L)
    OBVIOUS
  <2>2. QED
    BY <1>6, <2>1
<1>15. ASSUME NEW k \in H PROVE k + 1 \in H
  <2>1. k \in Nat /\ k + 1 \in Nat
    OBVIOUS
  <2>2. ASSUME k + 1 < Len(tree) PROVE B(k + 1) \in Seq(L)
    <3>1. k \in 0..Len(tree) /\ k < Len(tree) /\ k + 1 # Len(tree)
      BY <1>6, <2>1, <2>2
    <3>2. PICK a \in Seq(L) : a = B(k)
      BY <3>1
    <3>3. PICK b \in Seq(L) : b = Piece(tree[k + 1], prop)
      BY <1>1, <1>13, <3>1
    <3>4. B(k + 1) = a \o b
      BY <1>6, <3>1, <3>2, <3>3
    <3>5. QED
      BY <3>4, Concats, Zenon
  <2>3. QED
    BY <2>1, <2>2
<1>16. H \in SUBSET Nat
  OBVIOUS
<1> HIDE DEF H
<1>17. H = Nat
  BY <1>14, <1>15, <1>16, Induction
<1>18. PICK X \in Seq(R) : X = B(Len(tree))
  BY <1>6, <1>11
<1>19. Len(X) \in Nat /\ DOMAIN X = 1..Len(X) /\ \A i \in 1..Len(X) : X[i] \in R
  BY ElementsOf
<1>20. ASSUME NEW i \in 1..Len(X), X[i].kind = "stop" PROVE i = Len(X)
  <2>1. Len(tree) # 0
    <3>1. SUFFICES ASSUME Len(tree) = 0 PROVE FALSE
      OBVIOUS
    <3>2. X = << >>
      BY <1>6, <1>18, <3>1, SMTT(60)
    <3>3. QED
      BY <3>2
  <2>2. PICK n \in Nat : n + 1 = Len(tree)
    <3>1. Len(tree) - 1 \in Nat /\ (Len(tree) - 1) + 1 = Len(tree)
      BY <1>6, <2>1
    <3>2. QED
      BY <3>1
  <2>3. n \in 0..Len(tree) /\ n < Len(tree)
    BY <1>6, <2>2
  <2>4. PICK a \in Seq(L) : a = B(n)
    BY <1>17, <2>3 DEF H
  <2>5. X = a \o Piece(tree[n + 1], prop)
    BY <1>6, <1>18, <2>2, <2>3, <2>4
  <2>6. tree[n + 1].kind = "stop"
    <3>1. SUFFICES ASSUME tree[n + 1].kind # "stop" PROVE FALSE
      OBVIOUS
    <3>2. PICK b \in Seq(L) : b = Piece(tree[n + 1], prop)
      BY <1>13, <2>3, <3>1
    <3>3. X \in Seq(L)
      BY <2>5, <3>2, Concats, Zenon
    <3>4. X[i] \in L
      BY <3>3, ElementsOf, Zenon
    <3>5. QED
      BY <1>20, <3>4 DEF L
  <2>7. Piece(tree[n + 1], prop) = <<tree[n + 1]>>
    BY <2>6 DEF Piece
  <2>8. PICK t \in R : t = tree[n + 1]
    BY <1>1, <1>4, <2>3
  <2>9. X = Append(a, t)
    BY <2>5, <2>7, <2>8
  <2>10. Len(a) \in Nat /\ Len(X) = Len(a) + 1 /\ \A j \in 1..Len(a) : X[j] = a[j] /\ a[j] \in L
    BY <2>9
  <2>11. i \notin 1..Len(a)
    <3>1. SUFFICES ASSUME i \in 1..Len(a) PROVE FALSE
      OBVIOUS
    <3>2. X[i] \in L
      BY <2>10, <3>1, SMTT(60)
    <3>3. QED
      BY <1>20, <3>2 DEF L
  <2>12. QED
    BY <2>10, <2>11
<1>21. HasTokens(strings, X)
  <2>1. X \in [1..Len(X) -> {X[k] : k \in DOMAIN X}]
    BY <1>18, <1>19
  <2>2. X \in Seq({X[k] : k \in DOMAIN X})
    BY <1>19, <2>1, FunctionIsSeq, Zenon
  <2>3. QED
    BY <1>3, <1>19, <1>20, <2>2 DEF HasTokens
<1>22. X = Blanked(tree, prop)
  <2>1. Front(tree, Len(tree)) = tree
    BY <1>1, Fronts
  <2>2. QED
    BY <1>18, <2>1 DEF B
<1>23. QED
  BY <1>11, <1>12, <1>21, <1>22 DEF B

\* What patch-extcon.py puts in place is the tree with its blanks.
LEMMA ReplacedTree ==
  ASSUME NEW f, IsTree(f), NEW prop
  PROVE  IsTree([cells |-> Replaced(f.cells, Encode(Blanked(f.tree, prop))),
                 tree |-> Blanked(f.tree, prop)])
<1>1. PICK c \in Seq(Nat) : c = f.cells
  BY DEF IsTree
<1>2. /\ MapBefore(c) /\ BlocksApart(c) /\ HasTokens(strings_blk(c), f.tree)
      /\ struct_blk(c) = Encode(f.tree)
  BY <1>1 DEF IsTree
<1>0. PICK new : new = Replaced(c, Encode(Blanked(f.tree, prop)))
  OBVIOUS
<1>3. PICK so \in Nat, st \in Nat, sz \in Nat, ss \in Nat :
        /\ new = Replaced(c, Encode(Blanked(f.tree, prop)))
        /\ so = c[OFF_STRUCT] /\ st = c[OFF_STRINGS] /\ sz = c[SIZE_STRINGS] /\ ss = c[SIZE_STRUCT]
  <2>1. /\ c[OFF_STRUCT] \in Nat /\ c[OFF_STRINGS] \in Nat
        /\ c[SIZE_STRINGS] \in Nat /\ c[SIZE_STRUCT] \in Nat
    BY <1>2, Described1, Zenon
  <2>2. QED
    BY <1>0, <2>1
<1>4. /\ Len(c) \in Nat /\ so >= 14 /\ so + ss <= Len(c) /\ st + sz <= Len(c)
      /\ Len(struct_blk(c)) = ss /\ c[OFF_RSVMAP] \in Nat
      /\ Len(strings_blk(c)) = sz /\ strings_blk(c) \in Seq(Nat) /\ Lies(c, st, strings_blk(c))
  BY <1>2, <1>3, Described1
<1>5. PICK block \in Seq(Nat) : block = Encode(Blanked(f.tree, prop)) /\ Len(block) = ss
  <2>1. PICK T : T = f.tree
    OBVIOUS
  <2>2. T \in Seq(Tokens(T)) /\ Writable(Tokens(T)) /\ HasTokens(strings_blk(c), T)
    BY <1>2, <2>1, TokensOf
  <2>3. Len(T) \in 0..Len(T) /\ Front(T, Len(T)) = T
    BY <2>2, Fronts
  <2>4. /\ Encode(Blanked(Front(T, Len(T)), prop)) \in Seq(Nat)
        /\ Len(Encode(Blanked(Front(T, Len(T)), prop))) = Place(T, Len(T))
    <3>1. \A k \in 0..Len(T) :
            /\ Encode(Blanked(Front(T, k), prop)) \in Seq(Nat)
            /\ Len(Encode(Blanked(Front(T, k), prop))) = Place(T, k)
      BY <2>2, BlankedCells, ZenonT(60)
    <3>2. QED
      BY <2>3, <3>1, Zenon
  <2>5. Place(T, Len(T)) = ss
    BY <1>2, <1>4, <2>1, <2>3 DEF Place
  <2>6. QED
    BY <2>1, <2>3, <2>4, <2>5
<1>6. /\ new \in Seq(Nat) /\ Len(new) = Len(c)
      /\ \A k \in 1..Len(c) :
           new[k] = IF k > so /\ k <= so + ss THEN block[k - so] ELSE c[k]
  <2>1. Len(c) >= 10
    BY <1>2, Described1
  <2>2. /\ Replaced(c, block) \in Seq(Nat) /\ Len(Replaced(c, block)) = Len(c)
        /\ \A k \in 1..Len(c) :
              Replaced(c, block)[k] =
                IF k > c[OFF_STRUCT] /\ k <= c[OFF_STRUCT] + Len(block)
                THEN block[k - c[OFF_STRUCT]] ELSE c[k]
    BY <2>1, ReplacedCells, Zenon
  <2>3. QED
    BY <1>3, <1>5, <2>2
<1>7. \A k \in 1..so : new[k] = c[k]
  <2>1. \A k \in 1..so : k \in 1..Len(c) /\ ~(k > so)
    BY <1>4
  <2>2. QED
    BY <1>6, <2>1
<1>8. /\ new[OFF_STRUCT] = so /\ new[OFF_STRINGS] = st /\ new[OFF_RSVMAP] = c[OFF_RSVMAP]
      /\ new[SIZE_STRINGS] = sz /\ new[SIZE_STRUCT] = ss /\ new[TOTALSIZE] = c[TOTALSIZE]
  <2>1. \A k \in {2, 3, 4, 5, 9, 10} : k \in 1..so
    BY <1>4
  <2>2. \A k \in {2, 3, 4, 5, 9, 10} : new[k] = c[k]
    BY <1>7, <2>1
  <2>3. QED
    BY <1>3, <2>2 DEF OFF_STRUCT, OFF_STRINGS, OFF_RSVMAP, SIZE_STRINGS, SIZE_STRUCT, TOTALSIZE
<1>9. MapBefore(new)
  <2>1. so <= Len(new) /\ \A i \in 11..so : new[i] = c[i]
    BY <1>4, <1>6, <1>7, SMTT(60)
  <2>2. QED
    BY <1>2, <1>3, <1>4, <1>6, <1>8, <2>1, MapMoves
<1>10. BlocksApart(new)
  BY <1>2, <1>3, <1>6, <1>8, Zenon DEF BlocksApart
<1>11. struct_blk(new) = block
  <2>1. ASSUME NEW i \in 1..Len(block) PROVE new[so + i] = block[i]
    <3>1. so + i \in 1..Len(c) /\ so + i > so /\ so + i <= so + ss /\ (so + i) - so = i
      BY <1>4, <1>5
    <3>2. QED
      BY <1>6, <3>1
  <2>2. Lies(new, so, block)
    BY <1>4, <1>5, <1>6, <2>1 DEF Lies
  <2>3. Slice(new, so, so + Len(block)) = block
    BY <1>6, <2>2, SliceLies
  <2>4. QED
    BY <1>5, <1>8, <2>3 DEF struct_blk
<1>12. strings_blk(new) = strings_blk(c)
  <2>1. PICK s \in Seq(Nat) : s = strings_blk(c) /\ Len(s) = sz
    BY <1>4
  <2>2. st + sz <= Len(c) /\ \A i \in 1..sz : s[i] = c[st + i]
    BY <1>4, <2>1 DEF Lies
  <2>3. so + ss <= st \/ st + sz <= so
    BY <1>2, <1>3 DEF BlocksApart
  <2>4. ASSUME NEW i \in 1..sz PROVE new[st + i] = s[i]
    <3>1. st + i \in 1..Len(c) /\ ~(st + i > so /\ st + i <= so + ss)
      <4>1. Len(c) \in Nat /\ st + sz <= Len(c) /\ (so + ss <= st \/ st + sz <= so)
        BY <1>4, <2>3, Zenon
      <4>2. QED
        BY <4>1
    <3>2. new[st + i] = c[st + i]
      BY <1>6, <3>1
    <3>3. QED
      BY <2>2, <3>2
  <2>5. Lies(new, st, s)
    BY <1>6, <2>1, <2>2, <2>4 DEF Lies
  <2>6. Slice(new, st, st + Len(s)) = s
    BY <1>6, <2>5, SliceLies
  <2>7. QED
    BY <1>8, <2>1, <2>6 DEF strings_blk
<1>13. HasTokens(strings_blk(c), Blanked(f.tree, prop))
  BY <1>2, BlankedCells, Zenon
<1>14. PICK g : g = [cells |-> new, tree |-> Blanked(f.tree, prop)]
  OBVIOUS
<1>15. g.cells = new /\ g.tree = Blanked(f.tree, prop)
  BY <1>14
<1>16. IsTree(g)
  BY <1>5, <1>6, <1>9, <1>10, <1>11, <1>12, <1>13, <1>15 DEF IsTree
<1>17. QED
  BY <1>1, <1>3, <1>14, <1>16

\* patch-extcon.py stands before a token; before it there is what is to be left, and
\* from it on what was there.
ExtconAt(tree) ==
    \E k \in 0..Len(tree) :
        /\ pos = Place(tree, k) /\ Len(out) = Len(Encode(tree))
        /\ Lies(out, 0, Encode(Blanked(Front(tree, k), file.prop)))
        /\ \A i \in pos + 1..Len(out) : out[i] = Encode(tree)[i]
ExtconWalk ==
    Walked.tree # None =>
        /\ pc = "extcon" => ExtconAt(Walked.tree)
        /\ pc = "extcon_write" => out = Encode(Blanked(Walked.tree, file.prop))

\* While it blanks out a property, patch-extcon.py goes from token to token, and it
\* has the blanks in place when it has come to the end.
LEMMA ExtconWalks ==
  ASSUME TypeInv, TreesInv, ExtconWalk, pc = "extcon", ExtconStep
  PROVE  ExtconWalk'
<1>1. /\ UNCHANGED <<dir, file>> /\ pc' \in {"extcon", "extcon_write", "idle"}
      /\ \/ ExtconBeginNode \/ ExtconSkipToken \/ ExtconProp
         \/ ExtconUnknownToken \/ ExtconEnd
  BY DEF ExtconStep, OpenExtcon, ExtconWrite, ExtconBeginNode, ExtconSkipToken, ExtconProp,
         ExtconUnknownToken, ExtconEnd, ExtconUnchanged, Exit
<1>2. Walked' = Walked /\ file' = file
  BY <1>1 DEF Walked
<1>3. CASE Walked.tree = None
  BY <1>2, <1>3 DEF ExtconWalk
<1>4. CASE Walked.tree # None
  <2>1. PICK T : T = Walked.tree
    OBVIOUS
  <2>2. PICK strings \in Seq(Nat), blk \in Seq(Nat) :
          /\ strings = NameStrings /\ blk = Encode(T) /\ HasTokens(strings, T)
    <3>1. pc \in Walks
      BY DEF Walks
    <3>2. /\ HasTokens(NameStrings, Walked.tree) /\ struct_blk(file.data) = Encode(Walked.tree)
          /\ NameStrings \in Seq(Nat) /\ struct_blk(file.data) \in Seq(Nat)
      BY <1>4, <3>1, WalkedTree, Described1 DEF NameStrings
    <3>3. QED
      BY <2>1, <3>2
  <2>3. T \in Seq(Tokens(T)) /\ Writable(Tokens(T)) /\ Len(T) \in Nat
    <3>1. T \in Seq(Tokens(T)) /\ Writable(Tokens(T))
      BY <2>2, TokensOf, Zenon
    <3>2. Len(T) \in Nat
      BY <3>1, Fronts, Zenon
    <3>3. QED
      BY <3>1, <3>2
  <2>4. PICK k \in 0..Len(T) :
          /\ pos = Place(T, k) /\ Len(out) = Len(blk)
          /\ Lies(out, 0, Encode(Blanked(Front(T, k), file.prop)))
          /\ \A i \in pos + 1..Len(out) : out[i] = blk[i]
    BY <1>4, <2>1, <2>2 DEF ExtconWalk, ExtconAt
  <2>5. PICK done \in Seq(Nat) :
          /\ done = Encode(Blanked(Front(T, k), file.prop)) /\ Len(done) = pos
          /\ pos \in Nat /\ Len(blk) \in Nat /\ pos <= Len(blk) /\ out \in Seq(Nat)
          /\ \A i \in 1..pos : out[i] = done[i]
    <3>1. /\ Encode(Blanked(Front(T, k), file.prop)) \in Seq(Nat)
          /\ Len(Encode(Blanked(Front(T, k), file.prop))) = pos
      <4>1. \A j \in 0..Len(T) :
              /\ Encode(Blanked(Front(T, j), file.prop)) \in Seq(Nat)
              /\ Len(Encode(Blanked(Front(T, j), file.prop))) = Place(T, j)
        BY <2>2, BlankedCells, ZenonT(60)
      <4>2. QED
        BY <2>4, <4>1, Zenon
    <3>2. PICK done \in Seq(Nat) :
            done = Encode(Blanked(Front(T, k), file.prop)) /\ Len(done) = pos
      BY <3>1
    <3>3. pos <= Len(blk)
      BY <2>2, <2>3, <2>4, Laid, Zenon
    <3>4. out \in Seq(Nat)
      BY DEF TypeInv, WalkInv, CellWalk
    <3>5. \A i \in 1..pos : out[i] = done[i]
      <4>1. \A i \in 1..Len(done) : out[0 + i] = done[i]
        BY <2>4, <3>2 DEF Lies
      <4>2. QED
        BY <3>2, <4>1
    <3>6. QED
      BY <3>2, <3>3, <3>4, <3>5
  <2>6. CASE k = Len(T)
    <3>1. pos = Len(blk)
      BY <2>2, <2>3, <2>4, <2>6, Laid, Zenon
    <3>2. ~(pos < Len(out))
      BY <2>4, <2>5, <3>1
    <3>3. ExtconEnd /\ out' = out
      BY <1>1, <3>2
         DEF ExtconBeginNode, ExtconSkipToken, ExtconProp, ExtconUnknownToken, ExtconEnd, AtToken
    <3>4. out = done
      BY <2>4, <2>5, <3>1, SameElements
    <3>5. done = Encode(Blanked(T, file.prop))
      BY <2>3, <2>5, <2>6, Fronts
    <3>6. QED
      BY <1>2, <2>1, <3>3, <3>4, <3>5 DEF ExtconEnd, ExtconWalk
  <2>7. CASE k < Len(T)
    <3>1. PICK t : t = T[k + 1]
      OBVIOUS
    <3>2. PICK w \in Seq(Nat) : w = EncodeToken(t) /\ IsToken(strings, t)
      <4>1. EncodeToken(T[k + 1]) \in Seq(Nat)
        BY <2>3, <2>7, EncodeFront, Zenon
      <4>2. IsToken(strings, T[k + 1])
        BY <2>2, <2>7, TokensOf, Zenon
      <4>3. QED
        BY <3>1, <4>1, <4>2
    <3>3. /\ pos < Len(out) /\ Lies(blk, pos, w) /\ Len(w) \in Nat /\ Len(w) >= 1
          /\ t.kind = "stop" => k + 1 = Len(T)
      <4>1. pos < Len(blk) /\ Lies(blk, pos, w)
        BY <2>2, <2>3, <2>4, <2>7, <3>1, <3>2, Laid, Zenon
      <4>2. Len(w) \in Nat /\ Len(w) >= 1
        BY <2>3, <2>7, <3>1, <3>2, EncodeFront, Zenon
      <4>3. t.kind = "stop" => k + 1 = Len(T)
        BY <2>2, <2>7, <3>1, TokensOf, Zenon
      <4>4. QED
        BY <2>4, <4>1, <4>2, <4>3
    <3>4. Lies(out, pos, w) /\ pos + Len(w) <= Len(out)
      <4>1. pos + Len(w) <= Len(blk) /\ \A i \in 1..Len(w) : blk[pos + i] = w[i]
        BY <3>3 DEF Lies
      <4>2. \A i \in 1..Len(w) : pos + i \in pos + 1..Len(out)
        <5>1. Len(out) = Len(blk) /\ pos \in Nat /\ Len(out) \in Nat
          BY <2>4, <2>5
        <5>2. QED
          BY <3>3, <4>1, <5>1
      <4>3. \A i \in 1..Len(w) : out[pos + i] = w[i]
        BY <2>4, <4>1, <4>2
      <4>4. QED
        BY <2>4, <4>1, <4>3 DEF Lies
    <3>5. out[pos + 1] = w[1]
      <4>1. 1 \in 1..Len(w)
        BY <3>3
      <4>2. QED
        BY <3>4, <4>1, Zenon DEF Lies
    <3>6. PICK cells \in Seq(Nat) :
            /\ cells = Cells(t, file.prop) /\ Len(cells) = Len(w)
            /\ Encode(Blanked(Front(T, k + 1), file.prop)) = done \o cells
      <4>1. \A j \in 0..Len(T) : j < Len(T) =>
               /\ Cells(T[j + 1], file.prop) \in Seq(Nat)
               /\ Len(Cells(T[j + 1], file.prop)) = Len(EncodeToken(T[j + 1]))
               /\ Encode(Blanked(Front(T, j + 1), file.prop)) =
                    Encode(Blanked(Front(T, j), file.prop)) \o Cells(T[j + 1], file.prop)
        BY <2>2, BlankedCells
      <4>2. /\ Cells(T[k + 1], file.prop) \in Seq(Nat)
            /\ Len(Cells(T[k + 1], file.prop)) = Len(EncodeToken(T[k + 1]))
            /\ Encode(Blanked(Front(T, k + 1), file.prop)) =
                 Encode(Blanked(Front(T, k), file.prop)) \o Cells(T[k + 1], file.prop)
        BY <2>7, <4>1, Zenon
      <4>3. QED
        BY <2>5, <3>1, <3>2, <4>2, Zenon
    <3>7. ASSUME pos' = pos + Len(w), out' \in Seq(Nat), Len(out') = Len(out),
                 \A i \in 1..pos : out'[i] = out[i],
                 \A i \in 1..Len(w) : out'[pos + i] = cells[i],
                 \A i \in pos + Len(w) + 1..Len(out) : out'[i] = out[i]
          PROVE  /\ k + 1 \in 0..Len(T) /\ pos' = Place(T, k + 1)
                 /\ Lies(out', 0, Encode(Blanked(Front(T, k + 1), file.prop)))
                 /\ \A i \in pos' + 1..Len(out') : out'[i] = blk[i]
      <4>1. k + 1 \in 0..Len(T)
        BY <2>3, <2>7
      <4>2. pos' = Place(T, k + 1)
        BY <2>3, <2>4, <2>7, <3>1, <3>2, <3>7, EncodeFront, Zenon
      <4>3. Lies(out', 0, done \o cells)
        <5>1. /\ Len(done \o cells) = Len(done) + Len(cells)
              /\ \A i \in 1..Len(done) : (done \o cells)[i] = done[i]
              /\ \A i \in 1..Len(cells) : (done \o cells)[Len(done) + i] = cells[i]
          BY Concats, SMTT(60)
        <5>2. 0 + Len(done \o cells) <= Len(out')
          BY <2>5, <3>3, <3>4, <3>6, <3>7, <5>1
        <5>3. ASSUME NEW i \in 1..Len(done \o cells) PROVE out'[0 + i] = (done \o cells)[i]
          <6>1. Len(done \o cells) = pos + Len(w)
            BY <2>5, <3>6, <5>1
          <6>2. CASE i \in 1..pos
            <7>1. i \in 1..Len(done) /\ 0 + i = i
              BY <2>5, <6>2
            <7>2. (done \o cells)[i] = done[i]
              BY <5>1, <7>1
            <7>3. done[i] = out[i] /\ out[i] = out'[i]
              BY <2>5, <3>7, <6>2
            <7>4. QED
              BY <7>1, <7>2, <7>3
          <6>3. CASE i \notin 1..pos
            <7>1. i - pos \in 1..Len(w) /\ pos + (i - pos) = i
              <8>1. pos \in Nat /\ Len(w) \in Nat
                BY <2>5, <3>3, Zenon
              <8>2. i \in 1..pos + Len(w)
                BY <6>1
              <8>3. QED
                BY <6>3, <8>1, <8>2
            <7>2. out'[i] = cells[i - pos] /\ (done \o cells)[i] = cells[i - pos]
              BY <2>5, <3>6, <3>7, <5>1, <7>1, ZenonT(60)
            <7>3. QED
              BY <7>2, SMTT(60)
          <6>4. QED
            BY <6>2, <6>3
        <5>4. QED
          BY <5>2, <5>3 DEF Lies
      <4>4. \A i \in pos' + 1..Len(out') : out'[i] = blk[i]
        <5>1. \A i \in pos' + 1..Len(out') : i \in pos + Len(w) + 1..Len(out) /\ i \in pos + 1..Len(out)
          BY <2>5, <3>3, <3>7
        <5>2. QED
          BY <2>4, <3>7, <5>1
      <4>5. QED
        BY <3>6, <4>1, <4>2, <4>3, <4>4
    <3>8. ASSUME pc' \in {"extcon", "idle"}, pos' = pos + Len(w),
                 out' \in Seq(Nat), Len(out') = Len(out),
                 \A i \in 1..pos : out'[i] = out[i],
                 \A i \in 1..Len(w) : out'[pos + i] = cells[i],
                 \A i \in pos + Len(w) + 1..Len(out) : out'[i] = out[i]
          PROVE  ExtconWalk'
      <4>1. /\ k + 1 \in 0..Len(T) /\ pos' = Place(T, k + 1)
            /\ Lies(out', 0, Encode(Blanked(Front(T, k + 1), file.prop)))
            /\ \A i \in pos' + 1..Len(out') : out'[i] = blk[i]
        BY <3>7, <3>8
      <4>2. Len(out') = Len(Encode(T))
        BY <2>2, <2>4, <3>8
      <4>3. QED
        BY <1>2, <2>1, <2>2, <3>8, <4>1, <4>2 DEF ExtconWalk, ExtconAt
    <3>9. /\ t.kind \in {"node", "end", "prop", "nop", "stop"}
          /\ t.kind = "node" => w[1] = 1
          /\ t.kind = "end"  => w[1] = 2
          /\ t.kind = "prop" => w[1] = 3
          /\ t.kind = "nop"  => w[1] = 4
          /\ t.kind = "stop" => w[1] = 9
          /\ t.kind \in {"end", "nop", "stop"} => Len(w) = 1
      BY <3>2, FirstCell, CodesApart
    <3>10. ASSUME cells = w, out' = out, pos' = pos + Len(w)
           PROVE  /\ pc' \in {"extcon", "idle"} => ExtconWalk'
                  /\ Lies(out', 0, Encode(Blanked(Front(T, k + 1), file.prop)))
      <4>1. \A i \in 1..Len(w) : out'[pos + i] = cells[i]
        BY <3>4, <3>10 DEF Lies
      <4>2. /\ out' \in Seq(Nat) /\ Len(out') = Len(out)
            /\ \A i \in 1..pos : out'[i] = out[i]
            /\ \A i \in pos + Len(w) + 1..Len(out) : out'[i] = out[i]
        BY <2>5, <3>10
      <4>3. QED
        BY <3>7, <3>8, <3>10, <4>1, <4>2
    <3>11. t.kind # "prop" => cells = w
      BY <3>2, <3>6 DEF Cells
    <3>12. CASE ExtconBeginNode
      <4>1. t.kind = "node"
        BY <3>5, <3>9, <3>12, CodesApart DEF ExtconBeginNode, AtToken
      <4>2. NulsFrom(out, pos + 1) # {} /\ NulIndex(out, pos + 1) = pos + Len(w)
        <5>1. Lies(out, pos, EncodeToken(t))
          BY <3>2, <3>4
        <5>2. QED
          BY <2>5, <3>2, <4>1, <5>1, NodeLies, ZenonT(60)
      <4>3. pos' = pos + Len(w) /\ out' = out /\ pc' = "extcon"
        BY <3>12, <4>2 DEF ExtconBeginNode
      <4>4. QED
        BY <3>10, <3>11, <4>1, <4>3
    <3>13. CASE ExtconSkipToken
      <4>1. t.kind \in {"end", "nop"}
        BY <3>5, <3>9, <3>13, CodesApart, SMTT(60) DEF ExtconSkipToken, AtToken
      <4>2. pos' = pos + Len(w) /\ out' = out /\ pc' = "extcon"
        BY <3>9, <3>13, <4>1 DEF ExtconSkipToken
      <4>3. QED
        BY <3>10, <3>11, <4>1, <4>2
    <3>14. CASE ExtconProp
      <4>1. t.kind = "prop"
        BY <3>5, <3>9, <3>14, CodesApart DEF ExtconProp, AtToken
      <4>2. /\ pos + 3 <= Len(out) /\ out[pos + 2] = t.len /\ out[pos + 3] = t.off
            /\ pos + 3 + Words(t.len) = pos + Len(w)
        <5>1. Lies(out, pos, EncodeToken(t)) /\ IsToken(strings, t)
          BY <3>2, <3>4
        <5>2. out \in Seq(Nat) /\ pos \in Nat
          BY <2>5
        <5>3. /\ pos + 3 <= Len(out) /\ out[pos + 2] = t.len /\ out[pos + 3] = t.off
              /\ pos + 3 + Words(t.len) = pos + Len(EncodeToken(t))
          BY <4>1, <5>1, <5>2, PropLies
        <5>4. QED
          BY <3>2, <5>3
      <4>3. NulsFrom(strings, t.off) # {} /\ NameAt(strings, t.off) = t.name
        BY <3>2, <4>1 DEF IsToken
      <4>4. PropEnd = pos + Len(w) /\ ~(pos + 3 > Len(out)) /\ ~(PropEnd > Len(out))
        <5>1. PropEnd = pos + Len(w)
          BY <4>2, Zenon DEF PropEnd
        <5>2. Len(out) \in Nat
          BY <2>5
        <5>3. ~(pos + 3 > Len(out))
          BY <2>5, <4>2, <5>2
        <5>4. ~(pos + Len(w) > Len(out))
          BY <2>5, <3>3, <3>4, <5>2
        <5>5. QED
          BY <5>1, <5>3, <5>4
      <4>5. SubSeq(NameStrings, out[pos + 3] + 1, NulIndex(NameStrings, out[pos + 3])) = t.name
        BY <2>2, <4>2, <4>3 DEF NameAt
      <4>6. CASE t.name # file.prop
        <5>1. pos' = pos + Len(w) /\ out' = out /\ pc' = "extcon"
          BY <2>2, <3>14, <4>2, <4>3, <4>4, <4>5, <4>6 DEF ExtconProp
        <5>2. cells = w
          BY <3>2, <3>6, <4>6 DEF Cells
        <5>3. QED
          BY <3>10, <5>1, <5>2
      <4>7. CASE t.name = file.prop
        <5>1. pos' = pos + Len(w) /\ out' = NopOut(out, pos, pos + Len(w)) /\ pc' = "extcon"
          BY <2>2, <3>14, <4>2, <4>3, <4>4, <4>5, <4>7 DEF ExtconProp
        <5>2. cells = NopCells(Len(w))
          BY <3>2, <3>6, <4>1, <4>7 DEF Cells
        <5>3. /\ out' \in Seq(Nat) /\ Len(out') = Len(out)
              /\ \A i \in 1..Len(out) :
                   out'[i] = IF i > pos /\ i <= pos + Len(w) THEN NOP ELSE out[i]
          <6>1. \A i \in 1..Len(out) :
                  out'[i] = IF i > pos /\ i <= pos + Len(w) THEN NOP ELSE out[i]
            BY <5>1 DEF NopOut
          <6>2. NOP \in Nat /\ \A i \in 1..Len(out) : out[i] \in Nat
            BY <2>5, ElementsOf DEF NOP
          <6>3. \A i \in 1..Len(out) : out'[i] \in Nat
            BY <6>1, <6>2
          <6>4. out' \in [1..Len(out) -> Nat]
            BY <5>1, <6>3 DEF NopOut
          <6>5. Len(out) \in Nat
            BY <2>5
          <6>6. QED
            BY <6>1, <6>4, <6>5, FunctionIsSeq, Zenon
        <5>4. \A i \in 1..pos : out'[i] = out[i]
          <6>3. pos \in Nat /\ Len(out) \in Nat /\ pos <= Len(out)
            BY <2>4, <2>5
          <6>1. \A i \in 1..pos : i \in 1..Len(out) /\ ~(i > pos)
            BY <6>3
          <6>2. QED
            BY <5>3, <6>1
        <5>5. \A i \in 1..Len(w) : out'[pos + i] = cells[i]
          <6>1. \A i \in 1..Len(w) : /\ pos + i \in 1..Len(out) /\ pos + i > pos
                                      /\ pos + i <= pos + Len(w)
            <7>1. /\ pos \in Nat /\ Len(out) \in Nat /\ Len(w) \in Nat
                  /\ pos + Len(w) <= Len(out)
              BY <2>5, <3>3, <3>4
            <7>2. QED
              BY <7>1
          <6>2. \A i \in 1..Len(w) : cells[i] = NOP
            BY <5>2 DEF NopCells
          <6>3. QED
            BY <5>3, <6>1, <6>2
        <5>6. \A i \in pos + Len(w) + 1..Len(out) : out'[i] = out[i]
          <6>3. pos \in Nat /\ Len(out) \in Nat /\ Len(w) \in Nat
            BY <2>5, <3>3
          <6>1. \A i \in pos + Len(w) + 1..Len(out) : i \in 1..Len(out) /\ ~(i <= pos + Len(w))
            BY <6>3
          <6>2. QED
            BY <5>3, <6>1
        <5>7. QED
          BY <3>8, <5>1, <5>3, <5>4, <5>5, <5>6
      <4>8. QED
        BY <4>6, <4>7
    <3>15. CASE ExtconUnknownToken
      <4>1. FALSE
        BY <3>5, <3>9, <3>15, CodesApart DEF ExtconUnknownToken
      <4>2. QED
        BY <4>1
    <3>16. CASE ExtconEnd
      <4>1. out[pos + 1] = END /\ pos' = pos + 1 /\ out' = out /\ pc' = "extcon_write"
        <5>1. ~(pos >= Len(out))
          BY <2>5, <3>3
        <5>2. QED
          BY <3>16, <5>1 DEF ExtconEnd, AtToken
      <4>2. t.kind = "stop"
        BY <3>5, <3>9, <4>1, CodesApart
      <4>3. Len(w) = 1 /\ k + 1 = Len(T)
        BY <3>3, <3>9, <4>2
      <4>4. Lies(out, 0, Encode(Blanked(T, file.prop))) /\ cells = w
        <5>1. Front(T, k + 1) = T
          BY <2>3, <4>3, Fronts
        <5>2. QED
          BY <3>10, <3>11, <4>1, <4>2, <4>3, <5>1
      <4>5. PICK all \in Seq(Nat) : all = Encode(Blanked(T, file.prop)) /\ Len(all) = Len(out)
        <5>1. Encode(Blanked(T, file.prop)) = done \o cells
          BY <2>3, <3>6, <4>3, Fronts
        <5>2. done \o cells \in Seq(Nat) /\ Len(done \o cells) = Len(done) + Len(cells)
          BY Concats, Zenon
        <5>3. Place(T, k + 1) = Place(T, k) + Len(w)
          BY <2>3, <2>7, <3>1, <3>2, EncodeFront, Zenon
        <5>4. Place(T, k + 1) = Len(blk)
          BY <2>2, <2>3, <4>3, Fronts DEF Place
        <5>5. QED
          BY <2>4, <2>5, <3>6, <5>1, <5>2, <5>3, <5>4
      <4>6. \A i \in 1..Len(all) : out[i] = all[i]
        BY <4>4, <4>5 DEF Lies
      <4>7. out = all
        BY <2>5, <4>5, <4>6, SameElements
      <4>8. QED
        BY <1>2, <2>1, <4>1, <4>5, <4>7 DEF ExtconWalk
    <3>17. QED
      BY <1>1, <3>12, <3>13, <3>14, <3>15, <3>16
  <2>8. QED
    BY <2>3, <2>6, <2>7
<1>5. QED
  BY <1>3, <1>4

-------------------------------------------------------------------------------
(* The lines of a tree                                                         *)

\* What a token does to the depth, and what its line is, if it has one.
Deeper(t) == IF t.kind = "node" THEN 1 ELSE IF t.kind = "end" THEN -1 ELSE 0
DepthTo(tree, k) == SumOf([j \in 1..k |-> Deeper(tree[j])], k)
LineAt(tree, k, d) ==
    IF tree[k].kind \in {"node", "end", "prop"}
    THEN << [depth |-> d, kind |-> tree[k].kind,
             name |-> IF tree[k].kind = "end" THEN << >> ELSE tree[k].name,
             value |-> IF tree[k].kind = "prop" THEN Shown(tree[k].val) ELSE << >>] >>
    ELSE << >>
LinesTo(tree, k) == JoinOf([j \in 1..k |-> LineAt(tree, j, DepthAt(tree, j))], k)

\* The depth of a line is that of the tokens up to it; a node is inside of itself,
\* and its line is not.
LEMMA DepthAsSum ==
  ASSUME NEW tree, NEW k \in Nat
  PROVE  /\ DepthAt(tree, k) = IF tree[k].kind = "node" THEN DepthTo(tree, k) - 1
                               ELSE DepthTo(tree, k)
         /\ DepthTo(tree, 0) = 0
         /\ DepthTo(tree, k + 1) = DepthTo(tree, k) + Deeper(tree[k + 1])
<1> DEFINE g == [j \in 1..k |-> Deeper(tree[j])]
           h == [j \in 1..k + 1 |-> Deeper(tree[j])]
           body(f) == [j \in 0..k |->
                         IF j = 0 THEN 0
                         ELSE f[j - 1] + (IF tree[j].kind = "node" THEN 1
                                          ELSE IF tree[j].kind = "end" THEN -1 ELSE 0)]
<1>1. DepthAt(tree, k) = IF tree[k].kind = "node" THEN (CHOOSE f : f = body(f))[k] - 1
                         ELSE (CHOOSE f : f = body(f))[k]
  BY DEF DepthAt
<1>2. ASSUME NEW f PROVE body(f) = Summed(g, k, f)
  <2>1. ASSUME NEW j \in 0..k, j # 0 PROVE g[j] = Deeper(tree[j])
    <3>1. j \in 1..k
      BY <2>1
    <3>2. QED
      BY <3>1
  <2>2. ASSUME NEW j \in 0..k PROVE body(f)[j] = Summed(g, k, f)[j]
    BY <2>1 DEF Summed, Deeper
  <2>3. QED
    BY <2>2 DEF Summed
<1>3. \A j \in 1..k : j \in 1..k + 1
  OBVIOUS
<1>4. (\A j \in 1..k : g[j] = h[j]) /\ h[k + 1] = Deeper(tree[k + 1])
  BY <1>3
<1>5. DepthTo(tree, k) = SumOf(g, k) /\ DepthTo(tree, k + 1) = SumOf(h, k + 1)
  BY DEF DepthTo
<1> HIDE DEF body, g, h
<1>6. (CHOOSE f : f = body(f)) = (CHOOSE f : f = Summed(g, k, f))
  BY <1>2
<1>7. DepthTo(tree, 0) = 0
  BY SumOfNone, Zenon DEF DepthTo
<1>8. SumOf(h, k + 1) = SumOf(g, k) + h[k + 1]
  BY <1>4, SumOfNext
<1>9. (CHOOSE f : f = body(f))[k] = DepthTo(tree, k)
  BY <1>5, <1>6 DEF SumOf
<1>10. QED
  BY <1>1, <1>4, <1>5, <1>7, <1>8, <1>9

\* What is to be written of a tree is the lines of its tokens.
LEMMA RenderAsLines ==
  ASSUME NEW S, NEW tree \in Seq(S)
  PROVE  /\ Render(tree) = LinesTo(tree, Len(tree)) /\ LinesTo(tree, 0) = << >>
         /\ \A k \in Nat :
              LinesTo(tree, k + 1) =
                LinesTo(tree, k) \o LineAt(tree, k + 1, DepthAt(tree, k + 1))
<1> DEFINE n == Len(tree)
           L(j) == LineAt(tree, j, DepthAt(tree, j))
           g == [j \in 1..n |-> L(j)]
           body(f) == [k \in 0..n |->
             IF k = 0 THEN << >>
             ELSE f[k - 1] \o
               (IF tree[k].kind \in {"node", "end", "prop"}
                THEN << [depth |-> DepthAt(tree, k), kind |-> tree[k].kind,
                         name |-> IF tree[k].kind = "end" THEN << >> ELSE tree[k].name,
                         value |-> IF tree[k].kind = "prop" THEN Shown(tree[k].val) ELSE << >>] >>
                ELSE << >>)]
<1>1. Render(tree) = (CHOOSE f : f = body(f))[n]
  BY Zenon DEF Render
<1>2. n \in Nat
  OBVIOUS
<1>3. ASSUME NEW f PROVE body(f) = Joined(g, n, f)
  <2>1. ASSUME NEW k \in 0..n, k # 0 PROVE g[k] = L(k)
    <3>1. k \in 1..n
      BY <1>2, <2>1
    <3>2. QED
      BY <3>1, Zenon
  <2>2. ASSUME NEW k \in 0..n PROVE body(f)[k] = Joined(g, n, f)[k]
    BY <2>1 DEF Joined, LineAt
  <2>3. QED
    BY <2>2 DEF Joined
<1> HIDE DEF body, L
<1>4. (CHOOSE f : f = body(f)) = (CHOOSE f : f = Joined(g, n, f))
  BY <1>3
<1>5. Render(tree) = LinesTo(tree, n)
  BY <1>1, <1>4 DEF JoinOf, LinesTo, L
<1>6. LinesTo(tree, 0) = << >>
  BY JoinOfNone, Zenon DEF LinesTo
<1>7. ASSUME NEW k \in Nat
      PROVE  LinesTo(tree, k + 1) =
                LinesTo(tree, k) \o LineAt(tree, k + 1, DepthAt(tree, k + 1))
  <2> DEFINE a == [j \in 1..k |-> L(j)]
             b == [j \in 1..k + 1 |-> L(j)]
  <2>1. \A j \in 1..k : j \in 1..k + 1
    OBVIOUS
  <2>2. (\A j \in 1..k : a[j] = b[j]) /\ b[k + 1] = L(k + 1)
    BY <2>1
  <2>3. LinesTo(tree, k) = JoinOf(a, k) /\ LinesTo(tree, k + 1) = JoinOf(b, k + 1)
    BY DEF LinesTo, L
  <2> HIDE DEF a, b
  <2>4. JoinOf(b, k + 1) = JoinOf(a, k) \o b[k + 1]
    BY <2>2, JoinOfNext
  <2>5. QED
    BY <2>2, <2>3, <2>4 DEF L
<1>8. QED
  BY <1>5, <1>6, <1>7

\* A text that a number follows ends there.
LEMMA EndOfText ==
  ASSUME NEW val \in Seq(Nat), NEW m \in 1..Len(val),
         \A k \in 1..m : val[k] \in 100..999, \A k \in 1..m - 1 : val[k] \notin Nul,
         val[m + 1] < 100
  PROVE  m \in TextEnds(val)
BY DEF TextEnds

\* The first text of a value is shown if there is one, and the value if there is
\* none: what render_prop() looks for is what ends as a text ends.
LEMMA ShownValue ==
  ASSUME NEW val \in Seq(Nat)
  PROVE  render_prop(val) = Shown(val)
<1> DEFINE text == FirstText(val)
<1>1. PICK n \in Nat : n = Len(val) /\ DOMAIN val = 1..n /\ \A k \in 1..n : val[k] \in Nat
  <2>1. \A k \in 1..Len(val) : val[k] \in Nat
    BY ElementsOf, Zenon
  <2>2. QED
    BY <2>1
<1>2. ASSUME NEW m \in 1..n
      PROVE  /\ SubSeq(val, 1, m) \in Seq(Nat) /\ Len(SubSeq(val, 1, m)) = m
             /\ SubSeq(val, 1, m) # << >>
             /\ DOMAIN SubSeq(val, 1, m) = 1..m
             /\ \A k \in 1..m : SubSeq(val, 1, m)[k] = val[k]
  BY <1>1
<1>3. \A m : m \in TextEnds(val) <=>
         /\ m \in 1..n
         /\ \A k \in 1..m : val[k] \in 100..999
         /\ \A k \in 1..m - 1 : val[k] \notin Nul
         /\ val[m] \in Nul \/ m = n \/ val[m + 1] < 100
  BY <1>1 DEF TextEnds
<1>4. ASSUME NEW e \in 0..n,
             text = SubSeq(val, 1, e),
             \A m \in TextEnds(val) : m = e,
             e > 0 /\ (\A k \in 1..e : val[k] \in 100..999) => e \in TextEnds(val)
      PROVE  render_prop(val) = Shown(val)
  <2>1. CASE e \in TextEnds(val)
    <3>1. e \in 1..n /\ \A k \in 1..e : val[k] \in 100..999
      BY <1>3, <2>1
    <3>2. text # << >> /\ Texts(text)
      <4>1. /\ SubSeq(val, 1, e) # << >> /\ DOMAIN SubSeq(val, 1, e) = 1..e
            /\ \A k \in 1..e : SubSeq(val, 1, e)[k] = val[k]
        BY <1>2, <3>1, ZenonT(60)
      <4>2. text # << >> /\ DOMAIN text = 1..e /\ \A k \in 1..e : text[k] = val[k]
        BY <1>4, <4>1, Zenon
      <4>3. ASSUME NEW k \in DOMAIN text PROVE text[k] \in 100..999
        <5>1. k \in 1..e
          BY <4>2
        <5>2. text[k] = val[k] /\ val[k] \in 100..999
          BY <3>1, <4>2, <5>1
        <5>3. QED
          BY <5>2, ZenonT(60)
      <4>4. QED
        BY <4>2, <4>3, Zenon DEF Texts
    <3>3. render_prop(val) = <<"text", text>>
      BY <3>2 DEF render_prop
    <3>4. (CHOOSE m \in TextEnds(val) : TRUE) = e
      BY <1>4, <2>1
    <3>5. Shown(val) = <<"text", SubSeq(val, 1, e)>>
      BY <2>1, <3>4 DEF Shown
    <3>6. QED
      BY <1>4, <3>3, <3>5
  <2>2. CASE e \notin TextEnds(val)
    <3>1. TextEnds(val) = {}
      BY <1>4, <2>2
    <3>2. ~(text # << >> /\ Texts(text))
      <4>1. CASE e = 0
        BY <1>4, <4>1
      <4>2. CASE e # 0
        <5>1. e \in 1..n /\ ~(\A k \in 1..e : val[k] \in 100..999)
          BY <1>4, <2>2, <4>2
        <5>2. ~Texts(text)
          <6>1. /\ DOMAIN SubSeq(val, 1, e) = 1..e
                /\ \A k \in 1..e : SubSeq(val, 1, e)[k] = val[k]
            BY <1>2, <5>1, ZenonT(60)
          <6>2. DOMAIN text = 1..e /\ \A k \in 1..e : text[k] = val[k]
            BY <1>4, <6>1, Zenon
          <6>3. QED
            <7>1. PICK k \in 1..e : val[k] \notin 100..999
              BY <5>1
            <7>2. text[k] = val[k] /\ k \in DOMAIN text
              BY <6>2, <7>1
            <7>3. text[k] \notin 100..999
              BY <7>1, <7>2, ZenonT(60)
            <7>4. QED
              BY <7>2, <7>3, ZenonT(60) DEF Texts
        <5>3. QED
          BY <5>2
      <4>3. QED
        BY <4>1, <4>2
    <3>3. render_prop(val) = <<IF val = << >> THEN "text" ELSE "cells", val>>
      BY <3>2 DEF render_prop
    <3>4. QED
      BY <3>1, <3>3 DEF Shown
  <2>3. QED
    BY <2>1, <2>2
<1>5. CASE NulsFrom(val, 0) = {}
  <2>1. \A k \in 1..n : ~HasNul(val[k])
    BY <1>1, <1>5 DEF NulsFrom
  <2>2. \A k \in 1..n : ~(val[k] < 100) /\ val[k] \notin Nul
    BY <2>1 DEF HasNul
  <2>3. text = SubSeq(val, 1, n)
    <3>1. SubSeq(val, 1, n) = val
      BY <1>1
    <3>2. QED
      BY <1>5, <3>1 DEF FirstText
  <2>4. ASSUME NEW m \in TextEnds(val) PROVE m = n
    <3>1. m \in 1..n /\ (val[m] \in Nul \/ m = n \/ val[m + 1] < 100)
      BY <1>3
    <3>2. m # n => m + 1 \in 1..n
      BY <3>1
    <3>3. QED
      BY <2>2, <3>1, <3>2
  <2>5. ASSUME n > 0, \A k \in 1..n : val[k] \in 100..999 PROVE n \in TextEnds(val)
    <3>1. n \in 1..n /\ \A k \in 1..n - 1 : k \in 1..n
      BY <2>5
    <3>2. QED
      BY <1>3, <2>2, <2>5, <3>1, ZenonT(60)
  <2>6. n \in 0..n
    OBVIOUS
  <2>7. QED
    BY <1>4, <2>3, <2>4, <2>5, <2>6, ZenonT(60)
<1>6. CASE NulsFrom(val, 0) # {}
  <2>1. PICK k : k = NulIndex(val, 0)
    OBVIOUS
  <2>2. k \in 1..n /\ HasNul(val[k]) /\ \A j \in 1..n : HasNul(val[j]) => k <= j
    BY <1>1, <1>6, <2>1, NulIndexInBlock
  <2>3. \A j \in 1..n : j < k => ~(val[j] < 100) /\ val[j] \notin Nul
    BY <2>2 DEF HasNul
  <2>4. CASE val[k] < 100
    <3>1. text = SubSeq(val, 1, k - 1)
      BY <1>6, <2>1, <2>4 DEF FirstText
    <3>2. ASSUME NEW m \in TextEnds(val) PROVE m = k - 1
      <4>1. /\ m \in 1..n /\ \A j \in 1..m : val[j] \in 100..999
            /\ (val[m] \in Nul \/ m = n \/ val[m + 1] < 100)
        BY <1>3
      <4>2. m < k
        <5>1. SUFFICES ASSUME k \in 1..m PROVE FALSE
          BY <2>2, <4>1
        <5>2. val[k] \in 100..999
          BY <4>1, <5>1
        <5>3. QED
          <6>1. \A x \in Nat : x < 100 => x \notin 100..999
            OBVIOUS
          <6>2. val[k] \in Nat
            BY <1>1, <2>2, Zenon
          <6>3. QED
            BY <2>4, <5>2, <6>1, <6>2, ZenonT(60)
      <4>3. val[m + 1] < 100 /\ m + 1 \in 1..n
        BY <2>2, <2>3, <4>1, <4>2
      <4>4. ~(m + 1 < k)
        BY <2>3, <4>3
      <4>5. QED
        BY <2>2, <4>1, <4>2, <4>4
    <3>3. ASSUME k - 1 > 0, \A j \in 1..k - 1 : val[j] \in 100..999 PROVE k - 1 \in TextEnds(val)
      <4>1. k - 1 \in 1..n /\ (k - 1) + 1 = k
            /\ \A j \in 1..(k - 1) - 1 : j \in 1..n /\ j < k
        BY <1>1, <2>2, <3>3
      <4>2. \A j \in 1..(k - 1) - 1 : val[j] \notin Nul
        BY <2>3, <4>1, Zenon
      <4>3. val[(k - 1) + 1] < 100
        BY <2>4, <4>1, Zenon
      <4>4. PICK m : m = k - 1
        OBVIOUS
      <4>5. /\ m \in 1..Len(val) /\ \A j \in 1..m : val[j] \in 100..999
            /\ \A j \in 1..m - 1 : val[j] \notin Nul
            /\ val[m + 1] < 100
        BY <1>1, <3>3, <4>1, <4>2, <4>3, <4>4
      <4>6. m \in TextEnds(val)
        BY <4>5, EndOfText, SMT
      <4>7. QED
        BY <4>4, <4>6, Zenon
    <3>4. k - 1 \in 0..n
      BY <1>1, <2>2
    <3>5. QED
      BY <1>4, <3>1, <3>2, <3>3, <3>4, ZenonT(60)
  <2>5. CASE ~(val[k] < 100)
    <3>1. text = SubSeq(val, 1, k)
      BY <1>6, <2>1, <2>5 DEF FirstText
    <3>2. val[k] \in Nul
      BY <2>2, <2>5 DEF HasNul
    <3>3. ASSUME NEW m \in TextEnds(val) PROVE m = k
      <4>1. /\ m \in 1..n
            /\ \A j \in 1..m - 1 : val[j] \notin Nul
            /\ (val[m] \in Nul \/ m = n \/ val[m + 1] < 100)
        BY <1>3
      <4>2. ~(k < m)
        <5>1. k < m => k \in 1..m - 1
          BY <2>2, <4>1
        <5>2. QED
          BY <3>2, <4>1, <5>1
      <4>3. ~(m < k)
        <5>1. m < k => m + 1 \in 1..n /\ (m + 1 < k \/ m + 1 = k) /\ m # n
          BY <2>2, <4>1
        <5>2. QED
          BY <2>3, <2>5, <4>1, <5>1
      <4>4. QED
        BY <2>2, <4>1, <4>2, <4>3
    <3>4. ASSUME \A j \in 1..k : val[j] \in 100..999 PROVE k \in TextEnds(val)
      <4>1. \A j \in 1..k - 1 : j \in 1..n /\ j < k
        BY <1>1, <2>2
      <4>2. QED
        BY <1>3, <2>2, <2>3, <3>2, <3>4, <4>1, SMTT(60)
    <3>5. k \in 0..n
      BY <2>2
    <3>6. QED
      BY <1>4, <3>1, <3>3, <3>4, <3>5
  <2>6. QED
    BY <2>4, <2>5
<1>7. QED
  BY <1>5, <1>6

\* What lies in a block lies in the file that the block lies in.
LEMMA LiesInside ==
  ASSUME NEW d \in Seq(Nat), NEW b \in Seq(Nat), NEW w \in Seq(Nat), NEW p \in Nat, NEW q \in Nat,
         Lies(d, p, b), Lies(b, q, w)
  PROVE  Lies(d, p + q, w)
<1>1. /\ Len(d) \in Nat /\ Len(b) \in Nat /\ Len(w) \in Nat
      /\ p + Len(b) <= Len(d) /\ q + Len(w) <= Len(b)
      /\ \A i \in 1..Len(b) : d[p + i] = b[i]
      /\ \A i \in 1..Len(w) : b[q + i] = w[i]
  BY DEF Lies
<1>2. ASSUME NEW i \in 1..Len(w) PROVE d[p + q + i] = w[i]
  <2>1. q + i \in 1..Len(b) /\ p + (q + i) = p + q + i
    BY <1>1
  <2>2. QED
    BY <1>1, <2>1
<1>3. p + q + Len(w) <= Len(d)
  BY <1>1
<1>4. QED
  BY <1>2, <1>3 DEF Lies

\* A line is added behind the lines that have been written.
LEMMA LinesNext ==
  ASSUME NEW L, NEW lines \in Seq(L), NEW line
  PROVE  /\ Append(lines, line) = lines \o <<line>> /\ lines \o << >> = lines
         /\ Append(lines, line) \in Seq(L \cup {line})
<1>1. lines \in Seq(L \cup {line}) /\ line \in L \cup {line}
  OBVIOUS
<1>2. QED
  BY <1>1

\* fdt2dts.py stands before a token, at its depth, and has written the lines of those
\* before it.
DumpAt(tree) ==
    \E k \in 0..Len(tree) :
        /\ pos = Data[OFF_STRUCT] + Place(tree, k) /\ depth = DepthTo(tree, k)
        /\ out = LinesTo(tree, k)
DumpWalk ==
    pc = "dump" => /\ \E L : out \in Seq(L)
                   /\ Walked.tree # None => DumpAt(Walked.tree)

\* While it walks over a tree, fdt2dts.py goes from token to token, and it has all the
\* lines when it has come to the end.
LEMMA DumpWalks ==
  ASSUME TypeInv, TreesInv, DumpWalk, DumpShowsTree, pc = "dump", DumpStep
  PROVE  DumpWalk' /\ DumpShowsTree'
<1>1. /\ UNCHANGED <<dir, file>> /\ pc' \in {"dump", "idle"}
      /\ \/ DumpBeginNode /\ UNCHANGED dts
         \/ DumpEndNode /\ UNCHANGED dts
         \/ DumpProp /\ UNCHANGED dts
         \/ DumpNop /\ UNCHANGED dts
         \/ DumpPastEnd /\ UNCHANGED dts
         \/ DumpEnd
  BY DEF DumpStep, OpenDump, DumpBeginNode, DumpEndNode, DumpProp, DumpNop, DumpPastEnd,
         DumpEnd, DumpUnchanged, Exit
<1>2. Walked' = Walked /\ file' = file /\ Data' = Data
  BY <1>1 DEF Walked, Data
<1>3. PICK L : out \in Seq(L)
  BY DEF DumpWalk
<1>4. (UNCHANGED dts) => DumpShowsTree'
  BY DEF DumpShowsTree
<1>5. ASSUME DumpEnd, Walked.tree # None => out = Render(Walked.tree)
      PROVE  DumpWalk' /\ DumpShowsTree'
  <2>1. pc' = "idle" /\ dts' = Put(dts, file.to, [lines |-> out, tree |-> Walked.tree])
    BY <1>5 DEF DumpEnd, Exit, Walked
  <2>2. ASSUME NEW d \in DOMAIN dts', dts'[d].tree # None
        PROVE  dts'[d].lines = Render(dts'[d].tree)
    <3>1. CASE d = file.to
      <4>1. dts'[d].lines = out /\ dts'[d].tree = Walked.tree
        BY <2>1, <3>1 DEF Put
      <4>2. QED
        BY <1>5, <2>2, <4>1
    <3>2. CASE d # file.to
      <4>1. d \in DOMAIN dts /\ dts'[d] = dts[d]
        BY <2>1, <2>2, <3>2 DEF Put
      <4>2. QED
        BY <2>2, <4>1 DEF DumpShowsTree
    <3>3. QED
      BY <3>1, <3>2
  <2>3. QED
    BY <2>1, <2>2 DEF DumpWalk, DumpShowsTree
<1>6. CASE Walked.tree = None
  <2>1. CASE DumpEnd
    BY <1>5, <1>6, <2>1
  <2>2. CASE ~DumpEnd
    <3>1. UNCHANGED out \/ \E line : out' = Append(out, line)
      BY <1>1, <2>2
         DEF DumpBeginNode, DumpEndNode, DumpProp, DumpNop, DumpPastEnd
    <3>2. \E K : out' \in Seq(K)
      <4>1. CASE UNCHANGED out
        BY <1>3, <4>1
      <4>2. CASE \E line : out' = Append(out, line)
        <5>1. PICK line : out' = Append(out, line)
          BY <4>2
        <5>2. out' \in Seq(L \cup {line})
          BY <1>3, <5>1, LinesNext
        <5>3. QED
          BY <5>2
      <4>3. QED
        BY <3>1, <4>1, <4>2
    <3>3. QED
      BY <1>1, <1>2, <1>4, <1>6, <2>2, <3>2 DEF DumpWalk
  <2>3. QED
    BY <2>1, <2>2
<1>7. CASE Walked.tree # None
  <2>1. PICK T : T = Walked.tree
    OBVIOUS
  <2>2. PICK c \in Seq(Nat), strings \in Seq(Nat), blk \in Seq(Nat) :
          /\ c = Data /\ strings = strings_blk(Data) /\ blk = Encode(T) /\ HasTokens(strings, T)
          /\ MapBefore(c) /\ BlocksApart(c) /\ struct_blk(c) = blk
    <3>1. pc \in Walks
      BY DEF Walks
    <3>2. /\ Data \in Seq(Nat) /\ MapBefore(Data) /\ BlocksApart(Data)
          /\ HasTokens(strings_blk(Data), Walked.tree) /\ struct_blk(Data) = Encode(Walked.tree)
          /\ strings_blk(Data) \in Seq(Nat)
      BY <1>7, <3>1, WalkedTree DEF Data
    <3>3. Encode(Walked.tree) \in Seq(Nat)
      BY <3>2, Described1
    <3>4. QED
      BY <2>1, <3>2, <3>3
  <2>3. PICK so \in Nat, size \in Nat :
          /\ so = c[OFF_STRUCT] /\ size = c[SIZE_STRUCT] /\ so = Data[OFF_STRUCT]
          /\ Len(blk) = size /\ so + size <= Len(c) /\ Lies(c, so, blk)
          /\ BlockEnd = so + size
    BY <2>2, Described1 DEF BlockEnd
  <2>4. T \in Seq(Tokens(T)) /\ Writable(Tokens(T)) /\ Len(T) \in Nat
    <3>1. T \in Seq(Tokens(T)) /\ Writable(Tokens(T))
      BY <2>2, TokensOf, Zenon
    <3>2. Len(T) \in Nat
      BY <3>1, Fronts, Zenon
    <3>3. QED
      BY <3>1, <3>2
  <2>5. PICK k \in 0..Len(T) :
          /\ pos = so + Place(T, k) /\ depth = DepthTo(T, k) /\ out = LinesTo(T, k)
    BY <1>7, <2>1, <2>3 DEF DumpWalk, DumpAt
  <2>6. PICK p \in Nat : p = Place(T, k) /\ pos = so + p
    BY <2>4, <2>5, EncodeFront, Zenon
  <2>7. depth \in Int /\ pos \in Nat /\ Len(c) \in Nat
    BY <2>2 DEF TypeInv, TypeOK
  <2>8. CASE k = Len(T)
    <3>1. p = size
      BY <2>2, <2>3, <2>4, <2>6, <2>8, Laid, Zenon
    <3>2. ~(pos < BlockEnd)
      BY <2>3, <2>6, <2>7, <3>1
    <3>3. DumpEnd
      BY <1>1, <3>2
         DEF DumpBeginNode, DumpEndNode, DumpProp, DumpNop, DumpPastEnd, More, Dumping
    <3>4. out = Render(T)
      BY <2>4, <2>5, <2>8, RenderAsLines
    <3>5. QED
      BY <1>5, <2>1, <3>3, <3>4
  <2>9. CASE k < Len(T)
    <3>1. PICK t : t = T[k + 1]
      OBVIOUS
    <3>2. PICK w \in Seq(Nat) : w = EncodeToken(t) /\ IsToken(strings, t)
      <4>1. EncodeToken(T[k + 1]) \in Seq(Nat)
        BY <2>4, <2>9, EncodeFront, Zenon
      <4>2. IsToken(strings, T[k + 1])
        BY <2>2, <2>9, TokensOf, Zenon
      <4>3. QED
        BY <3>1, <4>1, <4>2
    <3>3. /\ p < size /\ Lies(blk, p, w) /\ Len(w) \in Nat /\ Len(w) >= 1
          /\ t.kind = "stop" => k + 1 = Len(T)
      <4>1. p < size /\ Lies(blk, p, w)
        BY <2>2, <2>3, <2>4, <2>6, <2>9, <3>1, <3>2, Laid, Zenon
      <4>2. Len(w) \in Nat /\ Len(w) >= 1
        BY <2>4, <2>9, <3>1, <3>2, EncodeFront, Zenon
      <4>3. t.kind = "stop" => k + 1 = Len(T)
        BY <2>2, <2>9, <3>1, TokensOf, Zenon
      <4>4. QED
        BY <4>1, <4>2, <4>3
    <3>4. Lies(c, pos, w)
      BY <2>3, <2>6, <3>3, LiesInside
    <3>5. pos < BlockEnd /\ pos < Len(c) /\ Data[pos + 1] = w[1]
      <4>1. 1 \in 1..Len(w)
        BY <3>3
      <4>2. c[pos + 1] = w[1]
        BY <3>4, <4>1, Zenon DEF Lies
      <4>3. pos < BlockEnd /\ pos < Len(c)
        <5>1. so + size <= Len(c) /\ p < size /\ Len(c) \in Nat
          BY <2>3, <2>7, <3>3, Zenon
        <5>2. so + p < so + size /\ so + p < Len(c)
          BY <5>1
        <5>3. pos = so + p /\ BlockEnd = so + size
          BY <2>3, <2>6, Zenon
        <5>4. QED
          BY <5>2, <5>3
      <4>4. QED
        BY <2>2, <4>2, <4>3
    <3>6. /\ t.kind \in {"node", "end", "prop", "nop", "stop"}
          /\ t.kind = "node" => w[1] = 1
          /\ t.kind = "end"  => w[1] = 2
          /\ t.kind = "prop" => w[1] = 3
          /\ t.kind = "nop"  => w[1] = 4
          /\ t.kind = "stop" => w[1] = 9
          /\ t.kind \in {"end", "nop", "stop"} => Len(w) = 1
      BY <3>2, FirstCell, CodesApart
    <3>7. /\ DepthTo(T, k + 1) = depth + Deeper(t)
          /\ DepthAt(T, k + 1) = IF t.kind = "node" THEN depth ELSE depth + Deeper(t)
          /\ LinesTo(T, k + 1) = out \o LineAt(T, k + 1, DepthAt(T, k + 1))
      <4>1. k \in Nat /\ k + 1 \in Nat
        BY <2>4
      <4>2. DepthTo(T, k + 1) = depth + Deeper(t)
        BY <2>5, <3>1, <4>1, DepthAsSum
      <4>3. DepthAt(T, k + 1) = IF t.kind = "node" THEN DepthTo(T, k + 1) - 1 ELSE DepthTo(T, k + 1)
        BY <3>1, <4>1, DepthAsSum, Zenon
      <4>4. t.kind = "node" => (depth + Deeper(t)) - 1 = depth
        BY <2>7 DEF Deeper
      <4>5. LinesTo(T, k + 1) = out \o LineAt(T, k + 1, DepthAt(T, k + 1))
        BY <2>4, <2>5, <4>1, RenderAsLines
      <4>6. QED
        BY <4>2, <4>3, <4>4, <4>5
    <3>8. ASSUME pos' = pos + Len(w), depth' = depth + Deeper(t), UNCHANGED dts,
                 \/ /\ t.kind \in {"nop", "stop"} /\ out' = out
                 \/ /\ t.kind \in {"node", "end", "prop"}
                    /\ \E line : out' = Append(out, line)
                                 /\ <<line>> = LineAt(T, k + 1, DepthAt(T, k + 1))
          PROVE  DumpWalk' /\ DumpShowsTree'
      <4>1. k + 1 \in 0..Len(T)
        BY <2>4, <2>9
      <4>2. pos' = so + Place(T, k + 1)
        <5>1. Place(T, k + 1) = p + Len(w)
          BY <2>4, <2>6, <2>9, <3>1, <3>2, EncodeFront, Zenon
        <5>2. so + (p + Len(w)) = pos + Len(w)
          BY <2>6, <3>3
        <5>3. QED
          BY <3>8, <5>1, <5>2
      <4>3. depth' = DepthTo(T, k + 1)
        BY <3>7, <3>8
      <4>4. out' = LinesTo(T, k + 1) /\ \E K : out' \in Seq(K)
        <5>1. CASE t.kind \in {"nop", "stop"} /\ out' = out
          <6>1. LineAt(T, k + 1, DepthAt(T, k + 1)) = << >>
            BY <3>1, <5>1 DEF LineAt
          <6>2. out \o << >> = out
            BY <1>3, LinesNext
          <6>3. QED
            BY <1>3, <3>7, <5>1, <6>1, <6>2
        <5>2. ASSUME NEW line, out' = Append(out, line),
                     <<line>> = LineAt(T, k + 1, DepthAt(T, k + 1))
              PROVE  out' = LinesTo(T, k + 1) /\ \E K : out' \in Seq(K)
          <6>1. out' = out \o <<line>> /\ out' \in Seq(L \cup {line})
            BY <1>3, <5>2, LinesNext
          <6>2. QED
            BY <3>7, <5>2, <6>1
        <5>3. QED
          BY <3>8, <5>1, <5>2
      <4>5. QED
        BY <1>2, <1>4, <2>1, <2>3, <3>8, <4>1, <4>2, <4>3, <4>4 DEF DumpWalk, DumpAt
    <3>9. CASE DumpBeginNode /\ UNCHANGED dts
      <4>1. t.kind = "node"
        BY <3>5, <3>6, <3>9, CodesApart DEF DumpBeginNode, More
      <4>2. /\ NulsFrom(c, pos + 1) # {} /\ NulIndex(c, pos + 1) = pos + Len(w)
            /\ SubSeq(c, pos + 2, NulIndex(c, pos + 1)) = t.name
        BY <2>7, <3>2, <3>4, <4>1, NodeLies, Zenon
      <4>3. TextFrom(Data, pos + 1) = t.name /\ AfterText(Data, pos + 1) = pos + Len(w)
        <5>1. (pos + 1) + 1 = pos + 2
          BY <2>7
        <5>2. QED
          BY <2>2, <4>2, <5>1, Zenon DEF TextFrom, AfterText
      <4>4. PICK line : line = Line(depth, "node", t.name, << >>)
        OBVIOUS
      <4>5. /\ pos' = pos + Len(w) /\ depth' = depth + Deeper(t) /\ out' = Append(out, line)
        BY <3>9, <4>1, <4>3, <4>4 DEF DumpBeginNode, Deeper
      <4>6. <<line>> = LineAt(T, k + 1, DepthAt(T, k + 1))
        BY <3>1, <3>7, <4>1, <4>4 DEF Line, LineAt
      <4>7. QED
        BY <3>8, <3>9, <4>1, <4>5, <4>6
    <3>10. CASE DumpEndNode /\ UNCHANGED dts
      <4>1. t.kind = "end"
        BY <3>5, <3>6, <3>10, CodesApart DEF DumpEndNode, More
      <4>2. depth - 1 = depth + Deeper(t) /\ Len(w) = 1
        BY <2>7, <3>6, <4>1 DEF Deeper
      <4>3. PICK line : line = Line(depth + Deeper(t), "end", << >>, << >>)
        OBVIOUS
      <4>4. /\ pos' = pos + Len(w) /\ depth' = depth + Deeper(t) /\ out' = Append(out, line)
        BY <3>10, <4>2, <4>3, Zenon DEF DumpEndNode
      <4>5. <<line>> = LineAt(T, k + 1, DepthAt(T, k + 1))
        BY <3>1, <3>7, <4>1, <4>3 DEF Line, LineAt
      <4>6. QED
        BY <3>8, <3>10, <4>1, <4>4, <4>5
    <3>11. CASE DumpProp /\ UNCHANGED dts
      <4>1. t.kind = "prop"
        BY <3>5, <3>6, <3>11, CodesApart DEF DumpProp, More
      <4>2. /\ pos + 3 <= Len(c) /\ c[pos + 2] = t.len /\ c[pos + 3] = t.off
            /\ pos + 3 + Words(t.len) = pos + Len(w)
            /\ Slice(c, pos + 3, pos + 3 + Words(t.len)) = t.val
        <5>1. Lies(c, pos, EncodeToken(t))
          BY <3>2, <3>4
        <5>2. QED
          BY <2>7, <3>2, <4>1, <5>1, PropLies
      <4>3. NulsFrom(strings, t.off) # {} /\ NameAt(strings, t.off) = t.name /\ t.val \in Seq(Nat)
        BY <3>2, <4>1 DEF IsToken
      <4>4. TextFrom(strings_blk(Data), Data[pos + 3]) = t.name
        BY <2>2, <4>2, <4>3, Zenon DEF TextFrom, NameAt
      <4>5. PropNext = pos + Len(w) /\ Slice(Data, pos + 3, PropNext) = t.val
        BY <2>2, <4>2, Zenon DEF PropNext
      <4>6. ~(pos + 3 > Len(Data))
        BY <2>2, <2>7, <4>2
      <4>7. PICK line : line = Line(depth, "prop", t.name, render_prop(t.val))
        OBVIOUS
      <4>8. /\ pos' = pos + Len(w) /\ UNCHANGED depth /\ out' = Append(out, line)
        BY <3>11, <4>4, <4>5, <4>6, <4>7, Zenon DEF DumpProp
      <4>9. depth + Deeper(t) = depth
        BY <2>7, <4>1 DEF Deeper
      <4>10. line = [depth |-> depth, kind |-> "prop", name |-> t.name, value |-> Shown(t.val)]
        <5>1. render_prop(t.val) = Shown(t.val)
          BY <4>3, ShownValue
        <5>2. PICK value : value = render_prop(t.val)
          OBVIOUS
        <5>3. line = [depth |-> depth, kind |-> "prop", name |-> t.name, value |-> value]
          BY <4>7, <5>2 DEF Line
        <5>4. QED
          BY <5>1, <5>2, <5>3, Zenon
      <4>11. <<line>> = LineAt(T, k + 1, DepthAt(T, k + 1))
        BY <3>1, <3>7, <4>1, <4>9, <4>10 DEF LineAt
      <4>12. QED
        BY <3>8, <3>11, <4>1, <4>8, <4>9, <4>11
    <3>12. CASE DumpNop /\ UNCHANGED dts
      <4>1. t.kind = "nop"
        BY <3>5, <3>6, <3>12, CodesApart DEF DumpNop, More
      <4>2. depth + Deeper(t) = depth /\ Len(w) = 1
        BY <2>7, <3>6, <4>1 DEF Deeper
      <4>3. pos' = pos + Len(w) /\ depth' = depth + Deeper(t) /\ out' = out
        BY <3>12, <4>2 DEF DumpNop
      <4>4. QED
        BY <3>8, <3>12, <4>1, <4>3
    <3>13. CASE DumpPastEnd /\ UNCHANGED dts
      <4>1. FALSE
        BY <2>2, <2>7, <3>5, <3>13 DEF DumpPastEnd
      <4>2. QED
        BY <4>1
    <3>14. CASE DumpEnd
      <4>1. Data[pos + 1] \notin {1, 2, 3, 4}
        BY <3>5, <3>14, CodesApart DEF DumpEnd
      <4>2. t.kind = "stop" /\ k + 1 = Len(T)
        BY <3>3, <3>5, <3>6, <4>1
      <4>3. LineAt(T, k + 1, DepthAt(T, k + 1)) = << >>
        BY <3>1, <4>2 DEF LineAt
      <4>4. out \o << >> = out
        BY <1>3, LinesNext
      <4>5. out = Render(T)
        BY <2>4, <3>7, <4>2, <4>3, <4>4, RenderAsLines
      <4>6. QED
        BY <1>5, <2>1, <3>14, <4>5
    <3>15. QED
      BY <1>1, <3>9, <3>10, <3>11, <3>12, <3>13, <3>14
  <2>10. QED
    BY <2>4, <2>8, <2>9
<1>8. QED
  BY <1>6, <1>7

-------------------------------------------------------------------------------
(* The trees that the scripts write, and what is written of them               *)

TreeInv == TreesInv /\ DrmodeWalk /\ ExtconWalk /\ DumpWalk /\ DumpShowsTree

\* At the start, what is said to be a tree is one.
LEMMA TreesInit == Init => TreeInv
<1>1. SUFFICES ASSUME Init PROVE TreeInv
  OBVIOUS
<1>2. PICK s \in Setups : part = s.part /\ dir = s.dir
  BY <1>1 DEF Init
<1>3. pc = "idle" /\ DOMAIN dts = {}
  BY <1>1 DEF Init
<1>4. TreesInv
  BY <1>2, <1>3, TreesAssumption DEF TreesInv, Trees, Walks
<1>5. DrmodeWalk /\ ExtconWalk /\ DumpWalk /\ DumpShowsTree
  BY <1>3 DEF DrmodeWalk, ExtconWalk, DumpWalk, DumpShowsTree
<1>6. QED
  BY <1>4, <1>5 DEF TreeInv

\* As long as the directory and the dumps stay as they are, so do the trees.
LEMMA TreesStay ==
  ASSUME TreesInv, UNCHANGED <<dir, part>>,
         pc' \in Walks => file'.name \in DOMAIN dir /\ file'.data = dir[file'.name].cells,
         pc' \in {"scan", "write"} => Dump' # None
  PROVE  TreesInv'
BY DEF TreesInv, Trees, Walked

\* A file that is written, and is a tree if it is said to be one, leaves all trees
\* trees.
LEMMA TreesWritten ==
  ASSUME TreesInv, UNCHANGED part, pc' \notin Walks, NEW name, NEW f, dir' = Put(dir, name, f),
         pc' \in {"scan", "write"} => Dump' # None,
         f.tree # None => IsTree(f)
  PROVE  TreesInv'
<1>1. ASSUME NEW g \in Trees' PROVE IsTree(dir'[g])
  <2>1. CASE g = name
    <3>1. dir'[g] = f
      BY <1>1, <2>1 DEF Trees, Put
    <3>2. QED
      BY <1>1, <3>1 DEF Trees
  <2>2. CASE g # name
    <3>1. g \in DOMAIN dir /\ dir'[g] = dir[g]
      BY <1>1, <2>2 DEF Trees, Put
    <3>2. g \in Trees
      BY <1>1, <3>1 DEF Trees
    <3>3. QED
      BY <3>1, <3>2 DEF TreesInv
  <2>3. QED
    BY <2>1, <2>2
<1>2. QED
  BY <1>1 DEF TreesInv

\* Starting a script, and carving, leave the trees trees.
LEMMA TreesCarved ==
  ASSUME TypeInv, TreeInv, Carve \/ RunDrmode \/ RunExtcon \/ RunDump \/ CarveStep
  PROVE  TreeInv'
<1> USE DEF TreeInv
<1>1. ASSUME UNCHANGED dts, pc' \notin {"drmode", "drmode_write", "extcon", "extcon_write", "dump"}
      PROVE  DrmodeWalk' /\ ExtconWalk' /\ DumpWalk' /\ DumpShowsTree'
  BY <1>1 DEF DrmodeWalk, ExtconWalk, DumpWalk, DumpShowsTree
<1>2. ASSUME NEW name \in DOMAIN dir, NEW to, NEW prop,
             NEW first \in {"drmode_open", "extcon_open", "dump_open"},
             Read(name, to, prop, first)
      PROVE  TreeInv'
  <2>1. UNCHANGED <<dir, part, dts>> /\ pc' = first
        /\ file'.name = name /\ file'.data = dir[name].cells
    BY <1>2 DEF Read
  <2>2. QED
    BY <1>1, <2>1, TreesStay
<1>3. CASE Carve
  <2>1. UNCHANGED <<dir, part, dts>> /\ pc' = "target"
    BY <1>3 DEF Carve
  <2>2. QED
    BY <1>1, <2>1, TreesStay DEF Walks
<1>4. CASE NextTarget \/ WriteIndex \/ TakeBlob \/ SkipWord \/ Dedupe \/ CarveDone
  <2>1. UNCHANGED <<dir, part, dts>> /\ pc' \in {"target", "scan", "write", "idle"}
    BY <1>4 DEF NextTarget, WriteIndex, TakeBlob, SkipWord, Dedupe, CarveDone, CarveUnchanged,
                Exit, Scanning
  <2>2. pc' \in {"scan", "write"} => Dump' # None
    BY <1>4, <2>1 DEF TreesInv, Dump, NextTarget, WriteIndex, TakeBlob, SkipWord, Dedupe,
                      CarveDone, Scanning, Exit
  <2>3. QED
    BY <1>1, <2>1, <2>2, TreesStay DEF Walks
<1>5. CASE WriteBlob
  <2>1. PICK h, f : /\ h = hits[Written + 1] /\ f = Dump.magic[h.offset].file
                    /\ dir' = Put(dir, BlobName(Targets[target], Written), f)
                    /\ pc = "write" /\ Written < Len(hits)
                    /\ UNCHANGED <<part, dts, pc>>
    BY <1>5 DEF WriteBlob, CarveUnchanged
  <2>2. target \in DOMAIN Targets /\ IsDump(Dump) /\ Len(hits) \in Nat /\ Written \in Nat
    <3>1. \E S : summary[Targets[target]] \in Seq(S)
      BY <2>1 DEF TypeInv, CarveInv
    <3>2. Written \in Nat
      BY <3>1 DEF Written
    <3>3. QED
      BY <2>1, <3>2 DEF TypeInv, CarveInv, TypeOK
  <2>3. Written + 1 \in 1..Len(hits)
    BY <2>1, <2>2
  <2>4. Plausible(Dump, h.offset)
    BY <2>1, <2>3, SMTT(60) DEF TypeInv, CarveInv
  <2>5. f.tree # None => IsTree(f)
    <3>1. h.offset \in DOMAIN Dump.magic
      BY <2>4, SMTT(60) DEF Plausible
    <3>2. QED
      BY <2>1, <2>2, <3>1 DEF TreesInv, Dump
  <2>6. Dump' # None
    BY <1>5, <2>1 DEF TreesInv, Dump, WriteBlob
  <2>7. QED
    BY <1>1, <2>1, <2>5, <2>6, TreesWritten DEF Walks
<1>6. QED
  BY <1>2, <1>3, <1>4, <1>5 DEF RunDrmode, RunExtcon, RunDump, CarveStep

\* patch-drmode.py writes a tree for a tree.
LEMMA TreesDrmoded ==
  ASSUME TypeInv, TreeInv, DrmodeStep
  PROVE  TreeInv'
<1> USE DEF TreeInv
<1>1. UNCHANGED <<part, dts, file>>
  BY DEF DrmodeStep, OpenDrmode, DrmodeBeginNode, DrmodeCopyToken, DrmodeProp,
         DrmodeUnknownToken, DrmodeEnd, DrmodeWrite, DrmodeUnchanged, walk
<1>2. ASSUME pc' \notin {"extcon", "extcon_write", "dump"}
      PROVE  ExtconWalk' /\ DumpWalk' /\ DumpShowsTree'
  BY <1>1, <1>2 DEF ExtconWalk, DumpWalk, DumpShowsTree
<1>3. CASE OpenDrmode
  <2>1. /\ pc = "drmode_open" /\ pc' \in {"drmode", "idle"} /\ pos' = 0 /\ out' = << >>
        /\ UNCHANGED <<dir, part, file>>
    BY <1>3 DEF OpenDrmode, Exit
  <2>2. TreesInv'
    BY <2>1, TreesStay DEF TreesInv, Walks, Walked
  <2>3. ASSUME Walked.tree # None PROVE DrmodeWalk'
    <3>1. PICK strings, T : T = Walked.tree /\ HasTokens(strings, T)
      BY <2>1, <2>3, WalkedTree DEF Walks
    <3>2. T \in Seq(Tokens(T)) /\ Writable(Tokens(T))
      BY <3>1, TokensOf, Zenon
    <3>3. HasTokens(strings, Drmoded(T))
      BY <3>1, DrmodedTokens, Zenon
    <3>4. Drmoded(T) \in Seq(Tokens(Drmoded(T))) /\ Writable(Tokens(Drmoded(T)))
      BY <3>3, TokensOf, Zenon
    <3>5. Place(T, 0) = 0 /\ Encode(Front(Drmoded(T), 0)) = << >>
      BY <3>2, <3>4, EncodeFront, Zenon
    <3>6. 0 \in 0..Len(T)
      BY <3>2
    <3>7. DrmodeAt(Walked.tree)'
      BY <2>1, <3>1, <3>5, <3>6 DEF DrmodeAt, Walked
    <3>8. QED
      BY <2>1, <3>7 DEF DrmodeWalk
  <2>4. ASSUME Walked.tree = None PROVE DrmodeWalk'
    BY <2>1, <2>4 DEF DrmodeWalk, Walked
  <2>5. QED
    BY <1>2, <2>1, <2>2, <2>3, <2>4
<1>4. CASE pc = "drmode"
  <2>1. UNCHANGED <<dir, part, file>> /\ pc' \in {"drmode", "drmode_write", "idle"}
    BY <1>4 DEF DrmodeStep, OpenDrmode, DrmodeWrite, DrmodeBeginNode, DrmodeCopyToken, DrmodeProp,
         DrmodeUnknownToken, DrmodeEnd, DrmodeUnchanged, Exit
  <2>2. TreesInv'
    BY <1>4, <2>1, TreesStay DEF TreesInv, Walks, Walked
  <2>3. QED
    BY <1>2, <1>4, <2>1, <2>2, DrmodeWalks
<1>5. CASE DrmodeWrite
  <2>1. PICK f : f = [cells |-> NewData(file.data, out), tree |-> DrmodeTree(Walked.tree)]
    OBVIOUS
  <2>2. pc = "drmode_write" /\ pc' = "idle" /\ dir' = Put(dir, file.to, f) /\ UNCHANGED part
    BY <1>5, <2>1 DEF DrmodeWrite, Exit, Walked
  <2>3. ASSUME f.tree # None PROVE IsTree(f)
    <3>1. Walked.tree # None
      BY <2>1, <2>3 DEF DrmodeTree
    <3>2. DrmodeTree(Walked.tree) = Drmoded(Walked.tree)
      BY <3>1 DEF DrmodeTree, Drmoded
    <3>3. IsTree(Walked) /\ file.data = Walked.cells
      BY <2>2, <3>1, WalkedTree DEF TreesInv, Walks
    <3>4. out = Encode(Drmoded(Walked.tree))
      BY <2>2, <3>1 DEF DrmodeWalk
    <3>5. IsTree([cells |-> NewData(Walked.cells, Encode(Drmoded(Walked.tree))),
                  tree |-> Drmoded(Walked.tree)])
      BY <3>3, NewDataTree
    <3>6. QED
      BY <2>1, <3>2, <3>3, <3>4, <3>5
  <2>4. TreesInv'
    BY <2>2, <2>3, TreesWritten DEF Walks
  <2>5. DrmodeWalk'
    BY <2>2 DEF DrmodeWalk
  <2>6. QED
    BY <1>2, <2>2, <2>4, <2>5
<1>6. QED
  BY <1>3, <1>4, <1>5
     DEF DrmodeStep, DrmodeBeginNode, DrmodeCopyToken, DrmodeProp, DrmodeUnknownToken, DrmodeEnd

\* patch-extcon.py writes a tree for a tree.
LEMMA TreesExtconed ==
  ASSUME TypeInv, TreeInv, ExtconStep
  PROVE  TreeInv'
<1> USE DEF TreeInv
<1>1. UNCHANGED <<part, dts, file>>
  BY DEF ExtconStep, OpenExtcon, ExtconBeginNode, ExtconSkipToken, ExtconProp,
         ExtconUnknownToken, ExtconEnd, ExtconWrite, ExtconUnchanged, walk
<1>2. ASSUME pc' \notin {"drmode", "drmode_write", "dump"}
      PROVE  DrmodeWalk' /\ DumpWalk' /\ DumpShowsTree'
  BY <1>1, <1>2 DEF DrmodeWalk, DumpWalk, DumpShowsTree
<1>3. CASE OpenExtcon
  <2>1. /\ pc = "extcon_open" /\ pc' \in {"extcon", "idle"} /\ pos' = 0
        /\ pc' = "extcon" => out' = struct_blk(file.data)
        /\ UNCHANGED <<dir, part, file>>
    BY <1>3 DEF OpenExtcon, ExtconUnchanged, Exit
  <2>2. TreesInv'
    BY <2>1, TreesStay DEF TreesInv, Walks, Walked
  <2>3. ASSUME Walked.tree # None, pc' = "extcon" PROVE ExtconAt(Walked.tree)'
    <3>1. PICK strings, T : T = Walked.tree /\ HasTokens(strings, T) /\ out' = Encode(T)
      BY <2>1, <2>3, WalkedTree DEF Walks
    <3>2. T \in Seq(Tokens(T)) /\ Writable(Tokens(T))
      BY <3>1, TokensOf, Zenon
    <3>3. Place(T, 0) = 0
      BY <3>2, EncodeFront, Zenon
    <3>4. 0 \in 0..Len(T)
      BY <3>2
    <3>5. Encode(T) \in Seq(Nat)
      BY <3>2, <3>4, Laid, Zenon
    <3>6. Encode(Blanked(Front(T, 0), file.prop)) = << >>
      <4>1. Blanked(Front(T, 0), file.prop) = << >>
        BY <3>2, BlankedNext, Zenon
      <4>2. QED
        BY <4>1, EncodeNone
    <3>7. Lies(out', 0, << >>)
      BY <3>1, <3>5 DEF Lies
    <3>8. QED
      BY <2>1, <3>1, <3>3, <3>4, <3>6, <3>7 DEF ExtconAt, Walked
  <2>4. ExtconWalk'
    BY <2>1, <2>3 DEF ExtconWalk, Walked
  <2>5. QED
    BY <1>2, <2>1, <2>2, <2>4
<1>4. CASE pc = "extcon"
  <2>1. UNCHANGED <<dir, part, file>> /\ pc' \in {"extcon", "extcon_write", "idle"}
    BY <1>4 DEF ExtconStep, OpenExtcon, ExtconWrite, ExtconBeginNode, ExtconSkipToken, ExtconProp,
         ExtconUnknownToken, ExtconEnd, ExtconUnchanged, Exit
  <2>2. TreesInv'
    BY <1>4, <2>1, TreesStay DEF TreesInv, Walks, Walked
  <2>3. QED
    BY <1>2, <1>4, <2>1, <2>2, ExtconWalks
<1>5. CASE ExtconWrite
  <2>1. PICK f : f = [cells |-> Replaced(file.data, out), tree |-> ExtconTree(Walked.tree, file.prop)]
    OBVIOUS
  <2>2. pc = "extcon_write" /\ pc' = "idle" /\ dir' = Put(dir, file.to, f) /\ UNCHANGED part
    BY <1>5, <2>1 DEF ExtconWrite, Exit, Walked
  <2>3. ASSUME f.tree # None PROVE IsTree(f)
    <3>1. Walked.tree # None
      BY <2>1, <2>3 DEF ExtconTree
    <3>2. /\ IsTree(Walked) /\ file.data = Walked.cells
          /\ HasTokens(strings_blk(file.data), Walked.tree)
      BY <2>2, <3>1, WalkedTree DEF TreesInv, Walks
    <3>3. Walked.tree \in Seq(Tokens(Walked.tree))
      BY <3>2, TokensOf, Zenon
    <3>4. ExtconTree(Walked.tree, file.prop) = Blanked(Walked.tree, file.prop)
      BY <3>1, <3>3, ExtconTreeBlanked
    <3>5. out = Encode(Blanked(Walked.tree, file.prop))
      BY <2>2, <3>1 DEF ExtconWalk
    <3>6. IsTree([cells |-> Replaced(Walked.cells, Encode(Blanked(Walked.tree, file.prop))),
                  tree |-> Blanked(Walked.tree, file.prop)])
      BY <3>2, ReplacedTree
    <3>7. QED
      BY <2>1, <3>2, <3>4, <3>5, <3>6
  <2>4. TreesInv'
    BY <2>2, <2>3, TreesWritten DEF Walks
  <2>5. ExtconWalk'
    BY <2>2 DEF ExtconWalk
  <2>6. QED
    BY <1>2, <2>2, <2>4, <2>5
<1>6. QED
  BY <1>3, <1>4, <1>5
     DEF ExtconStep, ExtconBeginNode, ExtconSkipToken, ExtconProp, ExtconUnknownToken, ExtconEnd

\* fdt2dts.py leaves the trees alone, and writes what they are.
LEMMA TreesDumped ==
  ASSUME TypeInv, TreeInv, DumpStep
  PROVE  TreeInv'
<1> USE DEF TreeInv
<1>1. /\ UNCHANGED <<dir, part, file>>
      /\ pc \in {"dump_open", "dump"} /\ pc' \in {"dump", "idle"}
  BY DEF DumpStep, OpenDump, DumpBeginNode, DumpEndNode, DumpProp, DumpNop, DumpPastEnd,
         DumpEnd, DumpUnchanged, More, Dumping, Exit
<1>2. TreesInv'
  BY <1>1, TreesStay DEF TreesInv, Walks, Walked
<1>3. DrmodeWalk' /\ ExtconWalk'
  BY <1>1 DEF DrmodeWalk, ExtconWalk
<1>4. CASE pc = "dump"
  BY <1>2, <1>3, <1>4, DumpWalks
<1>5. CASE OpenDump
  <2>1. /\ pc = "dump_open" /\ out' = << >> /\ depth' = 0 /\ UNCHANGED dts
        /\ pc' = "dump" => pos' = Data[OFF_STRUCT]
    BY <1>5 DEF OpenDump, Exit
  <2>2. DumpShowsTree'
    BY <2>1 DEF DumpShowsTree
  <2>3. out' \in Seq({})
    BY <2>1
  <2>4. ASSUME Walked.tree # None, pc' = "dump" PROVE DumpAt(Walked.tree)'
    <3>9. /\ HasTokens(strings_blk(Data), Walked.tree) /\ Data \in Seq(Nat)
          /\ MapBefore(Data) /\ BlocksApart(Data)
      BY <2>1, <2>4, WalkedTree DEF Walks, Data
    <3>1. PICK strings, T : T = Walked.tree /\ HasTokens(strings, T)
      BY <3>9
    <3>2. T \in Seq(Tokens(T)) /\ Writable(Tokens(T))
      BY <3>1, TokensOf, Zenon
    <3>3. Place(T, 0) = 0
      BY <3>2, EncodeFront, Zenon
    <3>4. 0 \in 0..Len(T)
      BY <3>2
    <3>5. DepthTo(T, 0) = 0 /\ LinesTo(T, 0) = << >>
      BY <3>2, DepthAsSum, RenderAsLines
    <3>7. Data[OFF_STRUCT] = Data[OFF_STRUCT] + 0
      <4>1. Data[OFF_STRUCT] \in Nat
        BY <3>9, Described1
      <4>2. QED
        BY <4>1
    <3>8. QED
      BY <1>1, <2>1, <2>4, <3>1, <3>3, <3>4, <3>5, <3>7 DEF DumpAt, Walked, Data
  <2>5. DumpWalk'
    BY <1>1, <2>3, <2>4 DEF DumpWalk, Walked
  <2>6. QED
    BY <1>2, <1>3, <2>2, <2>5
<1>6. QED
  BY <1>1, <1>4, <1>5
     DEF DumpStep, DumpBeginNode, DumpEndNode, DumpProp, DumpNop, DumpPastEnd, DumpEnd,
         More, Dumping

\* Trees stay trees, and what is written of them is theirs.
LEMMA TreeInvariant == Spec => []TreeInv
<1>1. TypeInv /\ TreeInv /\ [Next]_vars => TreeInv'
  <2>1. SUFFICES ASSUME TypeInv, TreeInv, [Next]_vars PROVE TreeInv'
    OBVIOUS
  <2>2. CASE UNCHANGED vars
    <3>1. UNCHANGED <<pc, part, dir, dts, file, pos, out, depth, target>>
      BY <2>2 DEF vars, walk, carving
    <3>2. TreesInv'
      BY <2>1, <3>1, TreesStay DEF TreeInv, TreesInv, Walked, Dump
    <3>3. DrmodeWalk' /\ ExtconWalk' /\ DumpWalk' /\ DumpShowsTree'
      BY <2>1, <3>1 DEF TreeInv, DrmodeWalk, DrmodeAt, ExtconWalk, ExtconAt, DumpWalk, DumpAt,
                        DumpShowsTree, Walked, Data
    <3>4. QED
      BY <3>2, <3>3 DEF TreeInv
  <2>3. CASE Next
    BY <2>1, <2>3, TreesCarved, TreesDrmoded, TreesExtconed, TreesDumped DEF Next, Step
  <2>4. QED
    BY <2>1, <2>2, <2>3
<1>2. QED
  BY <1>1, TreesInit, TypeInvariant, PTL DEF Spec

\* Edited: however often a tree is patched, and in whatever order, the structure block
\* of the file is that of the tree it was carved as with the edits made and nothing
\* else, for every tree, every layout of the file and every number of runs.
THEOREM PatchedTrees == Spec => []Edited
<1>1. TreeInv => Edited
  BY DEF TreeInv, TreesInv, IsTree, Edited
<1>2. QED
  BY <1>1, TreeInvariant, PTL

\* Described: the header of every file that is written describes it: the blocks lie in
\* it, apart from each other, the names are at their offsets, and the map of reserved
\* memory ends, wherever the strings were before.
THEOREM PatchedLayout == Spec => []Described
<1>1. ASSUME TreeInv, NEW f \in Trees
      PROVE  LET c == dir[f].cells
                 strings == strings_blk(c)
             IN  /\ BlocksApart(c)
                 /\ \A k \in DOMAIN dir[f].tree :
                      LET t == dir[f].tree[k]
                      IN  t.kind = "prop" => NameAt(strings, t.off) = t.name
                 /\ \E k \in 0..Len(c) : \A z \in 1..4 : c[c[OFF_RSVMAP] + 4 * k + z] = 0
  <2>1. PICK c \in Seq(Nat), tree \in {dir[f].tree} :
          /\ c = dir[f].cells /\ tree = dir[f].tree
          /\ MapBefore(c) /\ BlocksApart(c) /\ HasTokens(strings_blk(c), tree)
    BY <1>1 DEF TreeInv, TreesInv, IsTree
  <2>2. ASSUME NEW k \in DOMAIN tree, tree[k].kind = "prop"
        PROVE  NameAt(strings_blk(c), tree[k].off) = tree[k].name
    BY <2>1, <2>2 DEF HasTokens, IsToken
  <2>3. \E k \in 0..Len(c) : \A z \in 1..4 : c[c[OFF_RSVMAP] + 4 * k + z] = 0
    BY <2>1, Zenon DEF MapBefore
  <2>4. QED
    BY <2>1, <2>2, <2>3
<1>2. TreeInv => Described
  BY <1>1, Zenon DEF Described
<1>3. QED
  BY <1>2, TreeInvariant, PTL

\* DumpShowsTree: what fdt2dts.py writes of a tree is the tree, line for line, at its
\* depths and with its first texts, for every tree and after every patch.
THEOREM DumpIsTheTree == Spec => []DumpShowsTree
<1>1. TreeInv => DumpShowsTree
  BY DEF TreeInv
<1>2. QED
  BY <1>1, TreeInvariant, PTL
================================================================================
