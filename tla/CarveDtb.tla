--------------------------------- MODULE CarveDtb ---------------------------------
(***************************************************************************)
(* tools/carve-dtb.py: look for the magic of a device tree in each dump of *)
(* a partition, four bytes at a time, jump over what is taken, drop what   *)
(* overlaps, and write the trees and an index of them.                     *)
(***************************************************************************)
EXTENDS FdtFormat

Dump == part[Targets[target]]
Blob(p, off) == [offset |-> off, totalsize |-> p.magic[off].totalsize]

\* The tests a magic has to pass before it is taken for a tree.
Plausible(p, off) ==
    /\ off \in DOMAIN p.magic /\ off + 8 <= p.n
    /\ MinBlob <= p.magic[off].totalsize /\ p.magic[off].totalsize <= MaxBlob
    /\ off + p.magic[off].totalsize <= p.n

CarveUnchanged == UNCHANGED <<ret, part, dts, runs, file, out, npatched, depth>>

\* main(): a partition that was not dumped is left out.
NextTarget ==
    /\ pc = "target" /\ target <= Len(Targets)
    /\ IF Dump = None
       THEN target' = target + 1 /\ UNCHANGED <<pc, hits, pos>>
       ELSE pc' = "scan" /\ hits' = << >> /\ pos' = 0 /\ UNCHANGED target
    /\ UNCHANGED <<dir, index, summary>>
    /\ CarveUnchanged

WriteIndex ==
    /\ pc = "target" /\ target > Len(Targets)
    /\ index' = summary
    /\ Exit("ok")
    /\ UNCHANGED <<part, dir, dts, runs, walk, carving>>

Scanning == pc = "scan" /\ pos + 8 <= Dump.n

\* Mutant: the scan goes on inside the tree that was taken.
TakeBlobAndStay ==
    /\ Scanning /\ Plausible(Dump, pos)
    /\ hits' = Append(hits, Blob(Dump, pos))
    /\ pos' = pos + 4
    /\ UNCHANGED <<pc, dir, index, target, summary>>
    /\ CarveUnchanged

TakeBlob ==
    /\ Scanning /\ Plausible(Dump, pos)
    /\ hits' = Append(hits, Blob(Dump, pos))
    /\ pos' = pos + Dump.magic[pos].totalsize
    /\ UNCHANGED <<pc, dir, index, target, summary>>
    /\ CarveUnchanged

\* Mutant: eight bytes at a time.
SkipEight ==
    /\ Scanning /\ ~Plausible(Dump, pos)
    /\ pos' = pos + 8
    /\ UNCHANGED <<pc, dir, index, target, hits, summary>>
    /\ CarveUnchanged

SkipWord ==
    /\ Scanning /\ ~Plausible(Dump, pos)
    /\ pos' = pos + 4
    /\ UNCHANGED <<pc, dir, index, target, hits, summary>>
    /\ CarveUnchanged

\* The loop over the hits: one that begins before the last one kept ends is dropped.
Deduped(found) ==
    LET kept[k \in 0..Len(found)] ==
            IF k = 0 THEN << >>
            ELSE LET before == kept[k - 1]
                     last == before[Len(before)]
                 IN  IF before # << >> /\ last.offset + last.totalsize > found[k].offset
                     THEN before ELSE Append(before, found[k])
    IN  kept[Len(found)]

Dedupe ==
    /\ pc = "scan" /\ pos + 8 > Dump.n
    /\ hits' = Deduped(hits)
    /\ summary' = Put(summary, Targets[target], << >>)
    /\ pc' = "write"
    /\ UNCHANGED <<dir, index, target, pos>>
    /\ CarveUnchanged

\* Mutant: the name does not say which dump the tree is from.
BlobNameWithoutBase(t, k) == <<TreeNames[k + 1], "dtb">>

\* f"{base}.dtb{k}.dtb", the base with its .img
BlobName(t, k) == <<t, "img", TreeNames[k + 1], "dtb">>

Written == Len(summary[Targets[target]])
WriteBlob ==
    /\ pc = "write" /\ Written < Len(hits)
    /\ LET h == hits[Written + 1]
           name == BlobName(Targets[target], Written)
       IN  /\ dir' = Put(dir, name, Dump.magic[h.offset].file)
           /\ summary' = [summary EXCEPT ![Targets[target]] =
                            Append(@, [file |-> name, offset |-> h.offset,
                                       totalsize |-> h.totalsize])]
    /\ UNCHANGED <<pc, index, target, hits, pos>>
    /\ CarveUnchanged

CarveDone ==
    /\ pc = "write" /\ Written = Len(hits)
    /\ target' = target + 1 /\ pc' = "target"
    /\ UNCHANGED <<dir, index, hits, summary, pos>>
    /\ CarveUnchanged

CarveStep ==
    \/ NextTarget \/ WriteIndex \/ TakeBlob \/ SkipWord \/ Dedupe \/ WriteBlob \/ CarveDone
==================================================================================
