----------------------------- MODULE DeviceTreeTools -----------------------------
(***************************************************************************)
(* One user of the four device-tree scripts, who carves the trees out of   *)
(* the dumps of the device's partitions, patches them, patches what was    *)
(* patched, and dumps whatever there is, in any order.                     *)
(***************************************************************************)
EXTENDS PatchDrmode, PatchExtcon, Fdt2dts, CarveDtb

Init ==
    /\ pc = "idle" /\ ret = "ok"
    /\ \E s \in Setups : part = s.part /\ dir = s.dir
    /\ dts = [x \in {} |-> None] /\ index = [x \in {} |-> << >>] /\ runs = 0
    /\ file = [name |-> << >>, to |-> << >>, data |-> << >>, prop |-> << >>]
    /\ pos = 0 /\ out = << >> /\ npatched = 0 /\ depth = 0
    /\ target = 1 /\ hits = << >> /\ summary = [x \in {} |-> << >>]

Start == pc = "idle" /\ runs < MaxRuns /\ runs' = runs + 1

Carve ==
    /\ Start
    /\ pc' = "target" /\ target' = 1 /\ hits' = << >> /\ summary' = [x \in {} |-> << >>]
    /\ UNCHANGED <<ret, part, dir, dts, index, walk>>

\* A script reads its file whole, before anything else.
Read(name, to, prop, first) ==
    /\ Start
    /\ file' = [name |-> name, to |-> to, data |-> dir[name].cells, prop |-> prop]
    /\ pc' = first
    /\ UNCHANGED <<ret, part, dir, dts, index, pos, out, npatched, depth, carving>>

\* p.replace('.dtb', '.periph.dtb'), for every '.dtb' in the name
HasDtb(name) == \E k \in 2..Len(name) : name[k] \in DtbLike
Periph(name) ==
    LET renamed[k \in 0..Len(name)] ==
            IF k = 0 THEN << >>
            ELSE renamed[k - 1] \o (IF k > 1 /\ name[k] \in DtbLike
                                    THEN <<"periph", name[k]>> ELSE <<name[k]>>)
    IN  renamed[Len(name)]

\* p.rsplit('.', 1)[0], for a name with a dot, and t[:-4]: the names here end in
\* a dot and three letters.
Stem(name) == SubSeq(name, 1, Len(name) - 1)
Noextcon(name) == Stem(name) \o <<"noextcon", "dtb">>
Dts(name) == Stem(name) \o <<"dts">>

RunDrmode == \E f \in DOMAIN dir : Read(f, Periph(f), << >>, "drmode_open")
RunExtcon == \E f \in DOMAIN dir, p \in PropNames : Read(f, Noextcon(f), p, "extcon_open")
RunDump   == \E f \in DOMAIN dir : Read(f, Dts(f), << >>, "dump_open")

Step == CarveStep \/ DrmodeStep \/ ExtconStep \/ DumpStep
Next == Carve \/ RunDrmode \/ RunExtcon \/ RunDump \/ Step
\* A script that has started runs on; nobody has to start one.
Spec == Init /\ [][Next]_vars /\ WF_vars(Step)

-------------------------------------------------------------------------------
(* Trees, independently of how the scripts walk them                           *)

EncodeToken(t) ==
    CASE t.kind = "node" -> <<BEGIN_NODE>> \o t.name
      [] t.kind = "end"  -> <<END_NODE>>
      [] t.kind = "prop" -> <<PROP, t.len, t.off>> \o t.val
      [] t.kind = "nop"  -> <<NOP>>
      [] OTHER           -> <<END>>
Encode(tree) ==
    LET upto[k \in 0..Len(tree)] ==
            IF k = 0 THEN << >> ELSE upto[k - 1] \o EncodeToken(tree[k])
    IN  upto[Len(tree)]

\* The depth a token's line has, and the lines of a tree
DepthAt(tree, k) ==
    LET upto[j \in 0..k] ==
            IF j = 0 THEN 0
            ELSE upto[j - 1] + (IF tree[j].kind = "node" THEN 1
                                ELSE IF tree[j].kind = "end" THEN -1 ELSE 0)
    IN  IF tree[k].kind = "node" THEN upto[k] - 1 ELSE upto[k]
\* The text at the start of a value: it ends at the first NUL, or with the value. A value
\* is shown as that text, as all of its cells if there is none, and as an empty text if
\* there is nothing.
TextEnds(value) ==
    {m \in DOMAIN value : /\ \A k \in 1..m : value[k] \in 100..999
                          /\ \A k \in 1..m - 1 : value[k] \notin Nul
                          /\ value[m] \in Nul \/ m = Len(value) \/ value[m + 1] < 100}
Shown(value) ==
    IF TextEnds(value) # {}
    THEN <<"text", SubSeq(value, 1, CHOOSE m \in TextEnds(value) : TRUE)>>
    ELSE <<IF value = << >> THEN "text" ELSE "cells", value>>
Render(tree) ==
    LET line(k) == [depth |-> DepthAt(tree, k), kind |-> tree[k].kind,
                    name |-> IF tree[k].kind = "end" THEN << >> ELSE tree[k].name,
                    value |-> IF tree[k].kind = "prop" THEN Shown(tree[k].val) ELSE << >>]
        upto[k \in 0..Len(tree)] ==
            IF k = 0 THEN << >>
            ELSE upto[k - 1] \o (IF tree[k].kind \in {"node", "end", "prop"} THEN <<line(k)>>
                                 ELSE << >>)
    IN  upto[Len(tree)]

\* What a file is that is said to be a tree.  The name of a node ends at its first
\* NUL, a value has the cells its length asks for, the name of a property is at its
\* offset, and nothing follows FDT_END.  Header and map of reserved memory lie
\* before the structure block, as the format wants it.
IsToken(strings, t) ==
    \/ t.kind \in {"end", "nop", "stop"}
    \/ /\ t \in [kind : {"node"}, name : Seq(Nat)] /\ t.name # << >>
       /\ \A k \in DOMAIN t.name : HasNul(t.name[k]) <=> k = Len(t.name)
    \/ /\ t \in [kind : {"prop"}, off : Nat, name : Seq(Nat), len : Nat, val : Seq(Nat)]
       /\ Len(t.val) = Words(t.len)
       /\ NulsFrom(strings, t.off) # {} /\ NameAt(strings, t.off) = t.name
HasTokens(strings, tree) ==
    /\ tree \in Seq({tree[k] : k \in DOMAIN tree})
    /\ \A k \in DOMAIN tree : /\ IsToken(strings, tree[k])
                              /\ tree[k].kind = "stop" => k = Len(tree)
BlocksApart(c) ==
    /\ c[OFF_STRUCT] + c[SIZE_STRUCT] <= c[TOTALSIZE]
    /\ c[OFF_STRINGS] + c[SIZE_STRINGS] <= c[TOTALSIZE]
    /\ c[TOTALSIZE] <= Len(c)
    /\ \/ c[OFF_STRUCT] + c[SIZE_STRUCT] <= c[OFF_STRINGS]
       \/ c[OFF_STRINGS] + c[SIZE_STRINGS] <= c[OFF_STRUCT]
MapBefore(c) ==
    /\ Len(c) >= 10 /\ c[OFF_RSVMAP] >= 10
    /\ \E k \in 0..Len(c) : /\ c[OFF_RSVMAP] + 4 * k + 4 <= c[OFF_STRUCT]
                            /\ \A z \in 1..4 : c[c[OFF_RSVMAP] + 4 * k + z] = 0
IsTree(f) ==
    /\ f.cells \in Seq(Nat) /\ MapBefore(f.cells) /\ BlocksApart(f.cells)
    /\ HasTokens(strings_blk(f.cells), f.tree)
    /\ struct_blk(f.cells) = Encode(f.tree)

ASSUME TreesAssumption ==
    \A s \in Setups :
        /\ \A f \in DOMAIN s.dir : s.dir[f].tree # None => IsTree(s.dir[f])
        /\ \A k \in DOMAIN Targets : s.part[Targets[k]] # None =>
             \A off \in DOMAIN s.part[Targets[k]].magic :
                LET f == s.part[Targets[k]].magic[off].file
                IN  f.tree # None => IsTree(f)

-------------------------------------------------------------------------------
(* Invariants                                                                  *)

\* The variables have the values they are meant to have.
TypeOK ==
    /\ pc \in {"idle", "target", "scan", "write", "drmode_open", "drmode", "drmode_write",
               "extcon_open", "extcon", "extcon_write", "dump_open", "dump"}
    /\ ret \in {"ok", "error"}
    /\ runs \in 0..MaxRuns
    /\ \A f \in DOMAIN dir : IsFile(dir[f])
    /\ file.data \in Seq(Nat)
    /\ pos \in Nat /\ npatched \in Nat /\ depth \in Int
    /\ target \in 1..Len(Targets) + 1
    /\ hits \in Seq([offset : Nat, totalsize : Nat])
    /\ DOMAIN summary \subseteq {Targets[k] : k \in DOMAIN Targets}

Trees == {f \in DOMAIN dir : dir[f].tree # None}

\* However often a tree has been patched, in whatever order, its structure block
\* is that of the tree it was carved as with the edits made and nothing else:
\* values that look like tokens are passed over, a shorter or longer value moves
\* what follows, and the blank left by a removed property is passed over later.
Edited ==
    \A f \in Trees : struct_blk(dir[f].cells) = Encode(dir[f].tree)

\* The header describes the file that was written: both blocks lie in it, and
\* apart from each other; the names are where the properties say; the map of
\* reserved memory still ends; and the size covers it all.
Described ==
    \A f \in Trees :
        LET c == dir[f].cells
            strings == strings_blk(c)
        IN  /\ BlocksApart(c)
            /\ \A k \in DOMAIN dir[f].tree :
                 LET t == dir[f].tree[k]
                 IN  t.kind = "prop" => NameAt(strings, t.off) = t.name
            /\ \E k \in 0..Len(c) : \A z \in 1..4 : c[c[OFF_RSVMAP] + 4 * k + z] = 0

\* patch-extcon.py leaves the size and every cell outside of the structure block
\* alone, and writes nothing but FDT_NOP into it, be the file well-formed or not.
OnlyNops ==
    pc = "extcon_write" =>
        LET new == Replaced(file.data, out)
        IN  /\ Len(out) = Len(struct_blk(file.data))
            /\ \A k \in DOMAIN new :
                 new[k] # file.data[k] =>
                     /\ new[k] = NOP
                     /\ k > file.data[OFF_STRUCT]
                     /\ k <= file.data[OFF_STRUCT] + file.data[SIZE_STRUCT]

\* What fdt2dts.py writes is the tree of the file, line for line: a node, its end
\* and a property for each there is, at its depth, with the first of its texts, as a
\* text, or all of its cells, as numbers; a property that patch-extcon.py has blanked out is not shown.
DumpShowsTree ==
    \A d \in DOMAIN dts :
        dts[d].tree # None => dts[d].lines = Render(dts[d].tree)

\* Trees that are taken out of a dump are in it, one behind the other, and the scan
\* yields none that the loop behind it is there to drop.
HitsOrdered ==
    pc \in {"scan", "write"} =>
        /\ pc = "scan" => Deduped(hits) = hits
        /\ \A k \in DOMAIN hits : hits[k].offset + hits[k].totalsize <= Dump.n
        /\ \A j, k \in DOMAIN hits :
             j < k => hits[j].offset + hits[j].totalsize <= hits[k].offset

\* A tree that the scan can come across is found: it begins at a multiple of four,
\* or right behind another, no other begins inside of it or has it inside, and
\* none before it has a size that takes the scan off the multiples of four.
Valid(p) == {off \in DOMAIN p.magic : Plausible(p, off)}
EndOf(p, off) == off + p.magic[off].totalsize
Regular(p) ==
    \A a \in Valid(p) :
        /\ a % 4 = 0 \/ \E b \in Valid(p) : EndOf(p, b) = a
        /\ EndOf(p, a) % 4 # 0 => EndOf(p, a) \in Valid(p) \/ \A b \in Valid(p) : b <= a
        /\ \A b \in Valid(p) : a < b => EndOf(p, a) <= b
FindsRegular ==
    pc = "write" /\ Regular(Dump) => {hits[k].offset : k \in DOMAIN hits} = Valid(Dump)

\* Comment at carve-dtb.py:20: "scan every byte".  A tree anywhere in a dump is
\* found, unless it lies inside of one that was.
FindsEveryBlob ==
    pc = "write" =>
        \A off \in Valid(Dump) :
            \E k \in DOMAIN hits : /\ hits[k].offset <= off
                                   /\ off < hits[k].offset + hits[k].totalsize

\* The index never speaks of a file that is missing or is not the tree that lies
\* at the offset it gives, whatever was carved or patched into the same directory.
IndexTrue ==
    \A t \in DOMAIN index : \A k \in DOMAIN index[t] :
        LET e == index[t][k]
        IN  /\ e.file \in DOMAIN dir
            /\ dir[e.file] = part[t].magic[e.offset].file

\* No script writes to the file it reads, when the name has a ".dtb" in it.
SourceKept ==
    [][\A f \in DOMAIN dir :
         pc \in {"drmode_write", "extcon_write"} /\ f = file.name /\ HasDtb(f)
             => dir'[f] = dir[f]]_vars

\* Every run of a script ends, on files that are no trees as well.
RunsEnd == pc # "idle" ~> pc = "idle"
==================================================================================
