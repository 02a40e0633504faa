------------------------------- MODULE PatchDrmode -------------------------------
(***************************************************************************)
(* tools/patch-drmode.py: walk the structure block, copy it token by token *)
(* with every dr_mode = "otg" made dr_mode = "peripheral", and put the     *)
(* longer block back between the header and the strings.                   *)
(***************************************************************************)
EXTENDS FdtFormat

dr_mode == <<110, 111>>
otg == <<120>>                       \* "otg" and its NUL, four bytes
peripheral == <<121, 122, 123>>      \* "peripheral" and its NUL, eleven bytes

Block == struct_blk(file.data)
Strings == strings_blk(file.data)

\* The token at pos, when the loop goes on.
Walking(token) == pos < Len(Block) /\ Block[pos + 1] = token

\* out += struct_blk[i:next]; i = next
Copy(next) == out' = out \o Slice(Block, pos, next) /\ pos' = next

OpenDrmode ==
    /\ pc = "drmode_open"
    /\ IF OpensAsTree(file.data)
       THEN pc' = "drmode" /\ UNCHANGED ret ELSE Exit("error")
    /\ pos' = 0 /\ out' = << >> /\ npatched' = 0
    /\ UNCHANGED <<part, dir, dts, index, runs, file, depth, carving>>

DrmodeUnchanged == UNCHANGED <<part, dir, dts, index, runs, file, depth, carving>>

DrmodeBeginNode ==
    /\ pc = "drmode" /\ Walking(BEGIN_NODE)
    /\ IF NulsFrom(Block, pos + 1) = {}
       THEN Exit("error") /\ UNCHANGED <<out, pos>>
       ELSE Copy(NulIndex(Block, pos + 1)) /\ UNCHANGED <<pc, ret>>
    /\ UNCHANGED npatched
    /\ DrmodeUnchanged

\* END_NODE and NOP are copied as they are.
DrmodeCopyToken ==
    /\ pc = "drmode" /\ (Walking(END_NODE) \/ Walking(NOP))
    /\ Copy(pos + 1)
    /\ UNCHANGED <<pc, ret, npatched>>
    /\ DrmodeUnchanged

\* The length and the name's offset are read before the bounds are known.
PropCut == pos + 3 > Len(Block)
ValueEnd == pos + 3 + Words(Block[pos + 2])
NameAt(strings, nameoff) ==
    SubSeq(strings, nameoff + 1, NulIndex(strings, nameoff))

IsOtg ==
    /\ NameAt(Strings, Block[pos + 3]) = dr_mode
    /\ Block[pos + 2] = 4 /\ Slice(Block, pos + 3, ValueEnd) = otg

\* Mutant: the value is replaced and its length is not.
NewPropShort == <<PROP, 4, Block[pos + 3]>> \o peripheral
NewProp == <<PROP, 11, Block[pos + 3]>> \o peripheral

DrmodeProp ==
    /\ pc = "drmode" /\ Walking(PROP)
    /\ IF PropCut \/ NulsFrom(Strings, Block[pos + 3]) = {}
       THEN Exit("error") /\ UNCHANGED <<out, pos, npatched>>
       ELSE /\ pos' = ValueEnd
            /\ IF IsOtg
               THEN out' = out \o NewProp /\ npatched' = npatched + 1
               ELSE out' = out \o Slice(Block, pos, ValueEnd) /\ UNCHANGED npatched
            /\ UNCHANGED <<pc, ret>>
    /\ DrmodeUnchanged

DrmodeUnknownToken ==
    /\ pc = "drmode" /\ pos < Len(Block)
    /\ Block[pos + 1] \notin {BEGIN_NODE, END_NODE, PROP, NOP, END}
    /\ Exit("error")
    /\ UNCHANGED <<out, pos, npatched>>
    /\ DrmodeUnchanged

\* FDT_END is copied and ends the loop; so does the end of the block.
DrmodeEnd ==
    /\ pc = "drmode"
    /\ \/ Walking(END) /\ Copy(pos + 1)
       \/ pos >= Len(Block) /\ UNCHANGED <<out, pos>>
    /\ pc' = "drmode_write"
    /\ UNCHANGED <<ret, npatched>>
    /\ DrmodeUnchanged

\* The header and what lies before the structure block, the new block, and
\* everything from the strings on.
Moved(data, block) ==
    Slice(data, 0, data[OFF_STRUCT]) \o block \o Slice(data, data[OFF_STRINGS], Len(data))

\* Mutant: the offset of the strings is left as it was.
NewDataStringsKept(data, block) ==
    [Moved(data, block) EXCEPT ![TOTALSIZE] = Len(Moved(data, block)),
                               ![SIZE_STRUCT] = Len(block)]

NewData(data, block) ==
    [Moved(data, block) EXCEPT ![TOTALSIZE] = Len(Moved(data, block)),
                               ![OFF_STRINGS] = data[OFF_STRUCT] + Len(block),
                               ![SIZE_STRUCT] = Len(block)]

\* The tree a patched file is meant to have (a ghost)
DrmodeToken(t) ==
    IF t.kind = "prop" /\ t.name = dr_mode /\ t.len = 4 /\ t.val = otg
    THEN [t EXCEPT !.len = 11, !.val = peripheral] ELSE t
DrmodeTree(tree) ==
    IF tree = None THEN None ELSE [k \in DOMAIN tree |-> DrmodeToken(tree[k])]

DrmodeWrite ==
    /\ pc = "drmode_write"
    /\ dir' = Put(dir, file.to, [cells |-> NewData(file.data, out),
                                 tree |-> DrmodeTree(dir[file.name].tree)])
    /\ Exit("ok")
    /\ UNCHANGED <<part, dts, index, runs, walk, carving>>

DrmodeStep ==
    \/ OpenDrmode \/ DrmodeBeginNode \/ DrmodeCopyToken \/ DrmodeProp
    \/ DrmodeUnknownToken \/ DrmodeEnd \/ DrmodeWrite
==================================================================================
