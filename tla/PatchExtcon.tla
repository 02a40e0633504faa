------------------------------- MODULE PatchExtcon -------------------------------
(***************************************************************************)
(* tools/patch-extcon.py: walk the structure block and overwrite every     *)
(* cell of a named property with FDT_NOP, where it is.                     *)
(***************************************************************************)
EXTENDS FdtFormat

\* pos walks over the block as it is being changed (out).
AtToken(token) == pos < Len(out) /\ out[pos + 1] = token
NameStrings == strings_blk(file.data)

ExtconUnchanged == UNCHANGED <<part, dir, dts, index, runs, file, depth, carving>>

OpenExtcon ==
    /\ pc = "extcon_open"
    /\ IF OpensAsTree(file.data)
       THEN pc' = "extcon" /\ out' = struct_blk(file.data) /\ UNCHANGED ret
       ELSE Exit("error") /\ out' = << >>
    /\ pos' = 0 /\ npatched' = 0
    /\ ExtconUnchanged

ExtconBeginNode ==
    /\ pc = "extcon" /\ AtToken(BEGIN_NODE)
    /\ IF NulsFrom(out, pos + 1) = {}
       THEN Exit("error") /\ UNCHANGED pos
       ELSE pos' = NulIndex(out, pos + 1) /\ UNCHANGED <<pc, ret>>
    /\ UNCHANGED <<out, npatched>>
    /\ ExtconUnchanged

ExtconSkipToken ==
    /\ pc = "extcon" /\ (AtToken(END_NODE) \/ AtToken(NOP))
    /\ pos' = pos + 1
    /\ UNCHANGED <<pc, ret, out, npatched>>
    /\ ExtconUnchanged

PropEnd == pos + 3 + Words(out[pos + 2])
\* Mutant: the property is cut out.
CutOut(blk, from, to) == SubSeq(blk, 1, from) \o SubSeq(blk, to + 1, Len(blk))
NopOut(blk, from, to) ==
    [k \in 1..Len(blk) |-> IF k > from /\ k <= to THEN NOP ELSE blk[k]]

\* A value that is said to end behind the block makes pack_into() fail, when the
\* property is the one looked for.
ExtconProp ==
    /\ pc = "extcon" /\ AtToken(PROP)
    /\ IF pos + 3 > Len(out) \/ NulsFrom(NameStrings, out[pos + 3]) = {}
       THEN Exit("error") /\ UNCHANGED <<out, pos, npatched>>
       ELSE IF SubSeq(NameStrings, out[pos + 3] + 1, NulIndex(NameStrings, out[pos + 3]))
               # file.prop
       THEN pos' = PropEnd /\ UNCHANGED <<pc, ret, out, npatched>>
       ELSE IF PropEnd > Len(out)
       THEN Exit("error") /\ UNCHANGED <<out, pos, npatched>>
       ELSE /\ out' = NopOut(out, pos, PropEnd)
            /\ pos' = PropEnd /\ npatched' = npatched + 1
            /\ UNCHANGED <<pc, ret>>
    /\ ExtconUnchanged

ExtconUnknownToken ==
    /\ pc = "extcon" /\ pos < Len(out)
    /\ out[pos + 1] \notin {BEGIN_NODE, END_NODE, PROP, NOP, END}
    /\ Exit("error")
    /\ UNCHANGED <<out, pos, npatched>>
    /\ ExtconUnchanged

ExtconEnd ==
    /\ pc = "extcon"
    /\ \/ AtToken(END) /\ pos' = pos + 1
       \/ pos >= Len(out) /\ UNCHANGED pos
    /\ pc' = "extcon_write"
    /\ UNCHANGED <<ret, out, npatched>>
    /\ ExtconUnchanged

\* new_data[off_struct:off_struct + size_struct] = struct_blk
Replaced(data, block) ==
    [k \in 1..Len(data) |->
       IF k > data[OFF_STRUCT] /\ k <= data[OFF_STRUCT] + Len(block)
       THEN block[k - data[OFF_STRUCT]] ELSE data[k]]

\* The tree a patched file is meant to have (a ghost): a NOP for every cell.
ExtconTree(tree, prop) ==
  IF tree = None THEN None ELSE
    LET Nops(t) == [k \in 1..3 + Words(t.len) |-> [kind |-> "nop"]]
        edit[k \in 0..Len(tree)] ==
            IF k = 0 THEN << >>
            ELSE edit[k - 1] \o (IF tree[k].kind = "prop" /\ tree[k].name = prop
                                 THEN Nops(tree[k]) ELSE <<tree[k]>>)
    IN  edit[Len(tree)]

ExtconWrite ==
    /\ pc = "extcon_write"
    /\ dir' = Put(dir, file.to, [cells |-> Replaced(file.data, out),
                                 tree |-> ExtconTree(dir[file.name].tree, file.prop)])
    /\ Exit("ok")
    /\ UNCHANGED <<part, dts, index, runs, walk, carving>>

ExtconStep ==
    \/ OpenExtcon \/ ExtconBeginNode \/ ExtconSkipToken \/ ExtconProp
    \/ ExtconUnknownToken \/ ExtconEnd \/ ExtconWrite
==================================================================================
