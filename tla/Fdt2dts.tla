--------------------------------- MODULE Fdt2dts ---------------------------------
(***************************************************************************)
(* tools/fdt2dts.py: read the reservation map, walk the structure block in *)
(* the file itself and write one line per node, end of node and property.  *)
(* It is more lenient than the two patch scripts: it stops at a token it   *)
(* does not know, and takes what there is of an unterminated name.         *)
(***************************************************************************)
EXTENDS FdtFormat

Data == file.data
BlockEnd == Data[OFF_STRUCT] + Data[SIZE_STRUCT]

DumpUnchanged == UNCHANGED <<part, dir, index, runs, file, npatched, carving>>
Dumping == pc = "dump" /\ pos < BlockEnd
More(token) == Dumping /\ pos < Len(Data) /\ Data[pos + 1] = token

\* The pair of zeros that ends the reservation map, in pairs of 64-bit numbers;
\* a map of length zero at offset zero is not read.
ReservationsEnd ==
    \/ Data[OFF_RSVMAP] = 0
    \/ \E k \in 0..Len(Data) :
         /\ Data[OFF_RSVMAP] + 4 * k + 4 <= Len(Data)
         /\ \A c \in 1..4 : Data[Data[OFF_RSVMAP] + 4 * k + c] = 0

OpenDump ==
    /\ pc = "dump_open"
    /\ IF OpensAsTree(Data) /\ ReservationsEnd
       THEN pc' = "dump" /\ pos' = Data[OFF_STRUCT] /\ UNCHANGED ret
       ELSE Exit("error") /\ pos' = 0
    /\ out' = << >> /\ depth' = 0
    /\ UNCHANGED dts
    /\ DumpUnchanged

\* find() gives -1 when there is no NUL: the text ends before the last byte, and
\* the walk goes on behind the end of the file.
Cut == -1
TextFrom(blk, from) ==
    IF NulsFrom(blk, from) # {} THEN SubSeq(blk, from + 1, NulIndex(blk, from))
    ELSE Append(SubSeq(blk, from + 1, Len(blk) - 1), Cut)
\* Mutant: the result of find() is taken for a place.
AfterTextAsFound(blk, from) == IF NulsFrom(blk, from) # {} THEN NulIndex(blk, from) ELSE -1
AfterText(blk, from) ==
    IF NulsFrom(blk, from) # {} THEN NulIndex(blk, from)
    ELSE IF from > Len(blk) THEN from ELSE Len(blk)

Line(d, kind, name, value) == [depth |-> d, kind |-> kind, name |-> name, value |-> value]

DumpBeginNode ==
    /\ More(BEGIN_NODE)
    /\ out' = Append(out, Line(depth, "node", TextFrom(Data, pos + 1), << >>))
    /\ pos' = AfterText(Data, pos + 1)
    /\ depth' = depth + 1
    /\ UNCHANGED <<pc, ret, dts>>
    /\ DumpUnchanged

DumpEndNode ==
    /\ More(END_NODE)
    /\ depth' = depth - 1
    /\ out' = Append(out, Line(depth - 1, "end", << >>, << >>))
    /\ pos' = pos + 1
    /\ UNCHANGED <<pc, ret, dts>>
    /\ DumpUnchanged

\* render_prop(): the first text of the value if all of it is printable, or
\* the cells.  A list of texts loses all but the first.
Texts(cells) == \A k \in DOMAIN cells : cells[k] \in 100..999
FirstText(cells) ==
    IF NulsFrom(cells, 0) = {} THEN cells
    ELSE LET k == NulIndex(cells, 0)
         IN  SubSeq(cells, 1, IF cells[k] < 100 THEN k - 1 ELSE k)
render_prop(cells) ==
    IF FirstText(cells) # << >> /\ Texts(FirstText(cells))
    THEN <<"text", FirstText(cells)>>
    ELSE IF cells = << >> THEN <<"text", << >>>> ELSE <<"cells", cells>>

\* Mutant: the padding is not skipped.
PropNextUnpadded == pos + 3 + Data[pos + 2] \div 4
PropNext == pos + 3 + Words(Data[pos + 2])

DumpProp ==
    /\ More(PROP)
    /\ IF pos + 3 > Len(Data)
       THEN Exit("error") /\ UNCHANGED <<out, pos>>
       ELSE /\ out' = Append(out, Line(depth, "prop",
                         TextFrom(strings_blk(Data), Data[pos + 3]),
                         render_prop(Slice(Data, pos + 3, PropNext))))
            /\ pos' = PropNext
            /\ UNCHANGED <<pc, ret>>
    /\ UNCHANGED <<depth, dts>>
    /\ DumpUnchanged

\* Mutant: it is looked at again.
DumpNopStays ==
    /\ More(NOP)
    /\ UNCHANGED <<pc, ret, pos, out, depth, dts>>
    /\ DumpUnchanged

DumpNop ==
    /\ More(NOP)
    /\ pos' = pos + 1
    /\ UNCHANGED <<pc, ret, out, depth, dts>>
    /\ DumpUnchanged

\* unpack_from() fails behind the end of the file.
DumpPastEnd ==
    /\ Dumping /\ pos >= Len(Data)
    /\ Exit("error")
    /\ UNCHANGED <<pos, out, depth, dts>>
    /\ DumpUnchanged

\* FDT_END, an unknown token and the end of the block all end the walk.
DumpEnd ==
    /\ pc = "dump"
    /\ pos < BlockEnd =>
         pos < Len(Data) /\ Data[pos + 1] \notin {BEGIN_NODE, END_NODE, PROP, NOP}
    /\ dts' = Put(dts, file.to, [lines |-> out, tree |-> dir[file.name].tree])
    /\ Exit("ok")
    /\ UNCHANGED <<pos, out, depth>>
    /\ DumpUnchanged

DumpStep ==
    \/ OpenDump \/ DumpBeginNode \/ DumpEndNode \/ DumpProp \/ DumpNop
    \/ DumpPastEnd \/ DumpEnd
==================================================================================
